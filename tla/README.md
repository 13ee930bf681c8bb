# RFFE controller firmware: specifications, model checking and proofs

This directory verifies the firmware of the RF front-end controller (LPC1769,
NuttX): its bootloader, the application's servers and control loop, and the
host tools that talk to them. Sources are cited relative to `src/`.

## 1. The system

| Component | State | Operations | Hard behaviour |
|---|---|---|---|
| Bootloader (`bootloader/src/main.c`, `lpc17_iap.c`, `start_app.c`) | three flash regions of 64, 224 and 224 KiB; an update header in the last 8 bytes | check header, erase region, copy page by page, erase header, jump | power cuts in any erase or programming; ignored IAP results; erasing itself |
| Firmware update server (`rffe-app/fw_update.c`) | one connection at a time, staging area, position in a command | erase, write page, reset, 30 s receive timeout | unframed byte stream, short reads, client death, reset mid-upload |
| Upload tool (`utils/rffe_nuttx_lib.py`, `utils/fw_update.py`) | page counter | erase, pages in order, header last, reset | ignores every answer |
| SCPI client (`RFFEControllerBoard` in `utils/rffe_nuttx_lib.py`) | one socket | send a request; read a line if it ends in `?` | answers nobody reads, late answers, 5 s timeout |
| SCPI server (`rffe-app/scpi_server.c`, `scpi_interface.c`) | connection counter, LED, one context per client | accept, reject, serve, answer, close | counter shared by threads without an effective lock; an answer waits for its client without a limit |
| SCPI library (`rffe-app/libscpi`) | input buffer, error queue, status registers per client | input, lex, compose, match, call, push error, register cascade | queue and buffer limits, chunked input, summary bits, paths written over the line being parsed, ambiguous short forms |
| SCPI commands (`rffe-app/scpi_rffe_cmd.c`, `scpi_tables.c`) | shared controller state | attenuation, switching, DAC, PID and temperature settings, network, reset | read-modify-write from several clients |
| Configuration (`rffe-app/config_file.c`, `config_file_migrate.c`) | a file in EEPROM | getters, setters, migration of the old layout | power cut in the migration, console writing at the same time |
| Temperature control (`rffe-app/temp_control.c`, `pid.c`) | DAC values, PID integrators | read mode, settings and sensors; compute; write DACs | mode and DAC values changed by clients between two reads |
| Start-up (`rffe-app/rffe_main.c`, `netconfig.c`, `cdce906.c`) | progress, settings read so far, interface, started servers | attenuation, clock synthesiser, network settings, DHCP, servers | failure of one step, DHCP failure, settings changed by the console while they are read |
| Console (`rffe-app/rffe_console_cfg.c`) | none of its own | set and show configuration | runs before the migration and during the start-up |
| Board support (`rffe-board/`) and NuttX | devices | registration, pin writes | external |

The update chain is tool -> TCP -> update server -> staging flash -> reset ->
bootloader -> application. SCPI clients reach the commands through the SCPI
server, one thread each; the commands, the console and the temperature thread
share the configuration file and the DAC values, with no lock between them.
`rffe_main` starts all of them, and its stack holds the DAC values they share.

## 2. Plan

Order of work: the update chain first, because a mistake there costs the
device; then the code many clients run at once; then the input path.

| Modules | Composes / implements | State |
|---|---|---|
| `Bootloader`, `FlashGeometry`, `BootloaderProofs` | implements `SafeInstall` | done, proved |
| `FwUpdate`, `FwUpdateProofs` | `Bootloader` + upload tool + TCP + update server | done, proved but for liveness |
| `ScpiServer`, `ScpiServerProofs` | - | done, proved but for liveness |
| `ScpiStatus`, `ScpiStatusProofs` | implements `ErrorLog` | done, proved |
| `ScpiInput`, `ScpiInputProofs` | - | done, proved |
| `ConfigMigrate`, `ConfigMigrateProofs` | - | done, proved |
| `ScpiCommands` | - | done, `SettingsHold` proved in `StartupProofs` |
| `Pid`, `TempControl`, `TempControlProofs` | `ScpiCommands` + control thread | done, range and each warm round proved, liveness model-checked |
| `ScpiParse` | program messages and the client class of `rffe_nuttx_lib.py` | done, proved in `ScpiInputProofs` for requests with correct parameters |
| `Startup`, `StartupProofs` | `ScpiCommands` + `rffe_main`, network, console; implements `ScpiCommands` | done, proved but for liveness |
| `ScpiParse` with `ScpiInput` and `ScpiStatus` | several lines in the buffer, the errors of a unit in the queue | next |
| operators for numbers, units and the DAC and PID arithmetic | `Pid` | after that |

Theorems to follow: those of `ScpiParse` for requests with malformed parameters
(a number after a number), which the runs have and the theorems do not.

## 3. The modules and the code

An action is one step another actor can see between: a call that programs one
page, one access to the configuration file, one load or store of the shared
counter. Every module says what its variables stand for where it declares them.
Definitions that begin like another one and follow the comment *Mutant* are
deliberate mistakes: they replace the definition after them to show that a
property notices.

**Bootloader** - flash pages, the bootloader's progress (`pc`, `upd`, `i`) and
the number of power cuts. `main` reads the header and chooses an update;
`EraseRegion`, `copy_flash_region` (one page a step, prepare and copy with their
ignored results) and `EraseMagic` are the loops of `update_app` and
`update_bootloader`; `start_app` jumps. Power cuts tear what is being erased or
programmed: any of its pages may be left or corrupt. The running
application is reduced to what it does to the staging area (`StageErase`,
`StageWrite`, `Arm`), under the discipline `FwUpdate` is then shown to keep
(`StagesSafely`). `SafeInstall` is the abstract specification: one choice of
image, which no cut and no installation step changes. `FlashGeometry` holds the
literals of the LPC1769; `BootloaderProofs` takes them as `Chip` and connects them
with the model's parameters.

**FwUpdate** - takes over `Bootloader`'s variables and adds the tool (`host`),
the connections (`conn`, `wire`, `fin`, `answers`) and the server (`at`, `cur`,
`addr`, `blk`). The stream has no framing: after a short read the rest of a
command is `Junk`, read as any command. Both machines may die at any moment.

**ScpiServer** - the accepting task (`mainPc`, `newsockfd`, `backlog`), client
threads (`pc`, `sockfd`), contexts on the heap, the shared counter with its load
and store as two steps where a slice may end between them (`Preempts`), and the
LED. `counter_lock` is an uninitialised local, so it excludes nobody, and
locking it may hang (`LockMayHang`). `Answer` is the write of an answer, which
waits as long as the client takes none (`deaf`): the receive timeout does not
limit it. A client may start and stop taking answers at any time (`Window`).

**ScpiStatus** - ring buffer of `fifo.c`, error queue of `error.c` and the
registers of `ieee488.c` as sets of bits; `SetSTB`, `SetEvent`, `SetEnable`,
`SetSRE` are the cases of `SCPI_RegSet` with the nested calls they make.
`ErrorLog` is what the queue promises its reader.

**ScpiInput** - positions in the byte stream instead of bytes: what has been
sent, which bytes are newlines, what has been read, what is still in the buffer.
`Input` is `recv` and one call of `SCPI_Input` with its loop over complete lines.

**ScpiParse** - a line is a sequence of cells: keywords and their short forms,
numbers, strings and marks (`SP` for white space, `SEMI` and `COMMA`).
`Text` is the line a request makes, `Spelt`, `HeaderCells` and `ArgsText` the
parts of it. `detectProgramMessageUnit` and the operators
above it are the lexer; `composeCompoundCommand` writes the path of the previous
header over the line, as the code does; `Commands` is the table in its order,
`Pattern` an entry of it as the library reads it, and `matchCommand` the walk
through pattern and header that skips optional keywords and accepts short forms
(`MatchFrom` is one turn of its loop, `HeaderMatches` the walk from the first
keywords on, without the question marks);
the first entry that matches gets the command; `Handler` says what a callback
makes of its first parameter. `ParseUnit` is one turn of the loop of `SCPI_Parse`: a header
that is invalid, empty, unknown or known, the answer with its separators, the
errors. `Request`, `ReadLine` and `GiveUp` are the client. `log` records each
unit for the properties, `executed` the commands run. `Meaning` says what a message
stands for, without the buffer: each unit relative to the last command before it. What is left of
an invalid unit may be run as a unit, and a parameter too many is reported
after the command has run; both are as in the code.

**ConfigMigrate** - the FeRAM byte by byte: a byte is a pair of a value and its
index in it, so that a torn write or a shifted offset shows. `Offset` has the
literals of `config_file.c`; `StructV0` and `StructV1` are the packed structures,
each member after the one before it and its padding. The three are written down
separately, as in the code, and nothing in the model makes them agree.

**ScpiCommands** - the settings, the attenuator and the DAC values, and for each
client thread the command it is in the middle of (`running`, `step`, `buf`: the
`kc`, `ti`, `td` locals). `asked` and `held` record what clients were told, for
the properties only. The console is one more client: its setters are the same.

**TempControl** - extends `ScpiCommands` with the control thread: mode, eight
parameter reads one by one, the computation of `Pid`, two stores and two DAC
writes, any client step between any two of them.

**Startup** - extends `ScpiCommands` with `rffe_main`: `at` is its next step,
`conf` its locals, `eth` the addresses of the interface, `threads` the servers
it has started. `ReadSetting` is one `config_get_*`; `ConfigureStored` and
`RequestLease` are the two halves of `netconfig`, before and after the wait for a
server. `failed` says what this run lacks: the bus of the synthesiser, the
FeRAM, memory for a DHCP handle, a valid answer, a socket; each failure does
what the code does with it, which is often nothing: the variable keeps what was
in it (`Garbage`). The console works from the beginning, connections once the
server runs. `C` is `ScpiCommands` as the clients see it, with the attenuator
replaced by the stored attenuation until it is set: `ImplementsCommands` says
that this sequence of steps is for them the one-step `Restart` that
`ScpiCommands` and `TempControl` use.

## 4. The runs

| Run | Question | Result |
|---|---|---|
| `MCBootloader_all` | updates of the application and the bootloader, two power cuts anywhere | always recoverable, installs exactly the staged image and in the end; only a self-update puts the bootloader at risk; `SafeInstall` is implemented |
| `MCFwUpdate_upload` | two uploads, dying tools, resets, a power cut | every step is one `Bootloader` allows (`StagesSafely`), so what holds there holds here; pages counted as written are in the flash; a set header leads to the image; the server comes back |
| `MCFwUpdate_stall` | streams misread after a stall, tools that die after their header, a power cut | the server writes nothing outside the staging area, and the bootloader survives |
| `scpi_owners` | preemption, hanging locks, failing thread creation | every descriptor has one owner, no context is used after it is freed |
| `scpi_live` | no preemption inside the counter's update; silent, deaf and departed clients, hanging locks, failing thread creation | rejection only when full; counter and LED at rest when no thread is left; the server frees what departed clients held, and silent ones that take their answers, but for descriptors lost with a thread that was not created and those of threads that hang: these stay counted, and keep the LED lit |
| `scpi_status` | any order of errors and commands | status byte is always the summary; the queue is the abstract log |
| `scpi_input` | TCP cuts anywhere; lines below and above the limit | short lines run exactly once; only long ones overrun; the buffer never overflows; what an overrun leaves is at most the tail of one line |
| `scpi_parse` | every message of up to three units, good and bad, in long and short forms, then a query or a command | the commands run are those the units mean; the client reads the answers to its request on one line; a unit that was not done has pushed an error |
| `config_migrate` | three power cuts after any byte of any write | old settings complete in one place, network settings always readable; without cuts every setting is found where it is read |
| `startup` | console and two connections during and after the start-up, resets and power cuts anywhere, no bus or no DHCP handle | settings keep their last values, on channels of their own; attenuator and interface get what is stored; no server outlives what it shares; clients see one restart; in the end every server is started |
| `temp` | clients against the control loop, restarts; a set point raised above a temperature and lowered below it again | outputs in range for parameters that overflow no float; values and set points arrive; a warm front end is in the end not heated, from whatever the integrator had reached |
| `MCFwUpdate_rearm` | is an installation only started for a staged firmware | refuted |

The type invariants of `Bootloader`, `FwUpdate`, `ScpiServer` and `ScpiStatus` are
part of what is proved (section 6). Those of `ScpiCommands`, `TempControl` and
`Startup` (`TempTypeOK`, `StartTypeOK`) hold in the instances of `temp` and
`startup` when they are added to the configurations; they are not listed, for a
type alone says little about the code.

### Bounds

| Module | Bound | Why it is enough |
|---|---|---|
| Bootloader | 1-2 small sectors, two large ones of 2 pages, images of 1 and 2 pages | first and last sector of a region differ, an image may end inside a sector; the proofs cover every geometry |
| | `MaxCuts` 2 | a cut during the recovery from a cut; the proofs cover any number |
| | `Reserved` 2 | the header's sector holds no image page, see section 8 |
| FwUpdate | 2 sessions, `MaxAnswers` 2; one session and one cut where streams are misread | an abandoned upload and the next one; answers are read one by one and their value is ignored; a misread stream already holds every command |
| ScpiServer | 2 threads and descriptors, `MaxActive` 1, `Backlog` 1, `MaxChunks` 1, `MaxDrift` 1 | limit, one below and one above it; `MaxDrift` stops counting lost updates below 0. Threads and descriptors are symmetric in the safety runs that use `Symmetry` |
| ScpiStatus | queue of 3 , three error classes, three masks each | the indices wrap more than once; a mask that selects, one that does not, one with SRQ itself |
| ScpiInput | chunk 3, buffer 8, 17 bytes | lines of every length relative to chunk and buffer; two buffers of bytes |
| ScpiParse | 3 units a message, 21 kinds of unit; `Followers`: two requests after the first | a path is taken from the unit before, which may have taken its own from the one before that; units are full, relative, rooted, common, unknown, with parameters missing, too many, of the wrong kind and out of range; a request leaves nothing behind but what the next one shows |
| | `DacFound`, not `SensorFound` | a query that fails still answers; without the DAC see section 5 |
| ConfigMigrate | `MaxCuts` 3, every prefix of every write | cut, cut in the retry, cut in the retry of that; each setting set once |
| ScpiCommands | 2 clients, two values | one interferes with one |
| TempControl | 1 client, 2 temperatures (1 and 3), A/C set points 0 and 2, `DacMax` 3, `Codes` 7, `FloatMax` 99 | the integrator rises to its limit under the set point 2 and has to come down under 0; no sum of the run reaches 99, and `MCTempControl_infinite` has a parameter beyond it; several clients only add interleavings of single stores here, and the proof covers them |
| Startup | console and two connections with two settings each, one value besides the first; a lease without a mask; `Failing` is the bus and the handle | the console meets every step of the start-up, a connection the console; 106 176 states. Other failures and other clients are in section 5; the proofs cover every set of clients, commands and leases |

### Fairness

Safety runs assume none. `Bootloader`: the processor executes (`WF` of its
steps). `FwUpdate`: so do the server thread and a tool that is alive; the
receive timeout of 30 s (`fw_update.c:91-98`) is an action of the server, which
is what frees it from a dead client. `ScpiServer`: NuttX's scheduler runs every
thread that is ready, and the receive timeout (`scpi_server.c:160-166`) makes a
silent connection ready. `TempControl`: the thread wakes from its sleep of 0.1 s
(`temp_control.c:120`); its liveness is about the time after the last restart
(`RestartsEnd`), as is that of `Startup`, where the scheduler runs `rffe_main`
whenever it is ready (`WF` of `Proceed`) and nothing is assumed of a DHCP server:
`ServesInTheEnd` speaks of requests that end, and `MCStartup` with
`HeatersControlled` shows what happens otherwise.
Clients are never assumed to do anything. Strong fairness is used nowhere.

## 5. Where the code disagrees with its documentation

One is among the runs (PROJECT.json quotes the text it contradicts):

* `MCFwUpdate_rearm` - an upload on a device whose header is still set erases
  the header last; a reset in between installs an erased image.

The others mark the limits within which the runs above hold. Each can be
reproduced: TLC refutes the property under the configuration named, or under
that of a run with the constants changed as the table says and the property
in place of the run's.

| Configuration | Property | What happens |
|---|---|---|
| `MCFwUpdate_lostpage` | `WriteSectorWrites` | a stall of 30 s inside a write command loses the page, and the tool takes the server's error answer for an acknowledgement (`rffe_nuttx_lib.py:31`) |
| `MCScpiServer_burst` | `AtMostMaxActive` | connections accepted in one burst are all admitted, because a thread counts itself in only when it first runs (`scpi_server.c:179`) |
| `MCScpiServer_lostcount` | `RejectedOnlyWhenFull` | a lost update of the counter turns clients away (`scpi_server.c:58`) |
| `MCScpiServer_deaf` | `SilentClientsAreLetGo` | the 30 s of the receive timeout do not limit a write: a client that asks, takes no answers and does not leave keeps its thread and descriptor for ever (`scpi_interface.c:28`) |
| `MCScpiStatus_overflow` | `NewestErrorHasItsClass` | the overflow mark -350 enters the queue without its class bit (`error.c:184`) |
| `MCConfigMigrate_torn` | `UsesNewFormat` | a cut in the write of the new file, after its version byte, leaves old and uninitialised settings under the new version for good (`config_file_migrate.c:116`) |
| `MCConfigMigrate_console` | `ConsoleSettingsHold` | the console is up before the migration, which overwrites what was set meanwhile (`rffe_main.c:81`) |
| `MCConfigMigrate_version` | `VersionIsWritten` | `config_set_version` writes to the address mode; nothing calls it (`config_file.c:79`) |
| `MCScpiCommands_lostupdate` | `SettingsHold` | two clients set PID parameters of one channel and one is lost (`scpi_rffe_cmd.c:197`) |
| `MCScpiCommands_attenuation` | `AttenuationIsReported` | attenuator and file end up with different values (`scpi_rffe_cmd.c:104`) |
| `MCScpiParse`, `Requests <- SetsIp` | `SetIpArrives` | `set_ip` sends the address without quotes (`rffe_nuttx_lib.py:258`); the parser finds a number after a number, discards the command, and the address is never set |
| `MCScpiParse`, `Requests <- SetsTd` | `RunsWhatTheMessageSays` | `T` is the short form of `Ti` and of `Td`; `SET:PID:T:AC` sets the former, which is first in the table, so a short header cannot set `Td` (`scpi_tables.c:67`) |
| `MCScpiParse`, `Requests <- Spoilt` | `RunsWhatTheMessageSays` | an unknown relative header has had a path written over the header before it, which the next relative header starts from (`utils.c:709`): in `GET:DAC:OUTput:AC?;FOO?;BD?` the last query is not found |
| `MCScpiParse`, `Requests <- EndsInCommand` | `AnswersTheRequest` | after a query, a command that ends the message leaves the line without its newline (`parser.c:133`), and the next answer is glued to it |
| `MCScpiParse`, `Requests <- Unheard` | `FailuresAreReported` | text that is no address and the special numbers (`MIN`) are not refused and not done (`scpi_rffe_cmd.c:513`, `units.c:457`) |
| `MCScpiParse`, `Requests <- SetsDac`, `DacFound = FALSE` | `AnswersTheRequest` | without `/dev/dac0` the command that sets the DAC answers (`scpi_rffe_cmd.c:419`), and its answer is read as that to the next query |
| `MCScpiParse`, `Patient = FALSE` | `AnswersTheRequest` | an answer later than 5 s is read as that to the next query (`rffe_nuttx_lib.py:86`) |
| `MCStartup`, `Failing = {"answer"}` | `NetworkAsStored` | the result of a DHCP request is ignored and `ds` is never cleared: the addresses of a failed one, or a mask and router the lease leaves out if NuttX's client does not clear them, are whatever the stack held (`netconfig.c:42`) |
| `MCStartup`, `Failing = {"read"}` | `AttenuationRestored` | a failed read leaves the local variable unset, and the attenuator gets what was in it (`rffe_main.c:134`) |
| `MCStartup`, `Failing = {"socket"}` | `SharedValuesLive` | a SCPI server that gets no socket returns, and `rffe_main` with it, while the temperature control still uses its locals (`rffe_main.c:109`) |
| `MCStartup` | `HeatersControlled` | with DHCP and no server, the request is waited for before the temperature control is started (`rffe_main.c:177`) |
| `MCStartup`, `Allowed <- AttenuationAtConsole` | `ImplementsCommands` | an attenuation set at the console between its read and its restoration ends up in the file and not in the attenuator (`rffe_main.c:134`) |
| `MCTempControl_override` | `HeaterIsSet` | a round begun in automatic mode overwrites the value a client set after turning the control off, and it stays (`temp_control.c:113`) |
| `MCTempControl_nosensor` | `ManualValueArrives` | without sensors nothing writes the DAC in manual mode either (`temp_control.c:72`) |
| `MCTempControl_infinite` | `OutputsInRange` | no command limits a PID parameter: `SET:PID:TD:AC 1e39` is stored as an infinity, which times a difference of 0 is NaN; no comparison of the clamps holds of it, so it reaches the DAC value, whose conversion to an unsigned code is undefined (`pid.c:51-70`, `temp_control.c:52`) |
| `MCTempControl_negative` | `OutputsInRange` | a negative voltage is not refused (`scpi_rffe_cmd.c:428`), and its conversion to an unsigned code is undefined |

## 6. Proofs

All for every value of the constants that meets the named assumptions of the
modules; none is taken on trust.

* `BootloaderProofs`. `TypeCorrect`; `Invariance` of `BootInv`, which says that a
  header is only set over a complete image, that pages copied so far are the
  staged ones, and that each region is intact unless a header says it is being
  replaced - "recoverable" alone is not inductive, because it does not say what a
  half-copied region holds. From it `AlwaysRecoverable`, `InstallsTheStagedImage`
  (what is handed over is what was staged), `InstalledOnce` (no header is left
  that would install it again: `NoInstallLeftBehind`) and `Refinement` (the safety
  part of `SafeInstall`). Assumption
  `HeaderSectorFree`: no image reaches the last sector, see section 8.
  `OnlySelfUpdateRisksBoot` follows from `BootInv` as well. With the code's
  literals (`Chip`): pages programmed lie in the sectors erased, no page straddles
  sectors, accepted write commands stay in sectors 23 to 29, the header read is
  the header written; and `ModelIsTheChip`: for the LPC1769's numbers of sectors
  and pages the model's regions, sectors and `get_sector_number` are the code's,
  so that what is proved for every geometry is proved for the one there is.
* `FwUpdateProofs`, over those of the bootloader. `FwTypeCorrect`: the types of
  tools, stream and server, with a lemma for each party, are inductive together
  with the bootloader's `TypeOK`. From them `ServerKeepsToStaging`: the address
  check and the erase name pages of the staging area only, for every geometry
  and whatever the stream is misread as; no assumption about images is needed.
  `UploadsStageSafely` (`FwSpec => StagesSafely`) connects the update with the
  bootloader. "A header is only set over a complete image" is not inductive: it
  needs to be known what the staging area holds when the header is sent, hence
  what it held before each page, hence that the server is in step with the tool.
  The invariant `UploadInv` is therefore a table: for a connection that waits
  (`Queued`) or is served (`Served`), which segments are on the wire, how many
  answers wait and which pages are staged (`Upto`) for each place the tool can be
  at, with what a tool that died may have left of a command (`ServedGone`); and,
  for the server, that the erased blocks are blank and that a set header leaves
  nothing to read but the reset (`ServerInv`). One lemma per action moves a
  session from line to line, `OtherTools` and `OtherConnections` keep the rest.
  `PagesAreWritten` (`WriteSectorWrites`) follows from the same table, and
  `UndisturbedUploadsAreRecoverable` carries `AlwaysRecoverable` over to the device
  with its tools, network and server, and `UndisturbedUploadsAreInstalled` what is
  proved of the installed image: it is the one staged under its header, whole, and
  installed once. These four have the assumption `HeaderSectorFree` and, in
  their statements, the hypothesis `[][Undisturbed]_fwvars`: no receive timeout
  comes while bytes are only late (`LateBytes`), which misreads the stream and
  loses a page (`MCFwUpdate_lostpage`), and no tool dies between its header and
  its reset (`HeaderLeftBehind`), after which another client can erase under a set
  header (`MCFwUpdate_rearm`). Neither is anything the code rules out; what is
  proved is that they are the only two things that have to go right, whatever
  the values of `Stalls` and `HostFinishes`.
  `UploadsSpareTheBootloader` (`BootloaderSurvives`) needs none of this: where
  uploads are of applications, whatever goes wrong leaves the bootloader intact,
  so that the device can be updated again. Its invariant, `SpareInv`, is that no
  segment of a stream and not the header's page asks for a self-update
  (`AppStreams`, `AppServed`), hence that the bootloader only ever works on the
  application's region (`BootSpared`). A self-update has no such guarantee.
* `ScpiServerProofs`. `EveryDescriptorHasOneOwner`: `OwnedOnce` with the types is
  inductive as it stands; one step for each action, with a lemma for those that
  leave owners alone. `CounterIsExact`, for `~Preempts`: the counter is the number
  of threads between their increment and their decrement, no thread is between
  load and store, and the LED is only lit while there are threads (`CountInv`).
  A thread that hangs in its first lock is not counted, one that hangs in its
  second stays counted, so the theorem holds with hanging locks as well.
  `EndedThreadsLeaveNothing` (`QuietMeansIdle`) follows from the same invariant.
* `ScpiStatusProofs`. `SummaryIsExact` from `Good` registers (every summary bit
  agrees with what it summarises, preserved by each `Set...` operator) and `FifoOK`
  (`wr` is `rd + count` modulo `Size`). `QueueRefinement`: each action maps to a step
  of `ErrorLog` or a stutter, from lemmas on what adding, removing and replacing the
  last entry do to the sequence the ring buffer stands for.
* `ScpiInputProofs`. `ShortLinesAreSafe`: the buffer holds no newline between
  calls, so with lines of at most `Length - Chunk` bytes there is room for a chunk.
  `OverrunsNeedLongLines` is the same for streams that also carry longer lines.
  `LinesAreRun`: what was run ends at a newline before the buffer, each newline
  once (`RanOnce`), and without an overrun every newline before the buffer has its
  line (`RanAll`); the least and the greatest newline of a chunk exist by induction
  over the numbers. `FailuresAreHeardOf` is about the parser, for any requests;
  `ScpiInputProofs` extends `ScpiParse` as well. White space and headers end inside the line
  (`WhiteSpaceBounds`, `HeaderBounds`); the walk over a parameter list only looks
  further on, so that its recursion is defined (`ListLooksAhead`, `ListExists`),
  and ends inside the line too (`ListBounds`); the path that
  `composeCompoundCommand` writes over the line is copied from cells of the line
  to cells of the line, so that no new kind of cell appears (`ComposeBounds`, with
  the position of the previous header in the invariant, `Token`). Every entry of the
  command table has a handler of a known kind (`CommandTable`), and each handler that
  does not do its work pushes an error (`HandlersReport`), as long as the line holds
  neither a special number nor a text that is no address (`Unheard`);
  `MCScpiParse` with `Requests <- Unheard` shows that this is needed.

  `MessagesAreUnderstood` (`RunsWhatTheMessageSays`) and `AnswersArrive`
  (`AnswersTheRequest`) say which command a line selects, and what its client
  reads. The invariant of the first, `Understands`, speaks of the line while
  it is read and written over: after `k` units the cells from `pos` on are still as
  the client wrote them, the previous header carries the path `PathAfter` gives
  for them (`Carries`), and the commands run are those of the first `k` units
  (`Reads`). One turn of the loop keeps it (`UnitRuns`), by four facts: the
  lexer finds a unit exactly where the client laid it out (`UnitFound`, `UnitsLie`);
  what `composeCompoundCommand` writes is the path and the new header, and it ends
  where the unit's header ends (`ComposedHeader`, `Composed`); a pattern of the table
  matches a header if and only if the header spells its path, with or without the
  optional end, in short forms or not (`CommandMatches`, `TableRegular`); and the
  first entry that matches is the one entry the unit names (`FoundIsNamed`).
  The second adds `Arrives`: what the device has written since the request is the
  list of answers of the commands run so far, with a separator before each but the
  first and the newline after the last (`OneMoreAnswer`, `RunWrites`, `EndWrites`),
  and the client takes it as a whole (`ReadArrives`).

  Both are for any set of requests of any length in which each unit is `Plain`
  (its words are no marks and no short forms of other words, a common command
  has no leading colon, each parameter is one cell or a number with its suffix)
  and each message `Unspoilt` (no unknown header before a relative one that has
  a path to take); units may be full, relative, rooted, short, common or
  unknown, and their parameters missing, too many or of the wrong kind. Each
  hypothesis has its counterexample in section 5: `Spoilt` (`Unspoilt`),
  `SetsTd` (the short form of `Td`), `SetsIp` (a malformed parameter), and for
  the answers `EndsInCommand` (a message asks by its last header or not at all,
  `Asks` and `Quiet`), `SetsDac` with `DacFound = FALSE`, and `Patient = FALSE`.
  Of the 5474 requests of the run `scpi_parse`, 4525 satisfy the hypotheses of
  both; the others have malformed parameters and are only model-checked.
* `TempControlProofs`. The invariant `Inv(V, R)` has two parameters: the values `V`
  a setting of the controllers may have, and what the controllers may leave, `R`. It
  is inductive when `R` covers what `Compute` makes of values in `V`
  (`Covers`). `HeatersInRange` takes parameters and temperatures of at most some `g`
  in size, small enough for no product and no sum of `pid_compute` to overflow
  (`Moderate`), and for `R` the range from 0 to `DacMax`: DAC values, codes and
  integrators stay in range through every interleaving, under `NoNegativeDac` (no
  client sends a negative voltage). Without `Moderate` it is false
  (`MCTempControl_infinite`), and what is left is `OnlyNaNPassesTheClamps`: for every
  parameter, `R` is the same range and NaN. `WarmFrontEndIsTurnedDown`, under
  `Moderate` again: whatever changes meanwhile, a round that measures more than
  the set point it has read lowers the integrator or leaves it at 0, and then gives
  no voltage if the controller has no derivative part.
  `HotMeansOff`, which repeats this step until the heater is off, needs fairness
  and stays with TLC.
* `StartupProofs`. `StartupRefinement`, for `ConsolesQuiet` and `ReadsSucceed`: the
  start-up implements `ScpiCommands`, which is why the modules above it may take a
  restart for one step. The invariant says that before the attenuator is set no
  connection exists, no console command is about to set the attenuation, and
  what was read is still stored. `SharedValuesOutliveServers`, where the SCPI
  server gets its socket: no server runs before the network is configured, and
  none does when `rffe_main` has returned. `NetworkIsAsStored`, for reads and
  requests that succeed: what has been read so far, and what is on the
  interface, is what is stored for each setting not changed meanwhile.
  `SettingsAreKept`, for `OwnChannels` (no two clients set PID parameters of one
  channel): `SettingsHold` alone does not say what a client carries between its
  reads and its writes, so the invariant adds that each copy a PID command has
  read is still what the file has, and that the new value is in the file once
  written (`CopiesAreCurrent`). `MCScpiCommands_lostupdate` shows that
  the assumption is needed. `AttenuationIsRestored`, for `ConsolesQuiet`,
  `ReadsSucceed` and `OneSetter` (one client sets the attenuation): while that
  client is between the attenuator and the file it carries the value the file
  will get, and at any other time, from the restoration on, the two agree
  (`AttInv`). With two such clients they need not
  (`MCScpiCommands_attenuation`).
* `ConfigMigrateProofs`. First what the layouts are worth: `StructV0`, `StructV1` and
  `Offset` put every member at the same addresses (`SameAddresses`) and no two
  members share a byte (`Disjoint`), hence every byte has its one `Owner`, and a
  file assembled member by member gives each member back
  (`ImageBytes`, `NewFileBytes`). Then one inductive invariant for each property,
  because none is inductive alone. `OldSettingsAreKept` needs no assumption; its
  invariant (`OldInv`) adds that the copy in memory is the old file until the
  migration is over, that nothing is written over the file before the backup is
  complete, and that a torn file is only left behind with the version of the new
  format, so that a later start does not make a backup of it.
  `AddressSurvives` (`NetInv`): the copy has the network settings too, and each is
  at the same offset in both formats, so a prefix of the new file over the old
  one changes none of their bytes. `SettledSettingsStay` (`SettledInv`): once the
  start-up is past the migration the version byte keeps the file from being
  migrated again. `LayoutsDoAgree` (`LayoutInv`). The last three assume that the
  version is not among the settings written one by one: nothing calls
  `config_set_version`, which would write to the address mode
  (`MCConfigMigrate_version`).

Only model-checked: every liveness property, those of `temp` and the liveness of
`SafeInstall` in `ImplementsSafeInstall` among them (fairness is out of the
prover's reach), and in `ScpiParse` the messages with malformed parameters, where
what is left of a unit is parsed as the next one and the layout the proof follows is
lost. Every invariant of the runs is stated by a theorem.

## 7. Not modelled

* The conversions of numbers, numeric keyword suffixes (no command of the table
  has one), arbitrary blocks, expressions and based numbers (no command takes
  one), and the contents of answers.
* How the sensors measure.
* A second start of the whole program from the console, where `rffe` with arguments
  is the configuration command, which is modelled.
* The failure of a server after it has been started: `Startup` counts it as running.
  The result of `pthread_create` is ignored (`temp_control.c:139`,
  `fw_update.c:177`), the temperature thread ends where it finds no sensors
  (`temp_control.c:72-81`; that is in `TempControl`), and the update server where it
  gets no socket or port (`fw_update.c:50-78`).
* The memory of a SCPI context: its `malloc` is unchecked (`scpi_server.c:181-185`).
  The descriptor the LED is switched with is open for one call and takes none of
  the slots of the model.
* The write of an answer of the update server, one byte, which does not wait in
  the model (that of the SCPI server does: `Answer`).
* A FeRAM that is missing altogether: every access fails, in the migration too.
  Single failed reads of the start-up are modelled.
* Operation and condition registers: no command of this device writes them.
* Newlines inside quoted strings, which do not end a line for the library.
* Rounding: floats are integers, with overflow, infinities and NaN as the code's
  floats have them (`Pid`), and `ki` and `kd` are per sample. A parameter sent as one
  of the special numbers leaves the local it is to be read into unset
  (`Unheard` in section 5), and is left out of `ScpiCommands`. A setting read by the
  control thread while it is being written is old or new: a write of four bytes is
  one step.
* The registers of the clock synthesiser, status LEDs, board bring-up and the
  operating system, which is a submodule the repository does not contain.
* Third-party code that never runs on the device or declares no behaviour of its
  own: `tools/kconfig-frontends` (the configuration tool of the build) and the
  vendor's headers under `bootloader/inc`. The two are about three quarters of
  the repository's lines, so the part of all lines that these modules stand
  for is small although the application's own logic is covered: what is left of
  it is register setup, printing, number formatting, units and expressions.

## 8. Assumptions about the environment

* Images leave the last large sector of the staging area free (`Reserved`,
  `HeaderSectorFree`). The tool does not check this: a larger image shares the
  header's sector, whose erase after the installation may then be cut, with pages
  of the image gone and the header left.
* Programming a page that is not blank gives a corrupt page. A header whose sector
  is torn may keep its magic word and lose its type, not gain another.
* A power cut during a FeRAM write has stored a prefix of the bytes.
* `Stalls = FALSE` in the runs that ask about undisturbed connections: bytes that
  were sent arrive within the receive timeout. `HostFinishes`: a tool that has
  written the header also sends the reset; `MCFwUpdate_rearm` shows what happens
  otherwise. The proofs take neither for granted: their theorems name the steps
  they exclude (`Undisturbed`).
* `Patient` in the runs of `ScpiParse`: answers come within the client's 5 s; and its
  messages end in a query or contain none, with no unknown relative header before
  another unit (`Proper`). Section 5 has what happens otherwise.
* `Preempts = FALSE` in `scpi_live` and in `CounterIsExact`: no time slice ends
  between the load and the store of the counter.
* Clients that take their answers or leave, in `DescriptorsComeBack`;
  `MCScpiServer_deaf` shows what one that does neither does. Nothing is assumed of
  the uninitialised locks and of `pthread_create`: `LockMayHang` and `CreateMayFail`
  are TRUE in `scpi_live` too, and the two liveness properties name what stays
  behind then, the descriptors in `lost`, those of threads that hang (`HangsWith`) and
  their place in the counter (`CountedForEver`).
* What a NaN becomes as a code: the floating-point library of the build makes 0 of it.
* `NoNegativeDac`: no client sends a negative voltage (`MCTempControl_negative`);
  `Moderate`: none a parameter that overflows (`MCTempControl_infinite`).
* In `Startup`: a lease is an address, and a mask and a router that may be
  missing (`Leases`), which NuttX's client then clears; what a local variable
  holds before it is set is any value of `Garbage`. `ConsolesQuiet`: the console
  sets no attenuation; `ReadsSucceed`: FeRAM reads do not fail. Section 5 has
  what happens otherwise.
