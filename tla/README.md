# Verification of the scripts under `src/scripts/`

This directory holds TLA+ models of two of the repository's three scripts, TLC
configurations that model-check them, and TLAPS proofs about them:
- `test_cc_cli_multiplex.py`: the full-duplex client `ClaudeCLIWrapper`, which drives an external agent process over three pipes, and the suite that exercises it;
- `generate_headers.py`: writes an English and a Chinese SVG header per module of the web app.

The third, `process_avatar.py`, is not modelled (see "Not modelled").

## The system

`ClaudeCLIWrapper` has four concurrent actors, and the external process is a
fifth:

| Actor | Code | What it does |
|---|---|---|
| caller thread | `start`, `send_raw`/`send_message`, `wait_for_result`, `check_status`, `stop` (lines 23-150) | spawns the process, writes requests to stdin, polls `stdout_queue` until a `result`, terminates the process |
| stdout reader | `_reader_thread` (50-57) | moves lines from the stdout pipe to `stdout_queue` until EOF, or until `readline` raises: the `try` wraps the whole loop, so the `except` (55-57) ends the thread |
| stderr reader | `_reader_thread` (50-57) | the same, for stderr and `stderr_queue` |
| stderr logger | `_stderr_logger` (59-65) | pops `stderr_queue` while `running` |
| external process | not in this repository (spec §2, §6) | reads one request at a time, writes events and diagnostics, ends with `result`, may crash, exits on SIGTERM |

The two queues are the only state the threads share. The OS pipes have bounded
capacity, and a write to a full pipe blocks the writer. That is why stderr must
be drained (harness test 3).

`run_comprehensive_suite` (lines 153-231) drives five scenarios. Test 5
stops the process and starts a second wrapper on the same session id. That is
safe only if `stop()` returns with the old process dead.

The header script is a sequential file tool and shares nothing with the
client. `generate_headers.py` loops over `MODULES`: for each entry it opens a
file with `'w'`, which truncates it, and then writes the layout of
`generate_svg`. A run may be killed between any two steps and started again.

## Modules

- **`CLIWrapper.tla`**: the client and its environment.
  - Variables:
    - the process: `proc`, `termSent`, and `child` (the request it is serving and the lines written for it);
    - the three pipes: `stdinP` (request ids), `outP` (`[req, kind]` lines) and `errP` (a count);
    - the threads: `running`, `outQ`, `errQ`, `outRd`, `errRd`, `logger`;
    - the caller: `pc`, `raised`, `elapsed`, `evs`, `sentAt`, `eventLog`, `waits`, `sent`.
  - Actions (`pc` is the caller's program counter):
    - `start`: Popen succeeds and three daemons start, or Popen raises.
    - `send_raw` is two steps, because the process may die between them:
      - `send_raw_check`: the `poll()` guard;
      - `send_raw_write`: blocks while the pipe is full, or gets BrokenPipe and returns False.
    - `wait_for_result` is three steps:
      - `_begin`: sets the start time and `events`;
      - `_check`: the deadline test, then the `poll()` test;
      - `_get`: either an empty poll (`queue_empty_poll`), which advances time by one poll, or a line (`queue_line`). A non-JSON line is skipped. Any other line is logged to `events` and `event_log`, then dispatched by `handle_event`.
    - `stop`, `stop_wait_return`, `stop_wait_expire`.
    - Three actions for each reader thread: a line moved, EOF, and `_fail`, a `readline` that raises and ends the thread, losing the line it was decoding. `_fail` is enabled only when the constant `DecodeErrors` is TRUE, meaning the process may write a line that the locale's text decoding (`text=True`) rejects.
    - One action each for the logger: a pop, or exit.
  - The JSON `type` of a line is abstracted to a kind:
    - progress (`thinking`/`status`), `tool_use`, `assistant` (nested tool use), `other`, `result`;
    - `error_obj` and `error_str`, because line 125 behaves differently for an `error` field that is an object and one that is a string;
    - `garbage`, a line `json.loads` rejects.
  - Each outcome of `wait_for_result` is recorded in `waits`. This is history for the properties; the code returns it to the caller.
- **`MC_CLIWrapper.tla`**: the module the TLC runs load.
- **`CLIWrapperProofs.tla`**: the TLAPS proofs of type correctness, `StopLeavesNoChild` and `SendNeverRaises`.
- **`WaitAccountingProofs.tla`**: the TLAPS proof of `WaitResultAccounting`.
- **`StdoutChannel.tla`**: the abstract specification of the stdout path, a FIFO channel.
  - `chan` holds the lines written and not yet taken; `log` the lines taken and kept.
  - `Put(l)` is the process writing a line. `Take` is the caller taking the oldest line, which it keeps unless it is junk (unparsable).
- **`CLIWrapperChannel.tla`**: the refinement mapping.
  - `chan <- outQ \o outP`: the queue followed by the pipe.
  - `log <- eventLog`, and `Junk <- Unparsable`, the lines `json.loads` rejects (line 109).
  - Under it, `ChildEmit`/`ChildResult` are `Put`s, `queue_line` is a `Take`, and `reader_thread_stdout` is a stutter.
  - `StdoutFIFO == Channel!Spec`. `MC_Channel.tla` loads it. With decoding errors possible, `reader_thread_stdout_fail` removes a line from the channel that no `Take` took, so the refinement fails (run `stdout_fifo`).
- **`Header.tla`** (`generate_headers.py`):
  - `MODULES` holds the eight entries. The English title parts are kept as strings, because their length sets the layout. The Chinese parts are kept as character counts, and the icon as the entry's name.
  - `generate_svg(m, isZh)` returns the layout it computes: the icon's x and scale, and for each text its anchor x, anchor side, character count and glyph width.
    - Lengths are in tenths of a pixel, so `icon_scale = 0.7` and the halving in `start_x` are exact. The Python floats are exact on these values too.
    - Glyph widths are assumptions: one em for a CJK character and 0.8 em for a Latin capital, at the 72 px inline font size.
  - Variables:
    - `dirExists`;
    - `files`, a function from file name to the sequence of writes the file holds;
    - `pc`, `i` (the loop index) and `runs`.
  - Actions:
    - `main` creates the directory and starts the loop;
    - `main_loop`;
    - `open_en` and `open_zh`: `open(..., 'w')`, which truncates;
    - `write_en` and `write_zh`: `f.write`;
    - `kill` ends a run at any step.
  - `Init` is a fresh checkout, an empty directory, or a directory of stale headers.
  - Two facts about the literal `MODULES` table are `ASSUME`s, which TLC evaluates at the start of every run that loads `Header`:
    - `TitlesFit`: every English title's estimated width, plus the gap and the icon, fits the viewBox, and every Chinese part fits the half beside the icon;
    - `FileNamesDistinct`: `main` gives the 16 headers 16 different names.
  - The proofs use these two facts. The provers cannot compute them, because they are about string lengths and concatenation.
- **`HeaderProofs.tla`**: the TLAPS proofs of `HeaderLayoutSound` and `HeadersAfterRun`.
- **`MC_Header.tla`**: the module the TLC runs load.

## Runs

The CLIWrapper runs use `MaxReq = 2`, `MaxEvents = 1`, `PipeCap = 1` and `Timeout = 1`:
- Two requests are enough for one request to follow another, which every pairing property needs.
- A pipe of one line fills as soon as a second line is written. That makes blocking writes, and the stderr deadlock, reachable.
- `Timeout = 1` lets a wait time out after one empty poll, so timeouts race late results.
- The exception is `stdout_fifo`, which uses `PipeCap = 2`. With two lines in the pipe, the reader thread moves one while the other is still unread, and the wait loop takes from the queue in between.
- `send_liveness` uses `MaxReq = 3` and `MaxWaits = 0`. A send blocks only when the stdin pipe is full and the child is busy, so a third request is needed. The wait loop is left out because it does not touch the pipes, and with it the run would take about 14 minutes.
- `DecodeErrors` is TRUE in `safety`, `stdout_fifo` and `reader_death`. It is FALSE in the liveness runs: a reader that dies on a bad line makes both liveness properties false, and `reader_death` shows that.

`CHECK_DEADLOCK FALSE` is set because each system really stops. The client stops after `stop` or an exception, and the header script after its last run.

| Run | Cfg | Expect | What it shows |
|---|---|---|---|
| safety | `MC_CLIWrapper.cfg` | pass | `TypeOK`; `StopLeavesNoChild`: once `stop()` has returned, the process is dead; and `WaitResultAccounting`: a True wait holds exactly one `result`, its last event; a False or running wait holds none; every `result` in `event_log` ended a successful wait. `SendNeverRaises`: a `send_raw` past its `poll()` guard returns normally, delivering the request or catching the BrokenPipeError of a child that died in between (spec §4.4, §7). Error, string-error and non-JSON lines are on; crashes and decode failures are allowed; three waits. |
| liveness | `MC_Liveness.cfg` | pass | `RequestAnsweredOrDied`: with the stderr pipe filled twice before the result, a request the process read is still answered, or the process dies. `WaitReturns`: every wait returns. |
| send_liveness | `MC_SendLiveness.cfg` | pass | `SendReturns`: a `send_raw` blocked on a full stdin pipe returns, because the readers drain the child's output and the child reads on. |
| headers | `MC_Header.cfg` | pass | `HeaderLayoutSound`: every header written has its icon and texts inside the viewBox, and none overlap. `HeadersAfterRun`: after any run that completes, every header holds exactly the current layout, whatever killed runs left before. `MaxRuns = 3`, so a killed run, a second killed run and a complete one can follow each other. |
| reader_death | `MC_ReaderDeath.cfg` | violation | `RequestAnsweredOrDied` fails once a stderr line can fail to decode. The `except` at line 55 ends the stderr reader, the child blocks on the full stderr pipe before its result, and the request is never answered (spec §4.2: a reader exits only at end of stream; §4.7(3): no deadlock). |
| stdout_fifo | `MC_Channel.cfg` | violation | `StdoutFIFO` fails once a stdout line can fail to decode. The reader ends, the line is lost, and every later event stays in the pipe (spec §5: events surface in the order emitted). |
| pairs_in_order | `MC_PairsInOrder.cfg` | violation | a timed-out wait leaves a late result queued, and the next wait returns it as its own (spec §8, bullet 4) |
| exited_without_result | `MC_ExitedOnlyWithoutResult.cfg` | violation | a result written just before exit is reported as a death, because `poll()` runs before the drain (line 102) |
| error_event_non_fatal | `MC_ErrorEventNonFatal.cfg` | violation | a string `error` field raises AttributeError at line 125 |
| stop_never_raises | `MC_StopNeverRaises.cfg` | violation | `wait(timeout=5)` at line 150 raises TimeoutExpired, though spec §4.1 bounds stop by a grace period and §7 lets only LaunchError reach the caller |

Each property of a passing run has a mutant in the module it is about, and the
property catches it:

| Mutant | What it gets wrong | Property that catches it |
|---|---|---|
| `wait_for_result_check_late` | the deadline is off by one | `TypeOK` |
| `handle_event_error_terminal` | error events end the wait | `WaitResultAccounting` |
| `start_no_stderr_thread` | no stderr reader | `RequestAnsweredOrDied`, `SendReturns` |
| `queue_empty_poll_no_clock` | time does not advance on an empty poll | `WaitReturns` |
| `stop_no_wait` | stop sends SIGTERM and returns without waiting | `StopLeavesNoChild` |
| `send_raw_write_uncaught` | BrokenPipeError escapes `send_raw` | `SendNeverRaises` |
| `char_w_low` (`Header.tla`) | 50 px per character for the English width estimate | `HeaderLayoutSound` |
| `OpenForWriteAppend` (`Header.tla`) | the header opened without truncation | `HeadersAfterRun` |

### Fairness

`Fairness` is weak fairness on:
- both readers and the logger, which block only in `readline`/`get`, so the OS runs them whenever they can move;
- the process's `ChildRead`, `ChildDiag` and `ChildResult`: the external agent is assumed to answer what it has read;
- the wait loop's two steps, since a 0.2 s `get` never blocks indefinitely;
- `send_raw_write`: a blocked `stdin.write` is a blocking system call that completes as soon as the pipe has room, or fails as soon as the child is gone.

Nothing forces the caller to send, wait or stop, the process to crash, or a line to fail decoding. Those failure actions have no fairness.

## Proofs

All theorems hold for every value of the constants that satisfies the
module's named assumptions (`ConstAssumption`, `HeaderAssumption`). The `Header` theorems also use `TitlesFit` and
`FileNamesDistinct`, facts about the literal table that TLC evaluates.

**`CLIWrapperProofs.tla`**
- `THEOREM TypeCorrect == Spec => []TypeOK`. `TypeOK` alone is not inductive, for two reasons:
  - `queue_empty_poll` increments `elapsed`. The result stays within `0..Timeout+1` only because the loop reaches `wget` only with `elapsed <= Timeout` (`WaitBound`).
  - `send_raw_write` increments `sent`. The result stays within range only because `send` is entered with `sent < MaxReq` (`SendBound`).
  - So the proof uses `IInv == TypeOK /\ WaitBound /\ SendBound`, split into four groups by owning actor (`TEnv`, `TThr`, `TCtl`, `THist`).
  - `NextIInv` has one case per action, and under each case one step per group the action changes.
- `THEOREM StopSafe == Spec => []StopLeavesNoChild`. Its inductive invariant `SInv` adds two facts:
  - `StoppingCleared`: while `stop` is in `wait(timeout=5)`, `running` is already false;
  - `Launched`: every caller state after a successful `start` has a process that runs or has exited.
  - Without them, the step out of `stopping`, or `stop` on a dead process, could not be shown to leave a dead process.
- `THEOREM SendSafe == Spec => SendNeverRaises`, an action property.
  - The lemma `SendStepHolds` shows that every step of `Next` satisfies the property's step formula, with no invariant needed.
  - Only `send_raw_write` leaves `pc = "send"`. Both of its branches return to `idle`: one counts the delivered request, the other is the caught BrokenPipeError with the child exited.

**`WaitAccountingProofs.tla`**
- `THEOREM WaitAccounting == Spec => []WaitResultAccounting`.
  - The counts are written as `Cardinality` of index sets (`ResultCount`, `SuccessCount`). The provers can reason about those with `FiniteSetTheorems`; they cannot unfold a recursive count such as `SelectSeq`.
  - The inductive invariant adds, on top of `IInv`:
    - `WA1`: every recorded wait is good: it holds one `result` if it returned True, none otherwise, and a True wait ends on its `result`;
    - `WA2`: a running wait has no `result` in `evs`;
    - `WA3`: the count of results in `event_log` equals the count of successful waits.
  - `WA2` is what lets `queue_line` on a `result` record one new success and one new logged result together. The lemmas `ResultCountAppend` and `SuccessCountAppend` give how each count grows on an append.

**`HeaderProofs.tla`**
- Layout lemmas:
  - `EnglishLayoutSound`: for every title whose estimated width `n * char_w + GAP + ICON_W` fits `VIEW_W`, the English layout is sound. The 60 px estimate is at least the 57.6 px glyphs, so the icon placed after the estimate clears the text. Centring the group keeps both inside the viewBox.
  - `ChineseLayoutSound`: for every pair of part lengths that fit beside the centred icon, the Chinese layout is sound.
  - `WrittenSound`: with `TitlesFit`, every layout of a `MODULES` entry is sound.
- File lemmas:
  - `OpenKeeps`: `open(name, 'w')` empties that file and leaves every other header as it was. It uses `FileDistinct`, which comes from `FileNamesDistinct`.
  - `WriteKeeps`: `f.write` appends to that file only.
- The inductive invariant `HInv` has four groups:
  - `HTyp`: every write in any file is a current layout or stale;
  - `HIdx`: the loop index at each step, with `i = N + 1` at `done`;
  - `HDone`: a run at entry `i` has completed every entry before `i`;
  - `HCur`: inside entry `i`, the file being written is empty after its `open`, and the English file holds its layout once written.
  - `HeadersAfterRun` alone is not inductive. It says nothing until `done`, and the step into `done` is safe only because of what each earlier step did (`HDone`, `HCur`).
- `THEOREM LayoutSafe == Spec => []HeaderLayoutSound`: from `HTyp` and `WrittenSound`.
- `THEOREM HeadersFresh == Spec => []HeadersAfterRun`: from `HIdx` and `HDone` at `done`.
- `OpenForWrite` is written as the explicit function that TLC's `(name :> <<>>) @@ files` denotes, because the provers cannot expand `:>` and `@@`.

Only model-checked:
- the liveness properties, since TLAPS cannot prove properties under fairness;
- `TitlesFit` and `FileNamesDistinct` themselves, which are about string lengths and concatenation. The provers do not handle those, so TLC evaluates them instead.

## Not modelled

- **The harness as a module of its own:** `run_comprehensive_suite` is straight-line code over the wrapper's calls.
  - Its orders of send, wait and stop are among those the CLIWrapper caller may choose.
  - Its restart (test 5) is safe by `StopLeavesNoChild`.
  - The session id is an opaque token passed to the process.
- **Wall-clock time:** abstracted to a count of polls. A clock step (line 97) is outside the model.
- **`process_avatar.py`:** spec §1 puts the image scripts out of scope.
  - The script is a sequential loop over pixels with no interleaving, so a model of it would only restate the threshold test.
  - Its one effect, `img.save(..., "WEBP", quality=95)`, is an opaque library call. Its result is lossy, so it is not the keyed pixels, and the write can fail after truncating the file (line 30). No property of the written file could be stated faithfully.
- **SVG markup:** DEFS, STYLE and the icon paths are left out, since no property is about them.
- **The stdout refinement as a theorem:** `StdoutFIFO` is false once decoding can fail, so it is only model-checked, as a violation.
- **Font metrics:** glyph widths are assumptions, stated in `Header.tla`.
- **The external agent:** modelled only at the protocol boundary, as the environment of `CLIWrapper`.
