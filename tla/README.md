# A TLA+ model of kindle-myts

kindle-myts is a terminal for the Kindle Keyboard.  The repository holds two
engines: **myts-ng**, a C++17 program (`main.cpp`, `app/`, `core/`, `terminal/`,
`graphics/`, `display/`, `help/`, `input/`, `config/`), and the older C program
**myts** (`myts.c`, `launchpad.c`, `terminal.c`, `screen.c`, ...), plus the shell
scripts that launch them.  This directory models the core of both.  Of myts-ng: what
happens between a byte read from the shell or a key event and what the e-ink panel
shows.  Of myts: the main loop, the launchpad that owns keypad and screen, the life of
the shells behind its terminals, the page and the buffers of a terminal, the keys, and
the configuration that the table of keys is made of.

## Inventory

| part | state it keeps | operations | what makes it correct |
|---|---|---|---|
| ANSI decoder (`terminal/ansi_parser.hpp`) | state, parameter text | `feed`, `execute_csi` | every byte is consumed in order, a sequence never leaks its state into the next |
| terminal session (`terminal/terminal_session.hpp`) | grid of cells, cursor, dirty rows, pty | handlers of the decoder, `take_dirty_rows`, `mark_all_dirty`, `render`, `spawn_pty` | the cursor stays in reach of the cells; a row that is not dirty shows its cells; text is not lost |
| e-ink policy (`graphics/eink_display.hpp`, `geometry.hpp`) | pending region, count of partial updates, policy | `mark_dirty`, `flush`, `refresh_full`, `set_refresh_config` | no marked pixel is forgotten, areas are whole bytes on the panel, ghosting is bounded |
| driver (`display/hardware_eink_driver.hpp`) | the framebuffer | `update_display_full`, `update_display_area` | each call shows what it names, or fails |
| input (`input/input_manager.hpp`, `key_catalog.hpp`) | four modifier flags | `process_event` | a key makes its bytes under the flags of the moment |
| help screen (`help/help_controller.hpp`, `help_screen.hpp`) | active, page, last key | `before_terminal_write`, `after_terminal_write` | an event acts on the help screen or on the shell, never both |
| command tracker (`help/help_command_tracker.hpp`) | up to 7 characters, two flags | `feed` | fires exactly when the line submitted is `help` |
| help renderer (`help/help_renderer.hpp`) | none | `render_full`, `render_delta` | the area returned covers what was drawn |
| application (`app/application.hpp`) | all of the above, the canvas | `run`, `feed_terminal_output`, `handle_input_event`, `render_frame` | the panel shows the canvas, the canvas shows the active screen |
| event loop (`core/event_loop.hpp`) | two arrays, counts, `running_` | `register_read`, `unregister`, `set_timer`, `cancel_timer`, `step`, `run`, `stop` | a set of descriptors and a set of timers, whatever callbacks do while the arrays are walked |
| metrics (`core/metrics.hpp`) | counters | `record_refresh`, ... | counts what happened |
| legacy main loop and launchpad (`myts.c`, `launchpad.c`) | session lists, terminals, screen capture, signals | `mainloop`, `handle_launchpad`, `process_event` | terminals and sessions refer to each other only while both live; the screen is given back |
| legacy terminal: page (`terminal.c`) | page, cursor, region, scrollback, flags of wrapping and charset | `page_append`, `do_csi`, `page_scroll` | the cursor stays where its address may be used; text, newlines and scrolling stay in the region; the scrollback is what left the page |
| legacy terminal: pty (`terminal.c`) | `keys[]`, `sbuf[]`, the descriptor | `term_keyin`, `term_keyboard`, `term_screen` | keys reach the shell in order and in the end; output is interpreted as written, wherever reads cut it |
| legacy keys (`launchpad.c`) | static modifiers, lock, keymap flag, `sb_pos` | `process_term`, `process_screen` | the modifiers believed in are those held; End does what its press said; rows drawn exist |
| legacy configuration (`config.c`, `launchpad.c`) | sections and entries, the sorted table of keys | `cfg_read`, `cfg_find_*`, `build_seq`, `setVal`, `setKey` | the value given last is found; no name is lost in sorting and sweeping |
| launchers (`tools/*.sh`) | whether the framework runs | start, exit, traps | the framework is back when the last terminal has gone |

How they interact: the event loop calls one callback at a time.  The pty's
callback reads a chunk, feeds it through decoder and session, and calls
`render_frame`, which takes the dirty rows, paints them on the canvas, copies the
canvas to the driver's memory, marks the band of rows and flushes.  An input
callback turns an event into bytes, asks the help controller for a route, and then
draws the help screen, restores the terminal, or writes the bytes to the pty.
In myts, `mainloop()` visits a list of sessions: the launchpad's handler reads keys
and the special FIFO, creates terminals and draws; a shell's handler moves bytes
between its pty and its page, and frees the session when the shell is gone.  A key
that `process_term()` does not keep for itself goes through the table that
`launchpad_init()` made of the configuration into `keys[]`; what the shell answers goes
through `sbuf[]` into the page, which `process_screen()` draws under the scrollback.  Both
keep references to the other's objects (`allterm`, `curterm`, `the_shell`), over two
lists that two files maintain.

Each engine is one thread; the hard behaviours are orders of callbacks, state that
waits (dirty rows while help is open, a pending wrap, a pending region), arrays
changed while they are walked, driver calls that fail, and counters at a limit.
The complete list, each at its line, is `hazards` in `PROJECT.json`.

## Modules

| module | models | state and actions |
|---|---|---|
| `AnsiParser` | `AnsiParser::feed` | `parser`; one action per branch of the switch. `param_buf_` is kept as the two numbers `atoi` reads out of it |
| `TerminalSession` | the session and what is painted | `term` (cells, row, col, dirty), `surface`; `Feed` one byte, `RenderFrame`, `RestoreDisplay`. Handlers are functions from a terminal to a terminal |
| `HelpCommandTracker` | the tracker | `mode`, `text`, `triggered`; one action per branch of `process_char` and `process_escape_char`. `line`, `plain`, `peak` are history: the line a shell holds |
| `Geometry`, `EinkDisplay` | rectangles, refresh policy | `disp` as a record and its operations as functions, so that callers can mark and flush in one step |
| `EinkPanel` | the policy with a driver that may fail | `owed` and `missed` are history: pixels marked and not refreshed, a failed call |
| `InputManager`, `HelpController` | keys to bytes, routing | `mods`, `help`; pure functions of the state and the event |
| `Application` | the coordinator, composing all of these | adds `phase`, `chunk`, `helpLines` (help text on the canvas), `panel` (what the e-ink shows), and the history `missed`, `wrote` |
| `LoopRegistry` | abstract: what the event loop promises | `watched`, pairs of a descriptor and its callback, `pending` timers, the places `taken`, the `caller` whose code runs and its last `call` with the answer |
| `EventLoop` | `EventLoop` with its arrays | one action per call a callback makes, one per stretch of `step` between two callbacks; `call` is history. Implements `LoopRegistry` |
| `Launchpad` | `mainloop()`, `handle_launchpad`, `handle_shell`, `term_new`, `term_kill` of myts | the lists (`sess`, `tmp`, `at`, `phase`, `ready`), what a session of a shell keeps (`shell`), the terminal list (`allterm`), `struct lp_state` in and out of terminal mode (`mode`), keypad, signals, what the panel shows; one action per way a handler's step can go, errors included |
| `LegacyTerminal` | `page_append`, `do_csi`, `page_scroll`, `page_scrolldown`, `erase` on a page | `cur` (an offset, as in the code), `scroll_top`, `scroll_bottom`, `originmode`, `wrapped`, `graphics`, `dographic`, `page`, `sb`; one action per control character and sequence. `typed` is history: the row of the last character, while nothing has moved the cursor since |
| `LegacyPty` | `term_keyin`, `term_keyboard`, `term_screen`, `utf8_to_ucs2`, what `page_append` takes of a buffer | `keys`, `sbuf`, `fd`, `kf_priv`, and the kernel's two queues; every read and write moves any number of bytes. What was typed, written and shown is history |
| `LegacyKeys` | `process_term`, `process_screen`, `curterm_end`, with what the FIFO, the timer, shells and SIGHUP do to their state | `held` beside the code's `mods`, `langlock`, `help`, `curterm`, `sb_pos`; one action per kind of key, pressed and released |
| `LegacyConfig` | `cfg_read`, `cfg_parse`, `cfg_find_section`, `cfg_find_entry`, `cfg_find_val` | `sections`, the stack `open` of files being read; one action per kind of line. `assigned` is history: what was given last |
| `LegacyKeyTable` | `launchpad_init` from the return of `cfg_read` to the fonts | `table`, `pos`, `keycode`; the devices that open decide whether it is a Kindle 3 |
| `MC...` | instances for TLC | |
| `..._proofs` | theorems | |

Abstractions.  A byte is a name; bytes the code treats alike are one.  A cell holds
the *picture* of its byte, with `NoPic` for a byte the font has no glyph for:
`draw_char` then leaves the pixels as they were.  In `Application` distances are in
lines of a glyph's height: the panel has `Height` of them, with a strip at the bottom as one
(800 = 66 * 12 + 8), and the grid any number of rows, more or fewer.  The ratio threshold is a fraction.  A timer keeps the time it
has left instead of an expiry time.  `Application` lets the command tracker answer
either way at a line end, so its properties hold whatever the tracker says.

In `Launchpad` merging, preparing and selecting are one step (nothing of the program
runs between them); a visit of the launchpad's handler is three: one key event or
none, one request or none, the timer.  A batch of key events is a run of passes of one
event.  A keymap shown is an image of its terminal.  What a modifier key says when End
is pressed, and whether a call fails (`fb_open`, `calloc`, `forkpty`, opening the
keypad), is free.  A session is an identifier, so memory freed and used again is the
same identifier; a drawing or restoring through a screen already unmapped ends the
process (`Die`).  The pages, the key queue and process ids are left out: of a shell's
output only `modified` counts.  `switched` is history: a request came while a terminal
was shown, and the picture saved for the end is then the terminal's.

In `LegacyTerminal` a character is a letter (what the graphic set replaces), a line of that
set, or a blank, which stands for all others; a row is the set of its columns that are not
blank.  Attributes are left out.  The loop that brings a cursor from under the region back
into it turns twice at most, and is written as two turns.  In `LegacyPty` a byte is one of
fourteen and an item, a character, a sequence or a byte of no character, is what the shell
means by some of them (a character of four bytes is one of three and such a byte, as the code
has it); what items do to the page is `LegacyTerminal`'s matter.  In `LegacyKeys` there is a key of every
kind the code tells apart, and the framebuffer always opens (`Launchpad` has the failures).
In `LegacyConfig` a line is a sequence of tokens (words, spaces, brackets, both quotes, comment
signs, backslashes), and what `trimws`, `index` and the scanning loops make of a line is a
function of the line.  An entry's code is a constant function of its key, as `strtol` and
the letters before it read it; `qsort` and `bsearch` say nothing of equals, so a table of
equals is sorted and searched in any way.

## Runs

| run | question | bounds |
|---|---|---|
| `TerminalSession` | any byte stream, painted at any moment | 2 by 2 grid, tab stops 2 apart, parameters up to 3, 14 bytes among them every syntax byte |
| `HelpCommandTracker` | does the tracker follow the shell's line? | command of 2, buffer of 3, lines up to 5 |
| `HelpFalseAlarm` (violated) | and when the line outgrows the buffer? | the same |
| `EinkPanel` | marks, flushes, policies, failures in every order | 4 by 2 panel, boxes out of every side, three policies |
| `Application` | shell output, keys and help interleaved, failing driver | 2 rows and a strip, one failed call between two flashes, 5 kinds of key, limit 3 |
| `EventLoop` | do the arrays implement sets? do services, timers, `stop()` arrive? | 2 descriptors for 2 places, 2 callbacks for each, 2 timers, callbacks of up to 2 calls |
| `Launchpad` | do lists, terminals, grab and screen stay consistent in every mix of keys, requests, signals, deaths, failures? | 2 terminals, 2 sessions of shells, 2 of the launchpad |
| `LaunchpadLive` | is a dead shell unlisted, is output drawn? | 1 terminal, the same sessions |
| `LegacyTerminal` | does any mix of characters and sequences keep cursor, region, flags and scrollback right? | 4 by 10, the least that `term_new` accepts; scrollback of 3; parameters 0, 3 and 12, ends of regions 1 and the last row; a letter in one row at a time |
| `LegacyPty` | do keys and output get through, however reads and writes cut them? | buffers of 6, a kernel queue of 2, 2 keys, 2 items of up to 6 bytes |
| `LegacyKeys` | do the static variables follow the keys, terminals and reloads? | 2 terminals, 2 rows, scrollback of 0 or 3, 7 keys of which 2 are held |
| `LegacyConfig` | does the last value win, and does the table keep the names? | 18 kinds of line, files of 5 in all, one include inside another |

Why the bounds are enough.  Two rows give a first and a last row, a scroll, and a
row below a pending wrap; two columns give a wrap that is pending and one that is
done.  A buffer of three and lines of five let a line outgrow the buffer, be erased
back below it and grow again.  The panel has boxes that stick out of each side and
odd columns on both edges; its policies are the default with a small limit, one that
escalates by area, and one that never escalates.  Two descriptors fill the two places, so that
a new callback for one of them is refused; two calls let a callback of one descriptor
unregister and register its own or the other one, or arm a timer and cancel another.  Two terminals with a shell each can be switched, die one under
the other and be reopened in a session used before; with one terminal the second
session is for a shell whose `forkpty` failed, or for the successor of a dying one.  Two
launchpad sessions are the first and the one SIGHUP adds.  Four rows hold a region with a
row above and one below; a scrollback of three shows two rows and so fills; the parameters
are none, one inside the page and one past both its ends.  In `Application` the grid leaves a
line of the panel unused; that a grid may be taller is in the theorems.  In `LegacyPty` one item fits
`sbuf[]` exactly and one does not, one key fits `keys[]` and two do not, and every item is
cut at every place.  In `LegacyKeys` two keys held at a time give every order of two presses
and releases.  Five lines give a section in two parts, keys in two spellings, an include
in between, and three entries of one name; among the lines are a row of symbols, a `#` in a
key, and a string with the other quote in it.  The theorems below remove the bounds for every
safety property of every run.

What they show.  One run is violated and is a finding (`PROJECT.json`):

* `HelpFalseAlarm`: a line longer than the buffer, erased back, loses its length in
  the tracker; it then fires on a line that only ends in the command.

Four more findings are comments that the code does not follow.  The models follow the code,
so the runs they belong to pass:

* `terminal.c:62` says that a character in the last column does not advance the cursor but
  sets the marker.  `terminal.c:864` advances it, to the start of the next row, and sets the
  marker too; CR, LF and NEL are written for that.  `LineEndsByText` says what both readings
  want: the line ends from the row that its last character is in.
* `launchpad.c:887` says that repeats (value 2) are ignored; `process_term()`
  (`launchpad.c:577`) takes them for presses.  So Shift with End, Shift released, End repeated
  and released ends terminal mode, and `EndKey` speaks of the last press *or repeat*.
* `config.c:31`, `config.h:34` and `keydefs.ini:15` say that a `#` in the left hand side begins
  a comment.  `trimws()` (`config.c:110`) knows it at the start of a line only: `k # x = v` is
  an entry with the key `k # x`.
* `config.c:29` says that strings in `'` and `"` are protected.  `trimws()` (`config.c:106`) ends a
  string at either of the two, whichever began it.

Other things the models show as the code has them; the properties are stated so that they
hold in spite of them, and say where:

* CR, LF, BS and TAB of myts-ng move the cursor without flagging a row, so after `a`, LF,
  `a` the old cursor is still painted in the row above.
* `was_full` in `render_frame` looks at the count of updates only; a frame that covers the
  panel is a full flash that is recorded as a partial one.
* A callback that unregisters and registers its descriptor is called again in the same
  step, after it has read its data.
* When `shell_find()` fails, `process_event()` closes the screen and leaves `lps->fb`
  pointing to it; the comment at the structure says the three fields go together.
* SIGTERM releases everything and the loop then runs on with nothing to do; SIGHUP leaves
  the old launchpad session in the list beside the new one, and both are visited in every
  pass; a request from within terminal mode saves the terminal's own picture, which is why
  `ScreenIsGivenBack` excludes it.
* `kf_wrapped` outlives the place it was set for: BS, TAB, the moves of CSI, `ESC D` and
  `ESC c` leave it set, and the next CR, LF or NEL then goes a row too high (`MovesOn` keeps the
  flag and forgets `typed`, so `LineEndsByText` says nothing of these lines).  A line of the
  graphic set does not clear it either (`terminal.c:845`), and a character under the scroll
  region is moved into it while the flag is told of the column where it was typed
  (`FlagMisses`).
* Printing in the last cell leaves the cursor behind the page, where an erasure reaches
  outside of it (`cur < PageLen` in `ErasesInPage`).
* A broken UTF-8 character is kept for the next read only from `Slack` bytes on, and near
  the start of the buffer it is replaced at once; `ESC #` at the end of a read takes the
  byte after it from an earlier one (`mangled` in `OutputAsWritten`).  The test at
  `terminal.c:685` is meant for a character cut by the end of the buffer, but a byte of no
  character anywhere in it stops `page_append()` as well, and holds what is behind it until
  the next read; so does the last byte of a character of four bytes.
* A sequence that fills `sbuf[]` ends its terminal with the shell alive (`DeadShellOnly`).
* Modifiers moved while no terminal is on the screen are not seen (`missed` in
  `FlagsAreHeld`), and a reload with another length of the scrollback leaves the terminals
  with rows that are addressed wrongly (`DrawsHeldRows`).
* In a section's name that nothing ends, `index("-_", *key)` matches the NUL at the end of
  the line, so the name runs on to the next line and the rest of the file is not read; if that
  leaves a word of the line, `trimws()` runs on from NULL, and behind the last line the name
  runs past the buffer, and either may crash (`OpenSection`, `db = "crashed"`).  A key
  without a value drops a whole file.  The volume keys alone are not enough to start, since
  `launchpad.c:402` has lost its comparison with -1.
* The list of entries is searched for what `strsep()` left of the line, which is nothing: an
  entry with an empty key (`= x`) is found by every later line of its section and takes their
  values, so the section keeps an older value in force (`Spoiled` in `LookupIsLast`, and, for
  the section of settings, in `KeysAsConfigured`, where it takes more lines than the run has:
  the proof asked for it).
* `trimws()` is called for the value again, so a value that begins with `#` is emptied, and
  `parse_name()` stops at a `=` in quotes.  With the two comments above these are the lines of
  which the program does not take what they mean; `Understood` tells them, and for them
  `LookupIsLast` has what the program takes (`GivenKey`, `GivenValue`).
* The sweep over the key table does not look again at the entry that fills a hole, so two
  names given twice may leave a duplicate, and `bsearch` may then find either.  `SweptClean`
  says where it cannot: as many names as are dropped are in order behind each name given
  twice.  The shipped `keydefs.ini` is such a file: 105 names on a Kindle 3 with 12 given
  twice and 68 behind the last of them, 89 on a DX with 2 and 72.

`StaleOnlyBelowWrap` is as strong as the code allows: `ESC [ 1 J` with a wrap pending
erases the first cell of the next row without flagging it.  The property says this
is the only cell a clean row can misrepresent.

Deadlock is not checked where the system stops (`Application` after `run()`, the
event loop after `run()` or with nothing left to do at its bounds, `Launchpad` after the
process has ended, `LegacyPty` after a shell has exited, `LegacyConfig` when the table is
made), nor in `LegacyTerminal` and `LegacyKeys`, where something can always be sent.

## Fairness

`EventLoop`, `Launchpad` and `LegacyPty` state liveness.  In `EventLoop`, `WF(LoopStep)`: callbacks return (none of this
code blocks in one, the pty write excepted) and `select` has a 50 ms timeout, so the
loop moves on.  `SF(Tick)`: the clock moves however busy the loop is, although a
tick is only enabled between two steps.  Nothing is assumed of the calls callbacks
make, of the arrival of data, or that a callback drains its descriptor.  Delays are
positive: a callback that arms a timer of delay zero in every call keeps the timer
walk going for ever (hazard at `event_loop.hpp:142`); nothing in the repository does.

In `Launchpad`, `WF(LoopStep)`: handlers do not block (descriptors are non-blocking or
ready) and `select` returns after at most 100 s.  `SF(TimerDue)`: `screen_due` is a time
that is fixed when it is armed and that later passes get beyond, though a key or a request
may always come first in a pass.  Nothing is assumed of keys, requests, signals, or of
shells, which may write or exit or do neither.

In `LegacyPty`, `WF(Keyboard)` and `WF(Screen)`: `mainloop()` visits every session that
`select` finds ready, and neither the pty's write nor its read blocks; a write may take one
byte only.  `WF(ShellReads)`: a shell that runs reads what it is sent; `KeysArrive` is about
keys that wait in `keys[]`, and one that never reads leaves them there.  Nothing is assumed
of what a shell writes, or that it stays.

## Proofs

Every invariant and every action property of a passing run is a theorem.  `tlapm` checks
eight modules: `SequenceLemmas` (facts about numbers and sequences), `ApplicationParts_proofs`
(tracker, panel, event loop), `Application_proofs` (session and application),
`Launchpad_proofs`, `LegacyTerminal_proofs`, `LegacyPty_proofs`, `LegacyKeys_proofs` and
`LegacyKeyTable_proofs` (which has `LegacyConfig` too).  Constants are arbitrary within the
assumptions named in the modules (`SessionAssumption`, `ParserAssumption`,
`TrackerAssumption`, `DisplayAssumption`, `PanelAssumption`, `ApplicationAssumption`,
`LoopAssumption`, `LaunchpadAssumption`, `TerminalAssumption`, `KeysAssumption`,
`PtyAssumption`, `ConfigAssumption`, `TableAssumption`).  Most give types
and least sizes.  Beyond that `PtyAssumption` has the shell write whole characters and
sequences, cut anywhere, or bytes of no character; `ConfigAssumption` has folding a folded word change nothing;
`TableAssumption` gives a code to every key and a rank to every name that lines have.

Recursive functions.  The induction theorems of the library take an operator as a parameter,
which none of the provers instantiates.  `SequenceLemmas` states induction about a *set* of
numbers instead (`LeastOf`, `Counting`, `Descending`), proves that a function defined from 0 to
n exists (`ForwardExists`), and does the same for flattening sequences of sequences
(`FlatAppend`, `FlatConcat`).  With these, what `trimws()`, `page_append()` and the loop of
`page_scroll()` compute is proved, for every input and not only on a small instance.

* Session (`Application_proofs`).  `SessionInv` = `SessionTypeOK` and `StaleOnlyBelowWrap`.
  Alone the second is not inductive: painting a row is only known to show every cell
  once the cursor and the cells are in range.  The argument is per handler: a
  predicate on a pair of terminals says that each cell that changed is in a row
  flagged, or is a blank in column 0; every handler satisfies it, and painting
  discharges the flags.  `PrintAlwaysKeepsText` follows from the type invariant and
  one lemma per control byte.
* Tracker (`ApplicationParts_proofs`).  `TrackerInv` = `TrackerTypeOK` and `TextIsLine`.
  While `peak <= Cap` an append never meets a full buffer, because the text is the
  line and the line is at most `peak` long.  `HelpOpensIffTyped` follows.
* Panel (`ApplicationParts_proofs`).  `PanelInv` = `PanelTypeOK`, `RegionFits`, `OwedIsPending`.
  Lemmas say that clipping, alignment and bounding box lose no pixel of the panel
  and stay on it.  `GhostingAlwaysBounded` is an action property from the same
  invariant.
* Application (`Application_proofs`), on top of the lemmas of the session.  `AppInv` = the
  types, `PanelIsCanvas`, and `ViewInv`: while help is closed the canvas has no help on it and
  owes the terminal only what is flagged (`StaleOnlyBelowWrap`, so the chunk that ends with no
  row flagged has nothing to paint), while it is open it is the page.  That is stronger than
  `RightView`, which says nothing inside a chunk.  `BandIsShown` says that marking and flushing
  a band makes the panel the canvas again if all that was drawn is in the band; it needs
  nothing collected before (`DispType`: whoever marks flushes in the same step) and a panel of
  even width.  Each drawing action is then a band.  For the key matrix of the help screen this
  needs `KeypadTop <= StatusTop`, which `ApplicationAssumption` states: `render_delta` sends
  the area from the matrix down, so a matrix that begins below the status bar would leave the
  bar unsent.  That holds on every panel higher than two glyphs and 14 pixels; the code asks
  for two glyphs only.  The grid is any: rows that the panel has no pixels for are not on the
  canvas (`OnPanel`), and a band that lies below the panel sends nothing.  `KeyActsOnce` needs that no key comes between a byte and its painting.
* Event loop (`ApplicationParts_proofs`): `LoopSpec => RegistrySpec`, the refinement. The
  abstract steps are the calls by name, with their arguments and answers, and the loop's
  own: only a step of the loop that calls nobody, `stop()`, the reading of a
  descriptor and steps of the world outside may be stutters. `LoopInv` says that no descriptor is in `watchers_` twice and no id in `timers_`:
  without it a removal would leave a copy behind, and the arrays would take more places than
  the sets have members. `RemovedAtEntries` and `RemovedAtElems` say what moving the last
  entry into the gap does to the array and to the set of its entries; one lemma per
  operation that changes an array then maps it to the registry's, every other step stutters,
  serves or returns.

* `Launchpad_proofs`.  `LaunchpadInv` = the six invariants of the run, and three facts
  without which they are not inductive: a visit under way has its session in the list
  (`VisitHasSession`), a SIGHUP that is pending finds a free session
  (`ReloadHasSession`, what `Signal` bounds), and in terminal mode what `saved` holds is
  the device's screen (`SavedIsScreen`).  Lemmas on sequences say what pushing, merging
  and removing do to the members and to the absence of duplicates; one lemma per group of
  invariants (`TypeStep`, `ListStep`, `TermStep`, `FrontStep`) goes through the actions.
  That a freed session is not referred to rests on both directions of
  `TerminalsHaveShells`: the terminal of a dying shell is found because no two terminals
  share one.  All six hold for any number of terminals and sessions.

* `LegacyTerminal_proofs`.  `Inv` = `PageTypeOK` and `FlagIsRow`: where the cursor is after a
  character, with the flag and without, which `LineEndsByText` follows from.  The work is in offsets:
  `c = (c \div Cols) * Cols + c % Cols`, products grow, the offset after a last column is a
  multiple of `Cols`.  `SettledInPage` says that the loop of moves and clamps ends above the
  region's end after two turns, because the region has two rows at least; `SettledColumn` and `SettledRow`
  say in which column and row.  `ScrollsArePages`
  says of both kinds of scrolling that they make pages and stay above the region's end.  One
  lemma per group of actions (`ControlOK`, `EscapeOK`, `CsiMoveOK`, `CsiEraseOK`,
  `EditCharsOK`, `EditLinesOK`, `ModeOK`) then gives the invariant and `BottomKept` together;
  `ErasesInPage` follows from the type invariant.  For the scrollback the type of its memory
  is inductive beside `PageTypeOK`.  Rows are counted from the newest: `PushIs` says that one
  turn of `page_scroll()` puts a row first and makes the m-th the next, whether the memory was
  full or not, `Remembers` is that after k turns the memory has the last of all rows, and
  `RemembersAll` reads this as the sequence of the property.  `PullsAllowed` gives the number
  of turns, and `PutCharSb` has the character go below every row that was moved.
* `LegacyKeys_proofs`.  `KeysInv` = `FlagsAreHeld`, the modifiers are modifiers, and
  `HelpIsNoted`: as long as the history knows the last press of End, `help` says that
  modifiers were down at it.  `EndKey` is a step from there.  `ViewInv` = `DrawsHeldRows` and
  the types of positions and terminals, with one lemma on `process_screen()`.

* `LegacyPty_proofs`.  `PtyInv` = the four invariants of the run and what they need:
  `PtyData` (types of queues and history), `Waits` (what waits in `sbuf[]` is not whole, and
  fills it only if it begins with ESC), `Escapes` (in `sbuf[]` and the wire together, every ESC
  begins a sequence that the shell wrote, whole), and `Output` (unless output was
  mangled, what was shown is the first items written, and buffer and wire are the rest).  `PageAppend` is a recursive function from the end of the buffer to its
  beginning, so it is proved by `Descending`: reading a stream of whole items up to any cut
  shows the items that end before it and keeps the rest.  `term_keyin()` is the easier half:
  `keys[]` and what the kernel holds are, joined, what was typed after what the shell has read.
* `LegacyKeyTable_proofs`, on the configuration.  `ConfigInv` says of the lists what a lookup
  returns for every place that a value was given at (`AllLooked`), that the section an open
  file is in is in the list (`Frame`), and that every entry was given (`Given`), so a place that
  is new has no older entry that would be found instead.
  `LineMeans` is what the first needs of a line: the scans of `trimws()` and `parse_name()`
  agree with the reading of the comment, for every line that is `Understood`; of the others the
  history has what the scans make of them.  Escapes and
  quotes of a line are shown to obey a recurrence (`EscapedNext`, `QuotedNext`), the part of
  a line that begins where it is plain is read as the line is (`SameReading`), `trimws()` cuts
  at the first plain comment sign and then plain spaces (`TrimIs`), and trimming twice is
  stripping once (`SameText`, `StripMore`).
* `LegacyKeyTable_proofs`, on the table.  `TableInv`: from the first sort on every name
  that was given is in the table once without a mark, with its shortest sequence, and what is
  there was given (`TableIs`); where the sweep is clean (`SweptClean`), the marked entries are
  before it and none of them is among those that it will put in (`Clear`: one marked entry, or
  `TailClear`).  Sorting puts equal
  names together, the shortest sequence first, and marking spares the first of a name.  That
  two marked entries make two duplicates is a count by a surjection from the places of the
  table, and so is that what is in order behind a name given twice is unmarked and long enough
  for the sweep; the sweep and the second sort lose nothing that is unmarked.

Only model-checked: liveness (`ReadyIsServed`, `TimerEnds`, `StopEnds`, `DeadIsUnlisted`,
`OutputIsDrawn`, `KeysArrive`), as fairness and `ENABLED` are beyond the prover; and that
`HelpFalseAlarm` is violated, which is a counterexample.

## Not modelled

Of the legacy program: attributes and colours, the drawing of the keymap, fonts and pixels,
`dynstring` (buffers that grow), `cfg_write`, which myts does not call, options and logging.
The key table is a sequence of any length: the code has 256 places for it, and the shipped
file needs 105.  A character of the shell's output that ESC or NUL interrupts is left out.
Elsewhere: opening and mapping the framebuffer, rasterising, hex fonts, the help screen's
texts and the layout of its key matrix (`render_delta` draws the rows of the delta keypad at
another offset than `render_full`, `help_renderer.hpp:51` and `:112`), configuration files of myts-ng, metrics, the debug overlay, resource handles,
`byte_buffer` (used by tests only), vendored kernel headers, demos and the deployment
script: input and output or data, without control of their own.  The launchers are shell
scripts whose behaviour is that of the device's services, of which the repository says
nothing.  Short writes to the pty of myts-ng and a write that blocks, the wall clock under
its timers, and the debug overlay's pixels are hazards without a model.

Left for later: `Application` with the tracker itself in place of the free answer and an
abstract *modal screen* that it implements; both engines' terminals under one byte stream.
