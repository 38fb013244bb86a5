# Verification of GVD, the Generic Virtual Device

GVD is a test tool with a Cisco-like command line: a curses console, a line
editor with history, a parser for commands kept in a tree per mode, and a few
built-in commands. This directory holds TLA+ modules that model it, TLC
configurations that check them on small instances, and TLAPS proofs for every
value of the constants.

## 1. The system

| part | source | state | operations |
|---|---|---|---|
| line store | `gvd_line_buffer.c` | a pool of slots, a bit mask of those in use, long lines in heap blocks, the list `head .. tail`, the log file | `printv()`, `replace_last_line()`, `dump_all_lines_to_disk()`, `clear_disk_logfile()` |
| console view | `gvd_line_buffer.c` | `scr_dump_ctx`: window size and where its last row is | refresh after each print, page up, page down, resize |
| command-line editor | `gvd_main.c` | `read_ctx` (text and insertion point), `cmd_history`, the screen cursor | one handler per key |
| main loop, autotest | `gvd_main.c` | none but the editor's | start up, read a key or a line, run it, stop on `quit` |
| TTYs and their registry | `gvd_tty.c` | a list of virtual TTYs, the next id, a mutex; the mode of each TTY | create, destroy, run a command, change mode |
| modes and CLI tree | `gvd_cli_tree.c`, `gvd_cli_base.h` | the modes with their parents and trees | linking and merging at start-up |
| CLI parser | `gvd_cli_parser.c` | `cli_parser_info_t` of a TTY, the help list threaded through the tree | execute, help (`?`), completion (Tab) |
| commands | `gvd_cli_cfg_sys.c`, `gvd_cfg_sys.h`, `gvd_cli_example*` | none | log file, shell, mode changes, dummies |
| print buffer | `gvd_common.c` | a buffer that grows | `printb()`, `run_shell_cmd()` |
| curses | `gvd_cli_tty.c` | the cursor | read a key, move the cursor |
| helpers, build | `gvd_util.c`, `build.py` | none | string copies; makefile generation |

**How they interact.** The main loop reads a key and calls its handler. The
handler edits `read_ctx` and prints the command again: `re_print_cmd()` calls
`replace_last_line()`, which rewrites the last line of the line store and
refreshes the view. Enter, `?` and Tab pass the text to the parser with the main
TTY; its mode chooses the tree, a handler runs, and the output comes back as one
string for `printv()`, which cuts it into lines, takes slots, recycles old lines
into the log file when the pool is full, and refreshes the view. `logfile flush`
and `logfile clear` reach the line store from inside a handler. Virtual TTYs run
commands for other threads, under the registry's mutex; the main TTY takes no
lock.

**What is hard.** One print can recycle lines, truncate a long line, move it to
a heap block, or fail half-way when `calloc()` does. The view trusts pointers
that recycling leaves behind. The history is shifted in place and holds the
user's draft in entry 0. The cursor, the insertion point, the text and the last
line of the console are four pieces of state that must agree. The main thread
shares the line store with every virtual TTY's thread.

**What makes each part correct.**

* line store: lines are kept in order, none is lost, overwritten or cut beyond
  its capacity; slots and blocks in use are exactly those in the list; a line
  reaches the log before it leaves the scrollback; each call returns;
* console view: after a print the window shows exactly the last rows; paging
  stays inside the list and reaches both ends;
* command line: insertion point inside the text, text inside its array, what is
  shown is what is run, the history is the last commands in order and the draft
  comes back;
* TTYs: ids are unique, a TTY is not freed under a running command, one command
  at a time per TTY, modes change only as the tree says;
* tree: merging keeps every command reachable and adds none; the built-in
  commands of a mode are complete whichever allocation fails;
* parser: a command typed in full is refused only if one of its words begins another, the handler that runs is the only
  one the line can mean, completion changes no meaning, the candidate list in
  the shared nodes is sound whatever an earlier request left there, and every
  request returns.

## 2. The modules

| module | models | extends / uses |
|---|---|---|
| `LineBuffer` | the line store and the log file | `Console` by refinement |
| `Console` | what the line store promises | - |
| `ConsoleView` | the screen context on top of the line store | `LineBuffer` |
| `CommandLine` | the editor, the history, the cursor | `LineEdit` by refinement |
| `LineEdit` | what the editor promises | - |
| `CliModes` | the modes, and what commands do to the mode of a TTY | - |
| `TtyRegistry` | virtual TTYs, their threads, the mutex, the main TTY | `CliModes`; `TtyTable` by refinement |
| `TtyTable` | what the registry promises: each call takes effect at one moment on a table from ids to modes | `CliModes` |
| `PrintBuffer` | the output buffer of one request | - |
| `CliBase`, `CliNodes` | the node type and its macros; the nodes, links and spellings of the program | - |
| `CliTree` | start-up: the modes' trees are linked, merged and given built-in commands | `CliBase`, `CliModes` |
| `CliParser` | one request: execute, `?` or Tab | `CliTree` |
| `Session` | `main()`: start-up, then keys or the autotest loop, each handed to the parser | `CliParser` |
| `MCLineBuffer`, `MCConsoleView`, `MCCommandLine`, `MCTtyRegistry`, `MCCliTree`, `MCSession` | small instances for TLC | |
| `LineBufferProofs`, `ConsoleViewProofs`, `CommandLineProofs`, `TtyRegistryProofs`, `PrintBufferProofs`, `CliTreeProofs`, `SessionProofs` | theorems about the module they are named after (`SessionProofs`: about `CliParser` too) | what they name; `ConsoleViewProofs` extends `LineBufferProofs`, `SessionProofs` extends `CliTreeProofs` |
| `Iteration` | lemmas about functions that are defined step by step over the numbers | - |

### LineBuffer

`Slot` is `line_buffers`, `line_buffer_mask` the bit mask word by word, `prev`,
`next`, `len` and `flag` the fields of a `line_buffer_t` in a slot or a heap
block (`heap` is the set of blocks in use). Text is abstracted to its length;
`line[p]` is the serial number of the console line that buffer `p` holds, a
history variable, as are `disk` (serial numbers in the log file, in order) and
the like. `printv()` is not atomic in the model: `Printv` starts it and `pc`
walks through save, switch, recycle and retry, one action per loop iteration, as
`Step`; so is `dump_all_lines_to_disk()`. `calloc()` may fail whenever it is
called.

What the model makes explicit:

* `mask_line_buffer()` computes the bit as `idx & ~32`, which for slots above 31
  is not below the width of the word it shifts. The shift is undefined in C; the
  instruction the build emits takes the amount modulo the width, and so does
  `MaskBit`. With the amount taken as it is (`MaskBitUnwrapped`, a mutant)
  `HoldsLines` fails. `BitIdx` needs `LINE_BUFFER_MASK_SIZE` to be a power of
  two, which a `sizeof` times 8 is.
* `FLAG_GET(flag, BIG) == TRUE` compares 2 with 1 and is never true, so a long
  line is never refused where the code means to (`RefusesLong` is FALSE); the
  line is cut at its capacity all the same.
* Recycling leaves `prev` of the new head pointing at the old one. `Linked` says
  so: `prev` is right everywhere but at the head.

### ConsoleView

`bottom_p`, `bottom_offset`, `scr_y`, `scr_x` are `scr_dump_ctx`; `top_p` and
`top_offset` remember where the last dump began. Every loop over rows is `Walk`,
which applies `NextRow` a row at a time to the real `prev` or `next`, stale ones
included. `fault` becomes TRUE when the program would use a NULL pointer or a
freed block, and the model stops there: what follows is undefined. `due` is the
refresh that ends `printv()` and `replace_last_line()`, separate from the store
because the store is a module of its own; nothing else runs in between. Flush
and clear do not change the list, so they are left out here. Windows of one row
are left out; the model assumes two or more (`ScreenAssumption`).

What the model makes explicit:

* page down may end at the first row of the last line (gvd_line_buffer.c:327-329). The top is then
  chosen as if that line had one row, but all of it is printed (lines 191-192), so when the last line
  wraps, its rest pushes the command line off the window. `EndOnScreen` is exact: no row too many
  where the screen ends with the last line, and `Beyond` rows too many where it ends at its beginning;
* page down stops one screen before a line it cannot
  show whole and page up counts that line whole, so with a line longer than half
  a window page up may move the window down. `PageUpRises` holds where no
  line is that long (`HalfFits`).

`switch_to_new_line_buffer()` also sets `bottom_p` and `bottom_offset` (lines 508-509); the refresh
that ends every print sets them again before anything reads them, so `Store` leaves
them alone.

### CommandLine

`cmd` and `cmd_next_idx` are `read_ctx`; the history variables keep their names,
with entry 0 for the draft as in the code. `last` is the last line of the
console, `cursor` the column, `scrolled` is TRUE after page up or down until the
end is printed again. One action is one key handler, re-print and cursor move
included. What the parser answers is any value here (`CliParser` says which): Tab is
answered nothing or a line from `Fill`, Enter is told whether the command was
`quit`; the output ends in a newline. The
prompt and a command fit a row together (`SizeAssumption`): beyond that
`tty_move_cursor_pos()` would address a row the model does not have.

### TtyRegistry

`ctrls` is the list from `tty_ctrl_head` on, `tty_id` and `mode` the fields of a
`tty_ctrl_t`; `mutex` names the thread that holds `tty_ctrl_mutex`. Threads call
the three exported functions with any id at any time (`Call`); taking the mutex,
the work under it and releasing it are actions of their own, and `pc` says where
a thread is. A command goes through `exec` and perhaps `console` (`logfile
flush` prints) or `program` (`exec` in shell mode waits for a program), each a
place where other threads run. `Main` is the main thread: the same commands on
`gvd_tty`, without the mutex. In `CliModes` a command line is the word that
matters and whether `do` is before it; the tree of a mode is the set of the words it
has. `created` and `given` are history variables. A freed block is reset, which
nobody can observe because `calloc()` zeroes it before it is used again.

### PrintBuffer

`max_len`, `offset`, `free_len` are the fields of a `print_buffer_t`; `buf` is the
length of the string in it, or `NULL`. `printb()` is a loop, so it is several
actions: print, cut when the text does not fit, grow, print again. `Request`
and `Return` are the allocation and the copy at the two ends of
`cli_parser_request()`. `total` and `failed` are history variables. `text` is what
`vsnprintf()` returns. Handlers print texts of known lengths; `run_shell_cmd()` passes what
a program wrote as the format, so a conversion in it may give text of any length (`ConvertedLen`)
or fail (`FAILS`). `Length` is that result in the `uint32_t` the code keeps it in, and the sums of
`grow_print_buffer()` wrap (`Wrap`); what a request prints of text is bounded so that it takes a failure to
get there (`SizeAssumption`: under 2 GB). A conversion that reads a missing argument may also stop
the process; nothing follows, so the model leaves it out.

What the model makes explicit: the -1 of a failed conversion is 0xFFFFFFFF in `len`, no
buffer is long enough for it, `grow_len` wraps to 1023, and `printb()` grows the buffer until
`realloc()` fails and all output is lost; if it never failed, the size would wrap and the
next text be written behind the block (`fault`, where the model stops). `GrowsOnce`,
`OverrunNeeds` and `PrintbReturns` say that this needs a failing conversion, and that one growth is
enough for everything else.

### CliTree

`acc` and `alter` are `acc_p` and `alter_p` of every node, the static ones and the
copies `add_buildin_nodes()` makes of its templates; `root` is `root_node_p` of
each mode. `merge_cli_tree()` is recursive and re-links the nodes it walks over,
so each round of its loop is an action (`MergeAdds`, `MergeDescends`, `MergeReturns`)
and `stack` holds the calls under way. All lists of alternatives end in
the one node `node_dead`, as in the code. `CliNodes` lists every node the program
declares, by name. Users are meant to replace the example file: `ExampleLinks` is
a set of such files, of which `Init` takes any.

`Commands` reads a tree as the set of its commands, word by word, which is what the
properties compare: with the declarations of the chains (`MergesWhole`: no merge
adds or drops a command, or leaves one behind the end of a list), from
step to step (`KeepsCommands`), and with `CliModes`, which `TtyRegistry` takes its
modes from (`BuildinsAsPromised`).

What the model makes explicit: where one command of a mode is the beginning of another one
(`show` and `show version`, say), merging goes wrong, and the compiler does not notice. A merge
stops at an END, so one in the chain added is dropped and the short command is
lost; with the END already in the tree, words are linked behind it, where the parser
does not look, and `node_dead`, which ends every list, gets an alternative. Merging
the example file the second time may then descend from a node to
itself until the C stack is full: the model's `MaxCalls` (more calls than any command has
words) is where the process ends. `EndsApart` says that no two such commands are
declared. `MergesWhole`, `KeepsCommands`, `BuildinsAsPromised` and `StartsUp` claim something of
these trees only; `TreeConsistent` holds of all.

### CliParser

`Request` is `cli_parser_request()` up to the split of the line, then `pc` goes
through the tokens (`parse`) and, for `?` and Tab, the alternatives
(`collect`), one per action, to `done`. `cpi` holds the fields of `cli_parser_info_t` the
request needs; `help_prev` and `help_next` are the fields of the nodes, which
survive the request. A command line is a sequence of pieces: each keyword is cut
where it parts from another, so that prefixes, common prefixes and blanks are
what they are in the text, and `Rank` is the order of `strcmp()`. Lower and upper
case are the same to `strncasecmp()` and are not told apart.

What the model makes explicit:

* `split_cli()` tests the number of tokens before it increments it, so one token
  more than the array holds is stored, in the field behind it. That field,
  `token_cnt`, is written after it. A command is refused before its parser comes to
  that token; `?` and Tab look at the last token first and read a pointer that is
  none: `pc` becomes `fault`, and the model stops. `ArraysFit` states that
  this is all that happens.
* `cli_autofill_print_help()` returns without `clean_help_node_list()` when
  `make_last_fill_token()` runs out of memory (`leaked`), and with one candidate, whose
  links are NULL. Lists built later over leftover links are still right
  (`ParserConsistent`), because a node's links are written whenever it is inserted.
* `get_match_node()` compares a token over its own length only. A keyword that begins another one
  at its place matches both when it is typed in full, and is refused as ambiguous.
  `FullCommandAccepted` says that this is the only reason to refuse a command typed in full
  (`BeginsAnother`).
* `safe_clone()` takes a length of 0 for the whole string, so candidates that begin
  differently would be completed to the first. `TabKeepsCandidates` is proved with this
  function as it is: Tab is ignored on an empty last token, and any other is common to all
  candidates, so the length is never 0.
* Tab takes the first line of the answer: after an error that is the caret under the
  token, which then replaces what the user typed (`TabReplaces`).

### Session

`StartUp` runs `CliTree`, then keys (`InputProcessText`, `Ask`, Ctrl-C, Ctrl-Z) or
the characters of the standard input (`AutotestReadChar`, `AutotestRunLine`)
form `cmd`, and the last lines of the handlers take the answer (`ExecReturns`,
`QueryReturns`, `AutoFillReturns`). Text is typed at the end of the line, since
moving in it is `CommandLine`'s matter. The end of the input is an empty line
that is read again and again, as in the code.

## 3. The runs

| run | configuration | shows |
|---|---|---|
| `line_store` | 4 slots in words of 2, capacities 2 and 3, three heap blocks, prints of up to several lines, 6 lines | the safety of the line store and its refinement of `Console` |
| `wide_pool` | 8 slots in four words of 2, 9 lines, fewer texts, `WF(Step)` | the bit index wraps more than once; a quarter of the pool is two lines; every print and flush ends |
| `flush_dumps_all` | 4 slots, fewer texts | counterexample: flush, clear, flush loses lines |
| `console_view` | windows 4x1, 5x3, 4x4 over 8 slots, prompts of 1 and 3 columns, 7 lines: no recycling | the view before recycling, with a last line that wraps or does not |
| `recycled_view` | one window, 8 slots, a prompt of 3 columns, 10 lines: two lines are recycled | the end of the console is on the screen although `prev` of the head is stale: printing does not walk back that far |
| `command_line` | a character and the blank, commands of 2, rows of 4, history of 3 | the editor and its refinement of `LineEdit` |
| `cursor_at_idx` | the same, history of 2 | counterexample: the cursor is not at the insertion point |
| `tty_registry` | 2 threads and the main one, 2 blocks, 3 TTYs created, ids 2 to 4 before the wrap | one command at a time, unique ids, and the refinement of `TtyTable` |
| `id_wrap` | the same with ids 0 and 1 only, with fairness | two TTYs can have one id; the list stays sound, no command runs on a freed TTY, and the mutex is given back |
| `print_buffer` | steps of 3, texts up to 7, conversions that give 5 or 9 characters or fail, 24 characters in a request, numbers that wrap at 64 | the buffer grows enough at once for a text that is converted, and its content is returned whole; one that is not makes it grow until memory runs out |
| `cli_tree` | all nodes of the program, eight example files, two of them with a command that begins another one, the built-in commands' allocations failing | in six files no merge loses or invents a command, modes get the commands of `CliModes`, start-up ends; in all of them pointers stay sound |
| `session` | the program's trees, and those with a keyword that begins others; lines of any 3 of 6 pieces and 21 whole lines, 4 tokens, commands of 11 pieces, four scripts | matching, execution, completion, modes; both loops; every request returns |

`StoreConsistent`, `EditorConsistent`, `ViewConsistent`, `PagingMoves`,
`RegistryConsistent`, `BufferConsistent`, `TreeConsistent`, `MergesWhole`,
`BuildinsAsPromised`, `ParserConsistent`, `RunsWhatWasRead` and `ArraysFit` are
conjunctions of named parts, each with a comment of its own in its module.

**Bounds.** A pool of 4 or 8 slots instead of 1024 keeps two or four mask words and a
quarter of the pool of one or two lines; capacities 2 and 3 give lines that fit a slot,
need a block, and are cut. `MaxLine` bounds the lines printed (the serial number is the
only unbounded counter): in `line_store` it lets a pool of 4 be recycled more than once,
in `wide_pool` one of 8 once. In the view the number of window rows stays below the
lines that survive a recycling, as 768 retained lines do for any real terminal. Commands
of two characters have a beginning, a middle and an end, and a third is refused; a
history of three fills, shifts and drops its oldest. Two threads and two blocks are
enough for one thread to destroy what another uses, and for the head and another place
of the list to be removed; `MaxCreate` bounds the TTYs created, `ID_SPAN` stands for
2^32. Threads and blocks are interchangeable, so `tty_registry` uses symmetry;
`id_wrap`, which checks liveness, does not. The texts of `print_buffer` are empty, fit,
fit exactly, need one step and need more than one; `MaxTotal` bounds what a request
prints.

`cli_tree` needs no small instance: the trees are the program's. Beside its
own example file it links none, one that shares words with default
commands before and after the program's, two whose chains share a parameter in a mode
that has no tree yet, in both orders, and two with a command that begins another one:
its END is dropped in the first, and merging does not end in the second. `MaxCalls`, the calls
of `merge_cli_tree()` the C stack has room for, is one more than a
command has words, so that every merge of the other files fits. In `session` four tokens instead of 64 hold
the longest command of the trees with a prefix, and let
a line reach the array's size and exceed it by one and by two; `CMD_MAX_LEN` of
eleven pieces lets a completion and an autotest line be cut. `MaxTyped` bounds
the lines made of pieces; the whole lines reach every mode, `no`, `default` and `do`. After
one failed completion (`leaked`) only whole lines are typed; the leftover links of two candidates
then meet every later list. The built-in commands' allocations do not fail there
(`MayLack`), as `cli_tree` has that.

**Fairness.** `wide_pool` assumes `WF_vars(Step)`, the step of a call that is
under way: its thread does nothing else until the call returns. `id_wrap`
assumes weak fairness of each thread's own steps (`Inside`, `InCommand`): the
processor runs every thread. `print_buffer` assumes it of the loop of
`printb()`, which its thread runs without waiting for anything. `ProgramEnds` is
not fair, because nothing makes a program end, and neither is `Call`. `cli_tree` and `session`
assume it of start-up and of `Computes`, what the one thread of the
program does without waiting for a key: start-up, a request to its end, and reading the
standard input. No key is fair. Weak fairness does not promise that a thread gets
the mutex, as a pthread mutex is not fair; `Released` does not say so either.

**Stopping.** The view stops at `MaxLine` or at a fault, the command line, the
session and the registry when `quit` was entered, the session also at a fault or when
its start-up fails, the tree when it is built, the print buffer when it is overrun; their configurations switch the deadlock check
off for that reason.

## 4. The proofs

`LineBufferProofs` proves the safety properties of the line store and that it implements
`Console`, for every pool size, word width, capacities and set of blocks that meet
`PoolAssumption`, `TextAssumption` and `BlockAssumption`. `TypeOK` is not inductive:
that `head` is never NULL while recycling needs to know how many lines are in the list.
The inductive invariant therefore carries `HoldsLines`: the buffers in use hold the
consecutive serial numbers from `line[head]` to `line[tail]`, each once. Links then
follow from serial numbers instead of reachability, and a full mask means by the
pigeonhole principle that at least three quarters of a pool of lines remain after
recycling. The refinement maps `first`, `last`, `saved`, `sweep` and `disk` of `Console`
to those numbers, to the clean lines, to the position of the dump and to the log; each
action of `LineBuffer` is one step of it or a stutter. `StoreSound` puts together the
parts of `StoreConsistent`.

`PromiseSound` is the invariant of `Console` itself, so that the refinement says
something.

`ConsoleViewProofs` proves the properties of the view, for windows of any sizes of two
rows or more. The lemmas about `Walk` come first: a walk is a recursive function,
so its result is described by an invariant of its turns. Of the rows of the
list, those still ahead of a place are finitely many, each turn takes exactly the
next one of them away, and the walk ends when it has taken as many as it was asked for
or none is left (`WalkCounts`). A row is a line and a column; in place of its
position in the list a line has its serial number, which the invariant of
the store gives, and going forwards or backwards is one lemma with the numbers turned
round (`Falls`). The number of rows above a place then orders the places
(`PlaceOrder`), and paging is arithmetic on that number. The inductive invariant
`ViewInv` adds to the store's that, while the program waits for a key, the bottom
is a place in the list (also after recycling), that until recycling the
top is where a walk back of a window's height from the bottom comes to (`TopFollows`), and that
only a console of one line ends the screen on its first line, unless a line
is as large as the window (`BottomLater`): without this page up could walk back from the
head. After recycling the links behind the head are stale; `EndShown`
proves that a screen that ends with the console is right all the same, up to the rest of a
wrapped last line where page down stopped at its first row (`BeyondRows`). Its hypothesis
`BelowScrollback` is that a window has fewer rows than the lines recycling
leaves, 768 of 1024: a higher one would make the walk pass the head.

`Iteration` makes that possible: a function on the numbers that is defined from
its predecessor exists and has the values its definition gives, and what each
step preserves holds of all of them. It rests on `NatSetInduction`: a set with 0
and the successor of each of its numbers has all numbers, which needs no parameter that is an
operator. So the recursive functions on numbers (`Walk`, `SplitAfter`, the lists of
`ListFrom`) are within the prover's reach, and so is reading a tree, which `Commands`
does round by round: what the nodes say in words of so many symbols (`Sayings`).

`CommandLineProofs` proves the type invariant (which bounds the insertion point,
the command and every history entry), that the command shown is the one Enter runs,
and that the history has no blank entries and a draft exactly when it is needed.
`ShownIsRun` is needed for the type of `last`, and `HistoryEntries` for the
position of the browser, so the three are proved as one invariant. `EditorSound`
adds that the cursor is never before the insertion point: each handler either puts it at
the end of the command, which `RefreshNotBefore` and `RePrintNotBefore` state, or
at the insertion point (`AdjustNotBefore`); it needs the others for the length of
`last`. `Refinement` proves that `CommandLine` implements `LineEdit`, whose text is split at
the insertion point, and whose history and draft are sequences instead of an array with a
special entry: each handler is one step of it, or prints and changes nothing it has.
It needs the same invariant. The assumptions are `SizeAssumption` and `CharAssumption`.

`TtyRegistryProofs` proves the safety properties of the registry for any number of
threads, blocks and ids. The inductive invariant adds two facts. `Holds`: a thread
inside the registry holds the mutex; from it follow that commands run one at a
time and that nobody else changes the list while one runs. `Counted`: until the
counter wraps, the ids given out are exactly the numbers from the first to
the one before the counter; that makes them unique. The refinement maps the list
to a table (`TableOf`), the calls that have not taken effect to `want`, and each
action to one step of `TtyTable` or none: a command takes effect when its
handler runs, on the TTY found before (`Serves`: it still has the id that was asked for),
and is refused only when no TTY has the id. It is proved under
the assumption that no more TTYs are created than there are ids before the wrap
(`MaxCreate <= ID_SPAN - FIRST_ID`); after it the claim is false. `RegistrySound`
does not need it.

`PrintBufferProofs` proves that `offset` and `free_len` always add up, that one
growth is enough for a text that was converted (`PRINT_BUFFER_GROW_SIZE` is at least
`PRINT_BUFFER_INIT_SIZE`, both are 1024) and none for one that was not, that only failing
conversions make the size wrap, and that a request returns all its output or none. `Tracks` strengthens
them: what was printed ends at `offset`, except while a text is being printed; and `Bounded`: the
buffer is not much longer than what was printed, so sums of lengths do not wrap before a conversion fails.
`BufferSound` puts together the parts of `BufferConsistent`.

`CliTreeProofs` proves `TreeConsistent` for any nodes, links and example files that meet
`NodeAssumption`, `ListAssumption` and `WordAssumption` (TLC evaluates them for the
program's own): every pointer is a node or NULL at every step of start-up, and no list
of alternatives becomes a ring. In place of reachability each node has a number that
falls along `alter` (`Ranked`). A merge puts a node behind the first of a list that it
is not in, which takes new numbers (`InsertionRanked`); the copies of the built-in
commands are put before a list, where nothing points to them yet (`Unlinked`,
`BuildinRanked`). The other parts of the invariant `TreeInv` are that what follows the
words of a chain stays and leads to no copies (`StaticKept`), that merging sees declared
nodes alone (`MergesStatic`), and that pointers from nodes in use lead to nodes in use
(`Wired`).

The same module proves `MergesWhole`, `KeepsCommands` and `BuildinsAsPromised`, which
are about what a tree says. The inductive invariant `MergeInv` adds a shape to `TreeInv`
(`Shape`): a chain that was
linked is in the tree, each node under the one its declaration names or one with the same
words before it (`Grove`), the nodes of a list differ in their words (`Distinct`), a mode's list is led by
the first node linked to it (`Planted`), nodes are only re-linked to nodes of the same place
(`Levelled`), and each merge under way holds two lists of one place,
the chain's nodes behind the one at hand still to come (`Merging`, `Tops`, `Pending`). That the
found node `FoundNode` is the right one to descend from needs `Distinct`: no second node of
the list has those words. From the shape follows what the tree says (`GroveCommands`), by
the number of words: the commands of the chains merged so far and no others
(`TopCommands`). So no step but the end of a
merge adds one (`KeepsCommands`), and with the copies of the templates a mode
has the commands that `CliModes` gives it (`BuildinsAsPromised`). All of it is proved under
`EndsApart`: no command of a mode is declared twice or is the beginning of another one, without which
the claims are false. Four assumptions say what
the declarations are like: each node of a chain has one place,
its path of words (`ChainAssumption`), a chain belongs to one mode (`MergeAssumption`), the built-in commands are in no chain
(`BuildinAssumption`), and the words of `CliModes` are commands of the
chains (`WordsAssumption`). TLC evaluates them for the program's trees with each of the eight
example files; they are properties of macro calls which the compiler does not check.

`SessionProofs` proves `ArraysFit`, `ParserConsistent` and `TabReplaces` for any such
tree, any text over `Char` and any sizes. `SessionInv` puts `TreeInv` beside what a
request is doing: requests run on a tree that is built (`BuiltFirst`); the node at hand
is one of the tree (`RequestSound`); while candidates are collected, the list is what
was chosen among the alternatives looked at so far, in order and threaded both ways
(`Collected`, `Threaded`), and no node outside it has a link unless a completion leaked
(`OthersClear`). That the walk over the alternatives and the one over the candidates end
rests on `TreeInv` and on the list having no repetition. For the array of tokens,
`SplitSound` is the invariant of the loop of `split_cli()`. `TabSound` needs its part
`TokenEnds`, too: the token being read is what the text ends in so far, from its last
blank on. Words have no blanks (`CharAssumption`), so a last token that begins one has
none; then it ends the command itself, also when `do` was blanked out (`LastTokenEnds`),
and `autofill_cli()`, which looks for the last blank, puts the word in its place and no
other (`FilledExtends`). `TabInv` keeps that the request is about the command shown.

The same module proves what runs. `RunsWhatWasRead`: the handler that runs is that of the one command
the tokens can stand for. `ReadInv` is its invariant: the parser is
at a place of the tree which words lead to (`At`), and the commands the line can mean are
these words followed by a command that is `Readable` from there by the tokens left
(`Reads`); that the trees say what they said when the request began is
`Still`. A token that one keyword matches drops all others, and one that none
matches goes to the parameter, which stands alone at its place.
`FullCommandAccepted`: a command typed in full is split into its own
words (`FullSplits`: between two words the splitter is in a known state, `Between`), each
matches the node of its own word alone unless it begins another word of that place
(`WordsDistinct`, `FullMatch`; then the command is one of those that may be refused), what is left of the line begins at the next node (`RestBegins`), and so
the parser goes on to an END (`FullNext`). `ModeAsPromised` and `EndsByQuit`: the nodes whose handlers
change the mode or end the program are those the words say (`RunIsNamed`, `QuitInv`).

`TabKeepsCandidates` compares two texts, before and after Tab, so its proof splits both.
`Completes` says that one is the other with its last token replaced by a longer word;
`skip_first_token()` and `preprocess_cli()` keep that relation (`DoKept`,
`BareCompletes`), and two such texts are split alike up to the character where the word begins
(`SplitsAgree`), so their tokens differ in the last one only (`TabSplits`). The
invariant `TabText` adds that the last token the parser keeps is that of a line that does not end in
a blank. The list of candidates holds every word of the place that begins with that token
(`AllCollected`), and what is filled in lies between the token and each of these words
(`Completion`, `FillsCompletion`): it stands for the same alternatives as the token did
(`StandsForSame`), so the same commands can be meant (`SameCandidates`). No message of an
error goes on from a line that can be typed but itself (`LeavingsApart`), so an answer that
extends the text is a completion.

These rest on two more assumptions on the declarations. `LevelAssumption`: no command is declared twice in a mode or is the beginning of another one
there; a parameter stands alone at its place, and never first. `HandlerAssumption`: `exit`
and `end` have the handlers that leave a mode and no other command has, `exec_quit` is the handler of
`quit`, and a command that enters a mode is the one with its name. Both
hold of the declarations and macros of the program, as TLC shows. The first is false
for a file that declares, say, `show` as a command beside `show version`; a keyword that begins another
one, like `sh` beside `show`, is covered, and the run `session` has one.

The assumptions are named, in the module that declares the constants: beside those above,
`CharAssumption` of the parser (the words of the tree are text without blanks), `TokenAssumption`
(no command has as many words as there is room for tokens),
the two named `TextAssumption`, `HeapAssumption` (memory is finite),
`ScreenAssumption`, and `IdAssumption` and `ThreadAssumption` of the registry of TTYs.

**Only model-checked**: `CallReturns`, `Released`, `PrintbReturns`, `StartsUp`,
`RequestReturns` and `ScriptRuns` (liveness, which is beyond the prover).

## 5. Findings

* A flush after a clear is incomplete: clearing the file does not mark the lines
  dirty again (`flush_dumps_all`).
* After `?`, Tab or a resize inside a command the cursor is at the end of the
  command and the next character goes somewhere else (`cursor_at_idx`).

Observed while modelling, without a run that calls them wrong:

* What a shell command writes is the format of `printb()` (gvd_common.c:112), and what was typed
  is one in `autofill_cli()` (gvd_cli_parser.c:1056): a conversion in it is carried out,
  and one that fails makes `printb()` grow its buffer again and again (`GrowsOnce`).
  The answer of a request is in turn the format of `printv()` (gvd_main.c:314, 335, 368). Outside
  `PrintBuffer` the models take texts without `%`.
* `recycle_head_line()` (gvd_line_buffer.c:422) logs a line without looking at the flag
  `DIRTY`, so a line that was flushed is in the log twice.
* After lines were recycled, page up to the top of the scrollback follows the stale `prev` of the
  head and uses a NULL pointer or runs off the list (`FaultNeeds` states that it
  needs recycling or a line as large as the window).
* One token more than `CLI_TOKEN_MAX_CNT`, and one character more than `CMD_MAX_LEN` in
  autotest mode, are stored behind their arrays (`ArraysFit` says by how much and
  what follows from it).
* A command that is the beginning of another one in its mode is lost in merging or hides the
  other, and may make start-up descend until the C stack is full (gvd_cli_tree.c:203, `EndsApart`). The
  program's own files declare none.
* A keyword that begins another one at its place is refused as ambiguous though it is typed in full
  (gvd_cli_parser.c:541, `BeginsAnother`). The program's own files declare none.
* Page down may end at the first row of the last line, and prints that line whole: if it wraps, the
  window scrolls and shows other rows than were counted (`Beyond`).
* Autotest mode does not end with its input: it runs empty commands until the
  process is stopped (`EndsByQuit`).
* Tab after a command the parser refuses replaces it by the first line of the
  message, the caret (`TabReplaces`).
* A completion that runs out of memory leaves the candidates linked; harmless, as
  `ParserConsistent` shows.

## 6. Not modelled, and the plan

Every safety invariant and every action property of the runs is stated by a theorem. Left
are the liveness properties, which the prover cannot state a proof of.

Not modelled:

* node types that no tree of the program has: `IFELSE`, `HELP`, `NUMBER`, `KEYWORD_ID`,
  `WEEK_DAY`, `TIME`, with the renaming of numeric parameters;
* the text of parameters and what `preprocess_str_param()` does to it
  (gvd_cli_parser.c:314): no handler of a modelled property reads it;
* what commands print, the layout of help, and the system information;
* the main thread and a virtual TTY's thread share the console, the candidate
  list and the print path without a lock: a data race that no document denies.
  `TtyRegistry` shows that both can be in a command at once; what then happens to the lists
  is not modelled;
* a command's output that goes back into the line store through `logfile flush` while
  it is printed: `LineBuffer` has flushes between any two calls, but is not composed
  with `Session`;
* a `write()` to the log file that fails or is cut short: its result is ignored
  (gvd_line_buffer.c:92) and the line counts as logged, so `NothingLost` and the refinement of
  `Console` are about writes that succeed;
* curses and `popen()` (I/O), and `build.py`, which is not part of the program.
