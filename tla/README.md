# boost_study: a TLA+ model of its stateful parts

The repository holds the small C++ and Python programs with which its author
studied boost, and later replaced boost by the standard library, and his editor
settings with the plugins he uses. The largest program in it is one of them,
VOoM, a two-pane outliner for Vim written in Python. This directory holds TLA+
modules that model the parts with state worth checking, TLC configurations that
model-check them on small instances, and theorems that TLAPS proves for every
value of the constants.

## 1. Inventory

### The template library, `template-noboost/`

| part | state | operations | talks to |
|---|---|---|---|
| **Timer service**, `modules/common/inc/timer_inner.h`, facade `modules/common/src/timer.cpp`, design in `include/common/timer.h` | a set of nodes ordered by id (`m_nodelist`), a list of weak references to them (`m_timerlist`), the next automatic id (`m_current`), `m_termflag`, `m_running`, a mutex, a condition variable, one thread | `timer_new`, `timer_start`, `timer_stop`, `timer_delete`, `timer_running`, constructor, destructor; the thread runs `timer_loop` | clients' threads through the mutex; clients' callbacks, which it calls with the mutex held; owners, through weak references that expire whenever the last owner pointer goes |
| **RingBuffer**, `include/common/ringbuffer.h` | per ring: slots, a read position, a count, a strategy for when it is full | `produce`, `consume`, `getFirst`/`setFirst`, `getLast`/`setLast`, `getAll`, `getStatus`, `setStrategy`, `getStrategy` | called by LogSeq |
| **LogSeq**, `modules/common/src/logseq.cpp` | the table of labels, a RingBuffer of words, masks computed from `count_bits` | `Logseq_init`, `Logseq_mark`, `Logseq_destroy`; its contents are read in a debugger | RingBuffer |
| **fs-util**, `modules/common/src/fs-util.cpp` | none | `makedirs`, `walk`, `findInPath`, `detect_coding` | the file system |
| logging, common types, test templates | none of interest | | glog or `std::cout` |

What is hard there: the interleavings of `timer_loop` with clients, owners and
the destructor; weak references dereferenced without a test; a condition
variable; times captured before callbacks and used after them; counters of
limited width; positions that go round; the order of calls that fill, empty and
overwrite a ring; what a full table of labels does.

What makes each part correct: *Timer*: a due timer is called back, none for an
owner that was released, no null dereference, no lost wakeup, the thread ends
when the service is destroyed, ids are unique and found when there are any.
*RingBuffer*: it is a bounded FIFO queue per index. *LogSeq*: every entry of the
history names a label, and the history is the end of what happened.

### VOoM, `vimsetting/bundle/VOom/`

A Body buffer holds text, a Tree buffer one line per headline of it. Commands of
the user reach the handlers of `voom.vim`, which check the selection and call
functions of `autoload/voom/voom_vim.py`, which edit both buffers and call hooks
of the markup mode.

| part | state | operations | talks to |
|---|---|---|---|
| **Outline operations**, `voom_vim.py` | per Body: its lines and, cached from the last parse, `bnodes` (the Body line of each headline) and `levels`; the lines of the Tree with their marks; the selected line, once in Python (`snLn`) and once in Vim; a change tick that tells whether the cache is stale; a style of headlines (`useHash`, `ads_levels`, ...); the clipboard register | select, new headline, copy, cut, paste, up, down, left, right, sort, update | the two buffers; the hooks of the mode, which may insert and delete Body lines while an operation runs |
| **Marks and folding**, `voom_vim.py` | marks `x`, `o`, `=` behind the level number of a headline; the `x` of a Tree line; the open and closed folds of the Tree window | mark, unmark, mark the startup node, save, restore and clean up the folding, create the Tree | Vim's folds, read and set by moving the cursor and `zo`, `zc`, `foldopen!` |
| **Search**, `voom_Grep` | counts, Body lines and nodes per pattern | one pass per AND and NOT pattern, then an intersection | Vim's `search`; the quickfix list |
| **Markup modes**, `voom_mode_*.py` (22 of them) | that of the outline they are given | parse a Body, change the level of a headline, write a new one, put right what an operation did (`hook_doBodyAfterOop`) | called by the operations |
| scripts, the log buffer, windows, options | | run a script of a node, show its output | Vim |

What is hard there: no operation parses the text again. Each patches Body,
`bnodes`, `levels` and Tree side by side with its own arithmetic, which is
different for one node, a range, the last node and the end of the buffer; hooks
insert and delete lines from the last headline to the first while the numbers of
earlier lines must stay and those of later ones move; the levels of rest depend
on the order of adornment styles found in the whole text; a cached style is
older than the text; a new headline leaves the cache stale until the Tree is
entered again; two copies of the selected line are kept by two languages; the
state of a fold inside a closed fold cannot be read without opening it; patterns
that are inherited change the results of earlier ones.

What makes each part correct: *operations*: the patched outline is the one that
a new parse gives (`voom_OopVerify` tests this at run time and is on by default),
and what moved is whole branches, no text lost and none changed hands. *Marks*:
Tree and Body agree, there is one startup node, and saved folds come back.
*Search*: the results are those that the definition of a match names.

### The other programs

| part | what it is | what is hard |
|---|---|---|
| `timer/` | the boost edition of the timer service, the older of the two | the same as above, with another renewal (a timer drifts by what a pass is late), a signed count, and a `timer_delete` that cannot be compiled |
| `syslogd/LogRelay` | receives syslog datagrams, cuts them at `\|`, inserts rows into MySQL | a failed bind, a database that goes away, datagrams in pieces of the wrong form |
| `syslogd/LogRelayConfig` | a dialog for LogRelay's settings | nothing; user interface |
| `syslogd/install` | scripts that add lines to `smb.conf` and `syslog.conf` | repeated runs, a crash between rename and write |
| `template/`, `demo-filesystem/src/argv.cpp` | a command-line and configuration-file parser on boost::program_options | which source of a value wins, what is stored back |
| `manage.py`, `template/runner.py` | copy the template, run cmake and make | nothing with state |
| `filesystem/`, `demo-filesystem/`, `demo-regex/`, `demo-xml/` | library demonstrations | nothing with state |
| `it-ebooks/` | scripts over a download list | a repeated run of `toc.py` appends again |
| `vimsetting/` but for VOoM | settings, colours, syntax files, small plugins | nothing with state |
| `rfc5424.txt`, `prgcheat/`, `Boost_thread.txt` | notes | |

The hazards this code is exposed to, each at its line and with the properties
that watch it, are listed in `PROJECT.json`.

## 2. Modules

| module | what it is |
|---|---|
| `Timer` | the timer service: its thread, its clients, the owners, the destructor |
| `MCTimer` | values of its constants for TLC |
| `TimerProofs` | theorems about `Timer` and `BoostTimer` |
| `BoostTimer` | the boost edition of the service, on the definitions of `Timer` |
| `MCBoostTimer` | values of its constants for TLC |
| `BoundedQueue` | the abstract specification of a RingBuffer: independent bounded FIFO queues |
| `RingBuffer` | the rings as the code keeps them |
| `MCRingBuffer` | values of its constants for TLC |
| `RingBufferProofs` | theorems about `RingBuffer`, the refinement of `BoundedQueue` among them |
| `LogSeq` | the execution recorder, composed with `RingBuffer` through INSTANCE |
| `LogSeqProofs` | theorems about its history |
| `Outline` | the data of a VOoM outline, its traversal and slices of sequences |
| `OutlineProofs` | theorems about branches and ancestors, and the lemmas that the other proofs about outlines use: recursion, folds and orders, and regions of an outline that change places, are cut out or are sorted |
| `LineModes` | the fifteen markup modes whose headlines are single lines |
| `Markdown` | the modes markdown and pandoc |
| `Rest`, `AsciiDoc` | the modes rest and asciidoc |
| `Modes` | the choice of the hooks by the mode of the Body |
| `OutlineSort` | the order in which sorting puts siblings, and the nodes it moves |
| `Voom` | the outline operations on Body, caches, Tree, selection and clipboard |
| `VoomProofs` | theorems about the operations in the modes without neighbour lines |
| `MCVoom` | Bodies, clipboards and edits for TLC, and a bound on the operations |
| `Forest` | the abstract specification of the operations: a forest of nodes that keep their text |
| `MCForest` | the reading of `Voom`'s Body as a forest, and the refinement |
| `ForestProofs` | the refinement of `Forest` in these modes, for Bodies of any length |
| `Marks` | the marks and the folds of an outline |
| `MCMarks` | values for TLC, and the record of what was saved |
| `MarksProofs` | theorems about `Marks` |
| `OutlineGrep` | the search |
| `MCOutlineGrep` | values for TLC |
| `OutlineGrepProofs` | theorems about the search |

The composition of the VOoM modules is a chain of EXTENDS: `Outline`,
`LineModes`, `Markdown`, `Rest` and `AsciiDoc`, `Modes`, `OutlineSort`, `Voom`.
`Marks` and `OutlineGrep` are separate components on `Outline`, since their
commands move no line.

A definition marked `mutant` in a comment is not used by the model: it is the
definition after it with a plausible bug, kept to show that the properties
notice such a bug.

### Timer

*Correspondence.* `nodelist`, `current`, `termflag`, `running` are the fields of
the same names; `parent`, `count`, `interval` and `left` are the fields of the
nodes, as functions on the ids. `m_timerlist` is represented by the one fact that
matters about it: whether some weak reference in it has expired (`dangling`).
Its order is not state, because the loop sorts it before every use; `First`
returns the elements the comparator may put first, so that ties are broken in
every way. `pc` tells where `timer_loop` is: competing for the mutex (`lock`),
in the sweep over released owners (`sweep`), in the firing loop (`fire`), in a
callback (`call`), in `wait_for` (`wait`), returned (`done`).

*Atomicity.* The mutex is held exactly while `pc` is `sweep`, `fire` or `call`.
A client operation takes it with its first statement and waits for nothing until
it returns, so it is one action that needs the mutex free; the action `Enter`
puts the client in front of it, which is where the destructor can overtake it.
Owners are released without the mutex and therefore between any two steps, also
of the sweep and of the firing loop. The destructor is three steps, as its
signal and its join are separated by everything else. `wait_for` may return
early, late by the scheduling, or without a reason (`Spurious`).

*Time.* No clock: `left[i]` is the next time of timer `i` minus the present,
`age` the present minus the `now` that the pass captured, `waitleft` what remains
of the wait. `Tick` moves them all. `MaxLate` bounds how long a pass takes and
how late a timer gets; a wait that has run out returns before time goes on,
which is the assumption that the thread is scheduled within a tick.
`m_interval` and `m_nexttime` of a halted node are never read before they are
assigned, and the model forgets them.

*Abstractions and assumptions.* Ids run from `MinId + 1` to `MaxId`, the width of
USIZE is `CountMod`, and -1 is converted to it as C++ does. The ten idle seconds
are `IdleWait` ticks. Callbacks return and do not call the API (one that does
locks the mutex twice). The constructor is one step.

### BoostTimer

`timer/include/timer.hpp` is the service from which that of template-noboost was
made. Its state and its handlers are those of `Timer`, line by line, and
`BoostTimer` extends that module and replaces only what differs: the count is a
signed `long` that `timer_start` stores as it is given and that `fire` leaves
alone below zero (`BoostStart`, `CountDown`); `renew(now)` makes a timer due an
interval after the `now` of the pass (`BoostReturn`), which is `interval - age`
from the present; there is no `timer_delete`, since its definition compares the
member function `id` with an id (line 242) and cannot be instantiated; there is
no `m_running`. Clients keep a `shared_ptr` to the service during a call, so that
the destructor runs when none is in progress.

The two renewals have opposite properties. That of template-noboost keeps to the
rate the client asked for and catches up after slow callbacks, going round
without a wait; that of boost gives up the rate and leaves no backlog (`NoBacklog`),
which `Timer` would violate. Both editions accept any interval. One of zero or
less makes the timer due again at once, so that the thread goes round without a
wait for as long as that timer is at the front; `NoBacklog` says that this is the
only reason.

### RingBuffer and BoundedQueue

Every field is a variable, with its modulo arithmetic. `reply` holds the last
operation, its index, the BOOL it returned and the value it passed back, so that
the abstract queue can judge the answers and not only the contents. Index -1,
which `getStatus` accepts, leads `produce`, `consume`, `setFirst` and `setLast` to
index their vectors with -1: `wild` records it, and as that is undefined the
model ends there. `EndsReachable` is the condition of the four operations on the
ends as the code has it (true for full rings only).

`BoundedQueue` says what callers rely on: a sequence per index, appended at one
end and taken at the other, of bounded length; what a full queue does is its
policy; and the reasons for a refusal. The refinement maps a ring to `getAll`.

### LogSeq

`Logseq_mark` looks the label up or appends it, and records its number, alone
when `count_reserve` is zero, otherwise with the count of its repetitions, which
saturates. A word is a record of two fields whose ranges are those of the bits.
`trace` is a history variable, the numbers marked since `Logseq_init`.
`Logseq_init` is a new object whether or not there was one. The widths at which
the code's own shifts are undefined are outside.

### VOoM: outline, modes and operations

*State.* The variables of `Voom` bear the names of the fields: `Body`, `bnodes`,
`levels`, `Tree` (records of the mark, the `x`, the level and the headline),
`snLn` (`VO.snLn`) and `vimSnLn` (the copy of `voom.vim`), `style` (the headline
format that a mode remembers from the last parse), `stale` (the change tick of
the Body is not the one of the last update), `clip` (the register) and `hookOK`
(no `assert` in a hook has failed). Line 1 of the Tree is the name of the buffer.
`Outline` has the traversal functions of `voom_vim.py` under their names, on
sequences that count from 1 where Python's count from 0.

*Text.* A Body line is a record `k`, `n`, `c`, `t`: its kind for the parsers, the
number of opening and of closing marker characters (or an indent, or a character
of adornment), and a number for its text. This is what the hooks tell apart. It
makes a change of level arithmetic, as it is in the code, and keeps the mistakes
the code could make: too few characters, the wrong kind of line, a line in the
wrong place. In rest all adornments have one length, and 15 of the 64 preferred
styles are there, more than any instance uses; texts that are longer than an
adornment are a kind of their own (`n = 2`). In asciidoc nodes are separated by
blank lines (`DO_BLANKS`, the default).

*Modes.* A parser (`hook_makeOutline`) gives `bnodes`, `levels` and Tree lines; the
other hooks are `..._changeLev`, `..._newHeadline` and `..._doBodyAfterOop`, functions
of a record with the fields `Body`, `bnodes`, `levels`, `ok` and `style`, which
the code passes as references and edits in place, from the last headline of a
region to the first. `Modes` dispatches as `voom_Init` does. `markdown` and
`pandoc` share their hooks, as the files do.

*Operations.* Each handler of `voom.vim` with the function of `voom_vim.py` it calls
is one action; its arithmetic of lines is kept, the hook runs where the code
calls it, and `Done` is the common end: the mark, both copies of the selected
line, the style. The guards are those of the handlers: the Tree must not be
stale, node 1 cannot be moved, siblings restrict a move to the left unless
`AAMLEFT` (`g:voom_always_allow_move_left`). What depends on closed folds is
either an input (`folded`) or the set of lines that may be visible above a line
(`LineAbove`), which are the ends of the branches that folds can hide.
`voom_OopInsert` writes Body and Tree only and leaves the outline stale; the
next entry into the Tree (`TreeSelect`, `BodySelect`, `UpdateTree`) parses. A
selection in a stale Tree selects twice, once in the update and once with the
old line, as the script does. `EditBody` is any edit of a line of the Body.
Sorting (`OutlineSort`) rewrites the Body group after group with the deepest
first, while `levels` and `bnodes` stay as they were, and is followed by a parse.

*Preconditions.* Some texts are known not to survive (`voom.txt`, known problems),
and the initial Bodies leave them out by name: `Closed` (a code block or fence is
closed in the same Body, so that no headline disappears when it is moved behind
the opening line), `Plain` (a Markdown title is not itself an underline or a `#`
headline), `Regular` (in rest no level is skipped: `voom.txt:2229`). These are
about the start only; the model does not keep them up.

`MCVoom` makes every Body of up to three lines over an alphabet per mode (four in
the default mode; up to three blocks in rest and asciidoc, where a headline has
two or three lines) an initial state, with every clipboard and every format that
an earlier operation may have left in `style`, and takes one operation.

### Forest and MCForest

`Verified` says that the four structures agree, which an operation that loses a
branch may well do. `Forest` says what the user is promised: the Body is a
sequence of nodes with levels and lines of their own, and an operation moves,
raises, reorders, copies, removes or adds whole branches. `MCForest` reads a Body
as such a sequence (`NodesOf`) with the parsers, blank lines left out since the
modes that add them may, and checks that each operation is one of those steps.
`Placed` is the part about levels: a branch is attached where its level fits and
adopts none of the nodes behind it. `adopt` is the option `AAMLEFT`; `last` the
last level of dokuwiki and inverseAtx; `relative` says that rest levels count
from the first headline of the text they are in, also in the clipboard.

### Marks and MCMarks

The marks of a headline are what follows its level number, a sequence of
characters (`tails`), which the commands edit with the regular expression
`marker_re` and `lstrip` as the code does (`Rest`, `Lstrip`). Tails are in the
order in which the commands write them (`MarksInOrder`; `xx=` is not). Folds are
Vim's and external: `foldclosed`, `zo`, `zc` and `:foldopen!` are defined from
what Vim documents, on the set of closed folds, each of which is open or closed
by itself also while another hides it. `TreeFoldexpr` gives each node with
children one fold if no level is skipped, which is the precondition here.
`foldingGet` opens each closed fold to see those in it and closes all again;
`foldingCreate` does the reverse. `TreeCreate` is the whole of `voom#TreeCreate`: the
folds come from the `o` marks, and then `TreeZV` opens those that hide the selected
line, so that starting Voom with the startup node in a closed branch does not give
just the folds that were saved. `MCMarks` adds a record of what was saved, so that
restoring and starting again can be compared with it.

### OutlineGrep

One action per pattern, with its matches and whether it is inherited (`*`) as
input; Vim's `search` is external. `counts`, `blnums` and `inh_only` are the
dictionaries of the code, updated match by match. Python's dictionaries of nodes
are sets where only the keys matter. An AND pattern with no match ends the
search, so there is no such action.

## 3. Runs

Runs that pass:

| run | instance | shows |
|---|---|---|
| `timer_safety` | one owner besides the shared one, one client, one user id, two automatic ids, counts 1 and -1 of two bits' range, passes of up to two ticks with intervals of one | types; `SafeDeref`; `CalledOwnerWasAlive`; `NoLostWakeup`; `NoDueTimerSkipped` |
| `timer_live` | two automatic ids, the shortest times, fairness | `DueTimerFires`, `ReleasedTimersGo`, `DestroyTerminates` |
| `boost_timer` | two automatic ids, counts 2 and -1, intervals of zero and one, callbacks that outlast two periods, fairness | types, with counts on their way to zero or below it for ever (`BoostTypeOK`); `NoLostWakeup`; `NoBacklog`; `KeepsFiring` |
| `ring_fifo` | two rings of two slots, two values, indices from -1 to one too many | types; `EndsAgree`; the refinement `RefinesQueue` |
| `logseq` | words of four bits, a count of two bits or none, four labels of which three find a place, a history of three, seven marks per recording | types; `EntriesHaveLabels`; `HistoryTellsTrace` |
| `outline_verify` | twenty markup modes, every small Body and clipboard, one operation, selection or edit, moves to the left always allowed | one mark and one selected line (`VoomTypeOK`); the patched outline is the parsed one (`Verified`); the assertions in the hooks hold (`HooksAssert`) |
| `outline_forest` | the same Bodies in seventeen modes, moves to the left as the default allows them | operations move whole branches and no line changes its node (`RefinesForest`); an inserted headline is what the next parse finds (`InsertedIsParsed`) |
| `marks` | outlines of three or four nodes, every combination of five tails and of closed folds, one command | `MarksTypeOK`, with the `x` of Tree and Body together; one startup node (`OneStartupNode`); saving changes no fold (`SaveKeepsFolds`), the `o` marks tell what was saved (`MarksTellSaved`), restoring gives it back, and so does starting again but for the folds that hide the selected node (`SavedFoldsReturn`) |
| `outline_grep` | three outlines, one with a skipped level and two with text above the first headline, up to three AND patterns and a NOT pattern, eight sets of matches | the results are those of the definition (`ResultsMatch`), with the right sign (`SignsRight`) and, without inheritance, the right count and line (`CountsWithoutStar`) |

*Why the bounds are enough.* Timers interact in pairs (one hides the other in the
order, one's callback delays the other, one's id blocks the other's), so two
automatic ids show what more would; a user id of its own shows the third case of
the allocation. One client is enough because client calls exclude each other; the
order in which several of them get the mutex is that of one client's calls, and
what matters is whether one is waiting when the destructor runs. A count range
of three values has zero, one and "several". Intervals are one in `timer_safety`
and `timer_live`: in `Timer` a timer with an interval of zero is due for ever from
the same moment, and `MaxLate` would stop the time; in `BoostTimer` it starts anew
in every pass, and `boost_timer` has both kinds side by side. Two slots let a ring be empty,
partly filled and full and go round; two rings show that they are independent. A
history of three slots and seven marks lets the ring fill, go round, and a count
run out.

In the VOoM runs the initial states are all small Bodies rather than one, and
`MaxSteps` is one: an operation depends on the past through the Body and its
cached outline, which `Verified` says is that of a parse, and through the style
and the clipboard, which the initial states vary. What an operation leads to is
such a Body again, only longer. Three lines hold a region, a node before and one
behind it, with text above, in and below them; the fourth in the default mode
adds the pairs of nested branches. The bounds of `Bounded` (16 lines of Body, 12
of clipboard, level 9) are above what one operation reaches from there. In
`outline_forest` the modes `fmr1`, `fmr2` and `thevimoutliner` are left out, as
their definitions are those of `fmr` and `vimoutliner`, and sorting in pandoc,
rest and asciidoc (see below).

*Fairness.* `timer_loop` steps and time passes (weak fairness): the thread is
scheduled and callbacks return. A thread that waits for the mutex gets it
eventually although others may take it in between (strong fairness of each
client's call and of the destructor's signal): an operating system mutex that
starves no one. `Join` returns when the thread has ended. Nobody has to call the
API, release an owner, or destroy the service, and the condition variable need
not wake without a reason. In `BoostTimer` the passing of time is strongly fair: a
timer with an interval of zero keeps the thread from waiting, and in each such
pass there is a moment, a wait that is over, at which `Tick` is disabled; real time
passes all the same, and with weak fairness the thread could make infinitely many
passes in no time. VOoM, the rings and the recorder act only when they
are called, and no property of theirs needs fairness.

Runs whose property the code violates (each states what a comment or a document
of the repository says; the details are under `findings` in `PROJECT.json`):

| run | what is promised | what happens |
|---|---|---|
| `timer_allocation` | "No empty id available" | once all automatic ids were in use, `m_current` stays on a used one and the allocation fails although other ids have become free |
| `timer_destroy_race` | releasing the service ends its thread (`timer.h:23`) | a `timer_start` that was waiting for the mutex clears the flag |
| `outline_counts` | the number of matches of all AND patterns, the line of the first (`voom.txt:1552`, `1555`) | a node that matches a pattern and then inherits another one has its count set to 0 and its line to the headline |

`timer_live` checks `DestroyTerminates` with `Quiesced`, the assumption that no
call is in progress at the destruction; `timer_destroy_race` drops it.

Deadlock is checked except in `ring_fifo`, where undefined behaviour after index
-1 ends the model, and in the VOoM runs, where the bound on the steps or the last
pattern of a search ends it.

### Other differences between the code and what is said of it

The models contain these behaviours; they are noted here and have no run.

- An owner released after the sweep is still called back in the same pass, while
  releasing it is said to stop its timers (`timer.h:26`). `CalledOwnerWasAlive` is
  the promise that holds.
- A count of -1, which means no limit (`timer.h:45`), is stored in an unsigned
  field and counts down, which ends after 2^64 - 1 calls on a 64-bit system.
- `getFirst` and `getLast` of a ring fail when it is partly filled, not only when
  it is empty, and `getStatus` accepts index -1. In consequence `Logseq_mark` counts
  no repetitions (`logseq.h:18`) before the history is full.
- In both timers the wait is reckoned from the `now` captured before the
  callbacks, so that it ends late by the time they took. Nothing documented
  promises otherwise; `NoLostWakeup` states the wait with that delay (`age`).
- `:VoomFoldingRestore` on a range that ends inside a branch opens the folds nested
  in that branch beyond the range as well, as `:foldopen!` does (`voom.txt:1865`
  speaks of the individual nodes in the range). `SavedFoldsReturn` is about the range.
- Sorting calls no hook. In pandoc, rest and asciidoc, where a headline needs a
  blank line above it, a headline that comes to stand below text is no longer one:
  pandoc's `# A`, `# B`, `text` sorted the other way round has one node. `voom.txt:2222`
  and `4498` say so of rest; the comment of `voom_vim.py:1731`, that sorting a group
  changes no outline data of other nodes, holds only while this does not happen.

## 4. Theorems

### TimerProofs

For every set of owners, clients, intervals (of any sign) and counts and every range
of ids, from the assumptions named in `Timer`:

- `TypeCorrect`: `TypeOK`, which says among other things that `m_current` never
  leaves the automatic ids. It is inductive by itself; the one step of interest is
  the allocation, which rests on a lemma about `Advance`.
- `DerefIsSafe`, `NoWakeupIsLost`, `CalledOwnersWereAlive`: the safety invariants of
  `timer_safety`.
- `DueTimersAreFired`: the action property.

None of the safety invariants is inductive alone. `IInv` adds what they need:
that the loop visits only nodes of the list (`TodoListed`), that timers outside
the list are halted (`HaltedOutside`), and that every node behind the sweep has an
owner that was alive when the pass began (`SweptAreOwned`). The proof has one step
for every action; the theorems then follow from `IInv` by name.

The induction is done for `CoreNext`, in which `timer_start` stores any integer and
the renewal any time: neither matters to `IInv`. `Timer` and `BoostTimer` both
implement it (`NextIsCore`, `BoostIsCore`), so that one induction serves both. That
the counts of `Timer` stay within their width is a second invariant (`CountsOK`).

For the boost edition:

- `BoostNoWakeupIsLost` and `BoostDerefIsSafe` follow from `IInv`.
- `BoostHasNoBacklog`: `NoBacklog`, for every set of intervals, zero and negative ones
  included, and every length of a callback. It needs one more invariant: the timers
  the firing loop has gone past are due after its `now` or have an interval that is
  not positive (`Cleared`), which is where the renewal from `now` enters.
- `BoostTypeCorrect`: `BoostTypeOK`. Its invariant is `CountsTold`: a count that is
  negative is -1 and stays so, since it is stored once and not counted down.

### LogSeqProofs

For every set of labels, size of the history, `count_bits`, number of marks and
width of a word from 2 bits on (`NumbersAssumption`; narrower words have no place
for a number and a count):

- `EveryEntryHasLabel`: `EntriesHaveLabels`. The invariant says that the numbers in
  all slots of the ring, used or not, are those of labels or the 0 they begin
  with, that no label is there twice, and that a history with entries has labels;
  a label that finds no place is recorded under no number.
- `HistoryIsEndOfTrace`: `HistoryTellsTrace`. The property says that there is a way
  to cut the end of the marks into stretches, one for each entry, each of one label
  and as long as its count shows (a count at its maximum, or one that was begun
  anew, stands for any number). The invariant `CutInv` adds to the one above that
  the ring fits its fields (`RingFits`) and names the cut (`TraceIsCut`); a mark
  either appends a stretch of one, makes the last one longer, or lets the oldest
  one go.
- `TypeCorrect`: `TypeOK`. Numbers of labels and counts fit into their bits, for
  all widths. The provers know nothing of powers, so that `2^n` is bounded by
  counting the subsets of an interval (`FS_SUBSET`).

### RingBufferProofs

For every number and length of rings, every default, strategy and set of indices:

- `RingTypeCorrect`: `TypeOK`, inductive.
- `RingIsQueue`: `Spec => RefinesQueue`. Each operation is a lemma that maps its step
  to a step of the queue or to a stutter. They rest on lemmas about the modulo:
  the slots of a ring that holds at most its length are different, so that storing
  in one changes one element of `getAll`.
- `EndsAgreeWithAll`: `EndsAgree`.

### OutlineProofs

For every sequence of levels, regular or not:

- `BranchesHoldDescendants`: the lines that `nodeSubnodes` counts under a node are
  those that have it among their `nodeAncestors`. Two loops of the code, one down
  and one up, agree.
- `AncestorsFollowParents`: `nodeAncestors` is what following `nodeParent` gives.

The module also holds what later proofs cite: that a function defined by
recursion on a number exists (`RecursionIs`), and with it that `FoldLeft` and
`FlattenSeq` go through a sequence step by step (`FoldSteps`, `FlattenIs`); that
`Ascending` lists a set in order and is unique; that numbering a finite set by an
order is a bijection (`OrderIs`); and that a sequence whose parts are put in
another order is as long (`PartsPermuted`). The induction theorems of the library
take an operator as a parameter and cannot be used; an induction is written as
the least counterexample of a named set.

Its second half is about the lists of an outline in `OneLineModes` (see below): what
becomes of caches and lines when regions change places (`SwappedIsRearranged`) or
are cut out (`TrimmedIsRearranged`), and what a sort does. `getSiblingsGroups` gives
groups of siblings of one level side by side, none of which lies in a branch that
a later group moves (`GroupsAreSiblings`), and `voom_OopSort` puts branches in
another order such that every headline keeps its lines and its parent
(`SortedReorders`).

### VoomProofs

For every Body, clipboard, set of lines an edit may put in, and any number of
operations, sorts, selections and edits, in the modes whose headlines are single
lines that need no neighbours (`OneLineModes`): the default one, `fmr`, `fmr1`, `fmr2`,
`wiki`, `vimwiki`, `org`, `cwiki`, `html` and `hashes`. The assumption `LinesAreTyped`, that Bodies,
clipboards and edits consist of lines, is one that the values of `MCVoom` satisfy.

- `OneLineVerified`: `Verified`. Whenever the outline is not stale, the cached
  `bnodes`, `levels` and the Tree are what a parse of the Body gives.
- `OneLineTypeOK`: `VoomTypeOK`.
- `OneLineInserted`: `InsertedIsParsed`, as long as the Body is changed by the program
  only.
- `OperationsTell`: up, down, left, right, cut and copy keep an outline right that
  is so, from any such outline.

`Verified` is about all of the Body, so it is not inductive in a form one could
work with. The proofs use what it means line by line, `Tells`: line 1 of the Tree
is rooted (`IsRooted`), `bnodes` increases, a Body line is a headline if and only if
`bnodes` has it, with the level that `levels` tells, and the Tree has its text
(`Told`, `Shown`, `IsMarked`). The inductive invariant `OutlineInv` says that all
variables are typed (`IsTyped`) and that an outline that is not stale `Tells`. Two
facts join both forms: a parse tells (`ParseTells`), and there is one outline that
tells a given Body (`TellsIsUnique`), since two increasing sequences with the same
elements are equal.

A new headline is written to Tree and Body while the caches stay behind. Without
edits by hand the Tree still tells the Body then, with some `bnodes` and `levels`
that nobody has computed yet (`TreeTells`): those of a paste of the two new lines,
so that `PastedIsTold` covers it.

Each operation is then shown to keep `Tells`. A move cuts Body and Tree into three
or four slices and puts them together in another order (`IsRearranged`), while a
line goes with its headline and the difference of their numbers is the same in
a whole slice. A paste inserts a text that is an outline of its own (`CanPaste`)
and is done in three parts. Sorting permutes regions of the Body: the groups of
siblings are sorted one after the other, so that the proof is an induction over
the groups, for each of which the permutation is the bijection that `OrderIs`
gives.

### ForestProofs

In the same modes and from the same assumption, on `VoomProofs`:

- `OneLineRefinesForest`: `RefinesForest`. `Voom` implements `Forest` in these modes:
  with and without `AAMLEFT`, operations, pastes, insertions and sorts are steps of
  a forest whose nodes keep their text and whose branches stay whole.

The refinement maps the Body and the clipboard to what their parses tell
(`ParsedForest`, `ForestIsParsed`), which is inductive as it stands, since a parse
depends on nothing else. That a step is one of `Forest` needs more than `Tells`: the
lines between the headlines. The proof goes from lines to nodes (the last part of
`VoomProofs`) to the forest.

1. Lines: the caches tell where nodes begin and end, and each operation moves the
   lines of a node together (`BlockMoves`, `SwapKeepsNodes`, `TrimKeepsNodes`,
   `PastedNodesAre`), so that the nodes after it are those before it in another
   order and with other levels (`AreRenumbered`, `RenumberedNodes`), and the text above
   the first headline stays (`TopIn`).
2. Nodes: the region is a branch or a row of them (`RegionBranches`), and what is
   left when it is taken out, with the region put back somewhere else at another
   level, is the new outline (`AreMoved`).
3. Forest: the level that the operation chooses fits where the region is put
   (`UpLevelFits`, `DownLevelFits`), with the levels around it, so that no node behind
   it becomes its child (`MoveAttaches`). This is the only place that needs an
   outline that is regular there (`RestIsRegular`); in others `Forest` lets more
   happen.

Sorting is different: the operation knows no nodes, only ranges of lines, and
works through the groups with the caches from before the first of them. A permutation of the
lines is a reordering (`IsReordering`) if lines without a headline follow the line
before them and every headline keeps its level and its parent. To sort branches
side by side is one (`ShuffleReorders`), one after the other is one
(`ReorderingsCompose`), and the groups still to be sorted keep their places
(`SibsStay`): none of their headlines moves before its turn, since groups come
with the deepest first. A reordering of lines is one of nodes, under the same
parents (`ReorderedNodes`).

### OutlineGrepProofs

For every outline, every number of patterns and whatever they match:

- `SearchFindsMatches`: `ResultsMatch`. The code computes inheritance downwards, by
  the ranges of branches, the definition upwards, by ancestors;
  `BranchesHoldDescendants` joins them. The invariant `GrepInv` says of each
  pattern's set that it is the set of nodes that show the pattern (`SetsOK`).
- `SignsTellInheritance`: `SignsRight`, from the part of `GrepInv` that says what
  `inh_only` collects (`InhOnlyOK`).
- `CountsAreRight`: `CountsWithoutStar`. The dictionaries are folded over the matches
  of a pattern; the invariant `CountsOK` says of each node that its count is the
  number of its matches and its line the least of them (`CountedAt`), which each
  match of the fold keeps up.

### MarksProofs

For every outline and all headlines with marks in order, after any number of
commands:

- `MarksTyped`: `MarksTypeOK`, and `XsStayTogether`: `XsAgree`, the part of it that the
  edits of the text can break.
- `StartupNodeIsUnique`: `OneStartupNode`.
- `SavedFoldsAreTold`: `MarksTellSaved`. The `o` marks tell the folds that were closed
  when each node was last saved, whatever the other commands did since.
- `SavingKeepsFolds`: `SaveKeepsFolds`.
- `SavedFoldsAreRestored`: `SavedFoldsReturn`. Restoring a range gives the folds saved
  there, and starting again those of the whole outline but the ones above the
  selected node that hide it.

The invariant `MarksInv` adds that the marks stay in order: without it, removing
an `=` could bring an `x` to the front that the Tree does not show. `FoldsInv` adds
that only existing folds are closed, `MCInv` what the marks tell. Looking into
folds and closing them again are folds of `look` and `zc` over lists of lines. At
each line, no closed fold from above can hide it, because the range begins at a
visible line and those in it have been opened (`LookTells`); going back from the
last one, none that is closed already covers the next, because covering needs a
lower line (`CloseTells`). Both hold for any levels; that Vim makes the folds so is
where regular outlines are needed.

### What is only model-checked

Liveness (`DueTimerFires`, `ReleasedTimersGo`, `DestroyTerminates`, `KeepsFiring`), which
rests on fairness and is beyond the prover, and the findings.

In VOoM: the modes in which a headline has neighbours, or takes a hook to move
(markdown, pandoc, rest, asciidoc, thevimoutliner, vimoutliner, viki, txt2tags,
dokuwiki, inverseAtx, taskpaper): `VoomTypeOK` and `Verified` hold there only from
Bodies that are `Closed` and `Plain`, which operations need not preserve, so that
no induction over steps starts. `HooksAssert` is about the hooks of just these
modes: in `OneLineModes` no hook asserts anything, so that a theorem would say
nothing. `InsertedIsParsed` and `RefinesForest` in the other modes are checked on
the small Bodies.

`SelectSeq` and the operators `:>` and `@@` have no definition the provers can use;
the properties and the model avoid them where something is proved.

## 5. What is left

1. The construction of the Timer, whose thread starts at line 135 before the
   mutex, the condition variable, the flags and the lists it uses are constructed
   (they are declared after `m_thread`, line 121), and callbacks that call the API (a second
   lock of the same mutex).
2. An abstract timer service that both editions implement up to the findings.
3. Outlines with skipped levels in `Marks`, where Vim's folds depend on the order in
   which levels were skipped.
4. The preconditions `Closed` and `Plain` as an invariant with the operations that
   break them excluded, so that longer sequences of operations can be checked.
5. `LogRelay`: datagrams, a database that goes away and comes back, `addRecord`;
   `Installer`: `syslog.py` with crashes between its file operations; `Argv`: which
   source of a value wins.
6. `Tells` for the modes with neighbour lines, from which `RefinesForest` would follow
   there as well: it needs what the hooks put between nodes as part of the lines
   of a node.

## 6. Not modelled

- VOoM's modes `latex` and `python`: latex gives levels by which kinds of sections
  a document has, python tokenizes a program. Both parse a language, and the
  documentation does not promise that their outlines survive every operation.
- VOoM's scripts of nodes, log buffers, window commands, help and options: they run
  other programs or display something. `voom_OopVerify`, which parses again after an
  operation: its comparison is `Verified`; that its parse also renews the format a
  mode remembers (`style`) is left out, as with `g:voom_verify_oop` off. Undo is Vim's; to VOoM it is an edit of
  the Body.
- `LogRelay`, the installer, `Argv` and fs-util: sequential code from one library to
  another, or file operations run once by hand. What is hard about them is listed
  among the hazards.
- `getStrategy` of the ring, which changes nothing. The data race on `m_running`,
  read without the mutex by `timer_running`: the model shows the values that the
  field takes.
- Logging, test scaffolding, the settings dialog, build scripts, demonstrations
  and editor settings have no behaviour that more than one path through the code
  can reach; `PROJECT.json` lists them with the reason.
