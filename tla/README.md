# A TLA+ model of falastin-os

falastin-os is a 32-bit operating system in C for one user, without processes:
one main program polls the devices, runs commands and draws windows, and three
interrupt handlers (timer, keyboard, mouse) run in between. What can go wrong is
therefore of five kinds: an interrupt between two statements of the main
program; a device that answers late, or works on a buffer the driver is using; a
power failure or a failed transfer between two sectors of a save; a copy (a list,
a handle, an index, a table row) that is stale when it is used; and long
sequences of harmless commands that run into the limit of a static array. The
modules here model the parts in which these meet, TLC checks them on small
instances, and TLAPS proves the invariants that do not depend on the instance.

Paths are relative to `src/`. `PROJECT.json` maps every definition to the lines
it stands for, and lists the components, the hazards (with the properties that
cover them), the findings and the theorems.

## The system and its modules

| Part | Source | Module |
| --- | --- | --- |
| file system in RAM and on disk | `diskfs.c`, `fs.c` | `DiskFs` |
| disk driver | `ata.c` | `Ata`, implementing `SectorDisk` |
| heap | `malloc.c` | `Heap`, implementing `Allocator` |
| keyboard driver | `keyboard.c` | `Keyboard` |
| interrupts, mouse, timer, start-up | `interrupts.c`, `pic.c`, `irq.asm`, `mouse.c`, `timer.c`, `kernel.c` | `Interrupts` |
| windows, launcher, terminal windows | `brickwm.c`, `progman.c`, `term.c` | `Desktop` |
| text of the terminal, command line | `term_io.c`, `term.c` | `TermIo` |
| text editor | `editor.c` | `Editor` |
| file manager | `fileman.c` | `FileMan`, composed with `DiskFs` |
| network commands and tables | `net.c`, `dns_simple.c`, `lwip_port.c` | `Net` |
| whose answer a lookup takes | `dns_simple.c` | `Dns` |
| network card driver | `rtl8139.c` | `Rtl8139` |
| timers of lwIP | `lwip-2.1.3/src/core/timeouts.c`, `memp.c`, `lwip_port.c` | `LwipTimeouts` |
| snake | `snake.c`, `gamemode.c` | `Snake` |
| Doom | `doom_wrapper.c` | `Doom`; with the keyboard, `DoomConsole` |
| commands | `commands.c` | in the module of the part a command acts on |

The modules that begin with `MC` give the constants their values. `MCDevices`,
`MCPrograms` and `MCNetwork` put several parts into one run: the variable
`running` names one part at the start, only that part takes steps, and the
others stay in one of their initial states. The parts share no variables as they
are modelled, so nothing is lost by this; real compositions are `FileMan`
(with `DiskFs`) and `DoomConsole` (with `Keyboard`).

**DiskFs.** `files`, `current_dir` are the statics of `diskfs.c`; `disk` is the
medium as diskfs_load would read it. A command is one action up to the call of
`diskfs_save`; the save is one action per group of sectors that the properties
can tell apart (`SaveStep`, with the layout explained at the top of the module),
so that a power failure (`Restart`), a refused write (`SaveError`) or a write the
drive loses (`LostWrite`) can fall between any two of them. Names are sequences
of characters copied into an array by `CopyName` the way `diskfs_create` copies
them, with what an earlier name left behind. `BootLoaded`, `BootUnformatted` and
`BootReadError` are the three ways through `diskfs_init`. `lastSaved`,
`tornFormat`, `everSaved`, `stray`, `last` are history variables.

**Heap, Allocator.** `heap` is the linked list, as a function from the offset of a
header to its size and its free flag. Sizes are counted modulo `WORD`, so that
rounding up and the product in `calloc` wrap as in C. `Allocator` is what callers
rely on: a set of disjoint regions, each at least as large as its request.

**Keyboard.** The wire carries scan codes, with the prefix 0xE0 as a code of its
own. `irq1_c` is one action (interrupts are off inside it); `keyboard_getchar`
is two, since its two statements can be interrupted. `got` and `decoded` number
the characters returned and decoded.

**Interrupts.** The two 8259 controllers as `pic_remap` leaves them (request,
service and mask bits, priorities), the 8042 with its one output buffer that the
keyboard and the mouse share, the handlers with their ends of interrupt, the
polling in `mouse_init` while everything is masked, the packet decoder of
`irq12_c`, and `timer_sleep` with its look at `ticks` apart from its `hlt`.

**Desktop.** A round of `brickwm_run` is a mouse half (`PollMouse`) and a keyboard
half (`PollKey`); the mouse interrupt may change the button before each. A click
hits any window in use, its close button, title bar or inside. The `gui` command
starts the loop inside itself, which `depth` counts.

**Editor.** Loading takes one byte per step, saving one row per step, and every
editing key is one action on `lines`, the cursor and the view.

**FileMan.** Extends `DiskFs` with the list, the selection and the prompt of
`fileman.c`. A key that calls the file system is followed by the save and by the
refresh, and a rename is three calls (`EnterRename`, `RenameWrite`, `Finish`). A
terminal changes the same table between two keys.

**Net.** The card is a bounded queue to which frames are added at any time; the
main program takes them out while `ping`, `dns_resolve_simple` or `lwip_poll` is
where `pc` says. `net_handle_packet` has no caller in this build and is an
action all the same. Frames record the byte order of their ethertype, since
`net.c` compares it in host order.

**Snake.** The snake as a sequence of cells, one action per round of the loop.

**Ata, SectorDisk.** The driver is one thread, `ata_pc` its place in the call; each
look at the status register is a step of its own. The drive is external: it works
on a command as long as it likes, fails it or not, and ignores what comes while it
has something in hand. `late` remembers that the command in the drive belongs to a
call that has given up. `SectorDisk` is what a caller sees: a call that returns 0
has read, or handed over, its own sector. The exception it has to make is
`owed`: after a call that timed out, a later call may be served with the old
answer. `DiskFs` assumes a disk that owes nothing, and otherwise the faults
`SectorDisk` has: calls refused, and writes lost although they returned 0.

**Rtl8139.** Lengths are in words. The receive ring holds for every word what lies
there, a header with its length or a part of a frame; the card writes a frame in
one piece, past the end if need be, and goes on at its own offset modulo the
size. A word that is no header, read as one, sends the driver anywhere. Sending
is a copy, a wait that is given up after some polls, and the write to the
descriptor, while the card fetches the buffer in two halves.

**Dns.** Questions and answers carry the name they are about, which the code never
looks at. An answer comes once, several times, late or not at all.

**LwipTimeouts.** The elements of the timer list and the free list they come from,
with the one link word both use. The clock goes on between any two steps and is
counted modulo `Wrap`; `left` counts, apart from it, how long a timer really has.

**TermIo.** The grid of `term_io.c`, compared with `paper`, what a printer of the
same width would have printed; `cmdline` is what Enter will execute.

**Doom, DoomConsole.** The walk in fixed-point arithmetic, with the sine
approximation of the code. `DoomConsole` puts the game on the keyboard driver.

## Runs

State counts are distinct states; a run takes one to two and a half minutes with
two workers. Deadlock is checked in all of them.

| Run | States | What it shows |
| --- | --- | --- |
| `DiskFs_crash` | 1,352,043 | three commands, two power failures and one fault anywhere: `WorkDirOK`, `NoOrphans`, `SaveAtomic`, `FormatSafe`, `SavedSurvivesReboot` |
| `Devices_session` | 415,990 | keyboard (`ReadsInOrder`, `FlagsFollowKeys`, `NewestArrives`), interrupts (`Resync`, `BytesServed`, `SleepReturns`), disk driver (`IsSectorDisk`, `AtaReturns`) |
| `Programs_session` | 688,504 | heap (`HeapWhole`, `IsAllocator`), editor (`TextSafe`, `EditsOneSymbol`, `ReopenShowsSaved`), terminal (`ScreenTells`), snake (`OnePiece`, `TurnBackTakesTwo`, `LeftAloneEnds`), Doom (`NoWayThroughWalls`) |
| `Desktop_session` | 217,840 | `WindowsRight`, `DragKeepsWindow`, `DragEnds` |
| `FileMan_session` | 752,687 | `ListRight`, `RenameKeepsData`, `DeletesSelected`, and of the table below `NamesRight` |
| `Network_session` | 311,500 | `Net` (`TableRight`, `WaitInVain`, `GatewayPinned`, `CommandsReturn`), `Dns` (`OwnAnswerWhenClean`), timers (`TimersInOrder`, `OnTime`, `TimersRun`), card (`InOrderUntilCrossing`, `SentIsNotOlder`) |
| `DiskFs_shortname` | violation | `CreatedIsFound` |
| `Desktop_exit` | violation | `ExitClosesTyper` |
| `Net_lwip` | violation | `PollReturns` |
| `Rtl8139_wrap` | violation | `ConsumedUpToHere` |
| `Lwip_twice` | violation | `LwipReturns` |
| `Doom_esc` | violation | `EscExits` |

For every property of a passing run the module holds a mutant of one definition
(a comment starting "Mutant of"), a plausible slip in the code that violates it;
a property with several parts has more than one.

### What the violations are about

- `diskfs_create` stores no terminator behind a short name (`diskfs.c:156-158`),
  so that in a reused slot the name keeps the tail of an older one and is not
  found again. `FileMan_session` checks the same, within `NamesRight`, with names
  of equal length, where it holds.
- `exit` closes the window `term_handle` names, that of the terminal opened last
  (`term.c:39`), whichever terminal it is typed in.
- `lwip_input_fn` hands a frame to `inp->input`, which is `lwip_input_fn`
  (`lwip_port.c:64`).
- A received frame that ends beyond the ring sets `rx_offset` to 0
  (`rtl8139.c:193`), while the card, in the wrap mode set at `rtl8139.c:129`, goes
  on behind the frame modulo the size. Driver and card disagree from then on.
- The `lwip` command given a second time runs `memp_init` again
  (`lwip_port.c:92`), which takes the elements of the timer list for free ones.
  The list becomes a cycle, and `sys_timeout_abs` walks it for ever.
- Doom says "ESC exits" (`doom_wrapper.c:271`), but the keyboard's table has 0 for
  Esc (`keyboard.c:23`), and a 0 is not stored.

### What the passing properties exclude

This is part of the result.

- A lost write breaks the atomicity of a save, and an unreadable sector at boot
  has the disk formatted: the properties of saving except both.
- `NoOrphans` excepts the deletion of a directory that is not empty, which leaves
  its files behind.
- `IsSectorDisk` is a promise with `owed`: see above.
- `OwnAnswerWhenClean` speaks of a lookup made when no earlier question was open
  and the card was empty. Otherwise a late answer is taken for the new one.
- `InOrderUntilCrossing` ends with the first frame that crosses the end of the
  ring, by `Rtl8139_wrap` necessarily.
- `SentIsNotOlder` admits a frame made of a beginning of one frame and the end of
  the next, which the copy before the wait (`rtl8139.c:154`) produces.
- `ScreenTells` excepts the command line on which a backspace came at the left
  edge: it takes a character from `cmdline` and none from the screen.
- `FlagsFollowKeys` excepts the prefix flag after the right Ctrl key, which
  swallows the next ordinary key.
- A key pressed during `mouse_init` can turn the keyboard off; a sleep until the
  very last tick may last a whole round; joining two lines that do not fit into
  one drops the rest; the rename prompt outlives its window.

### Bounds

- *DiskFs*: three slots of which one is the root, so that the table is full after
  two entries and slots are reused; names of one and two characters in arrays of
  three; contents of size 1 twice and 3 with a limit of 2, so that overwriting and
  refusal happen; three commands, two crashes and one fault, enough for a crash,
  a boot, another command and a second crash.
- *Keyboard*: four strokes on nine keys, one of each kind the decoder tells apart.
- *Interrupts*: ticks modulo 3, one packet, one scan code; these only have to
  wrap, repeat and differ from each other.
- *Ata*: two sectors, two values, two polls and three calls: a call that gives up,
  one that is served the old answer, and one that must be right again.
- *Heap*: an arena of 20 with headers of 2, so that three blocks can be freed in
  any order with one on either side; requests of 0, 1, 3 and one that wraps, and
  a count whose product wraps.
- *Editor*: three lines of two characters in a window of two rows, a file limit
  below what the lines can take, three edits, eight files some of which exceed
  each limit.
- *Snake*: a grid of 4 by 2, which the snake can fill.
- *Doom*: the north-west corner of `doom_map`, eight keys, and steps and turns
  larger than the code's (112 and 45 degrees against 56 and 5), so that corners
  and walls are reached within them; a step stays shorter than a cell.
- *TermIo*: three rows of four columns, a line of five characters and nine
  characters printed, so that lines wrap and the grid scrolls.
- *Desktop*: four windows (launcher, two terminals and a file manager) and one
  nested loop; three windows and none for the violation.
- *FileMan*: four commands, a window one row high, so that every move scrolls.
- *Net*: a table of two rows, so that a third address finds it full; two rounds
  of DNS; two arrivals; masks with and without a gateway in the way.
- *Dns*: two names, two rounds, three lookups, two frames in the card.
- *LwipTimeouts*: two cyclic timers and TCP's with intervals 3, 2 and 3, a clock
  modulo 18, at most two ticks between two rounds of the loop; the clock wraps
  any number of times. `TimeoutsAssumption` asks that an interval and three of
  these gaps fit in half the clock's range, 2^31 ms in the code: the
  intervals of the table are at most a minute, so a round may take a week.
- *Rtl8139*: a ring of eight words, frames of two and three, five frames received
  and three sent, two polls: frames end at the end of the ring and cross it.

### Fairness

`Keyboard`: a program keeps calling `keyboard_getchar`, and a pending interrupt is
served (interrupts are on). `Desktop`, `Snake`, `Net`: the loop, respectively the
command, is the only program and goes on (`WF` of its next step). `Interrupts`: the
processor goes on, the controller passes on a byte it holds, and the timer ticks;
`Pace` lets each source ask once between two instructions of the main program,
since the devices are far slower than the processor. `Ata`: only the driver is
fair, so `AtaReturns` holds with a drive that never answers. `LwipTimeouts`: the
desktop's loop goes round while it is not hung, and the clock ticks. `DoomConsole`:
the game's loop goes round and a pending interrupt is served. No fairness is
assumed of users, frames, drives or faults.

## Proofs

tlapm checks eight modules. The constants are arbitrary within the `ASSUME` of
each module. A step is Zenon's unless it names SMT, as the arithmetic ones do, or
PTL, as the temporal ones do.

| Module | Theorems | Inductive invariant |
| --- | --- | --- |
| `DiskFsProofs` | `TypeCorrect`, `WorkDirAlwaysOK` | `TypeOK /\ WorkDirOK`. `WorkDirOK` is stated so that it is inductive: a set of directories on which every parent lies, that no two share and that does not contain a parent equal to the working directory. Deleting an entry of the working directory then cannot hit the set. |
| | `SaveAlwaysAtomic`, `SavedAlwaysSurvives` | `SaveInv`: what the save in progress has passed is the table's (`Written`), what it has not reached is as the last complete save left it (`Unwritten`), and the two tables differ in one slot, in its name only if that slot was free (`OneChange`). The tree on disk therefore changes with one sector, the one with the trailing fields of that slot. |
| | `FormatAlwaysSafe` | with `WorkDirOK` and `SaveInv`, `RootInv`: after a complete save the disk has a root, since every save writes the live root of the table. |
| | `NeverOrphans` | with `WorkDirOK` and `SaveInv`, `OrphanInv`: the table in RAM and the one last saved are both `Sound`, and until a first save is complete neither RAM nor disk holds more than the root. A boot finds one of these trees by `TreeAtomic`. |
| `KernelProofs` | `HeapTypeCorrect`, `AlwaysWhole`, `ImplementsAllocator` | before `heap_init` no block, afterwards a `Good` heap (tiled, no free neighbours), and a request on record for each pointer in use. The heap command restores the heap because a good heap is determined by its blocks in use (`SameHeap`). The refinement is step simulation on top of the invariant. |
| | `AtaTypeCorrect`, `ImplementsSectorDisk` | `AtaInv`: the drive's command fits its state (`DriveInv`), the call fits its place (`PlaceInv`), and the command in the drive is the call's own unless `late` (`CallInv`). The refinement is step simulation from it. |
| `FileManProofs` | `ListAlwaysRight` | `FmInv`: types, `ListRight`, and that a write of `edit` is outstanding only while the list is out of date. |
| | `NamesStayRight`, `RenamesKeepData`, `DeletesOnlySelected` | with `FmInv`, `NamesKept` (every name in the table, the list and the prompt is one of `Names`, and what was made is there) and `RenameKept` (between the delete and the write of a rename the new name and a slot are free). Assumed is `SameLength`: the copy loops of `diskfs.c` store a name without its terminator, so that over a longer one they leave its tail (`DiskFs_shortname`); names of one length, whichever it is, are free of that. |
| `ProgramProofs` | `AlwaysReadsInOrder`, `FlagsAlwaysFollowKeys` | `ReadsInOrder` with the fact it needs: while a return is due, only the last character returned can equal the newest, and not even that one if an interrupt came in between. For the flags, what each code on the wire will still do to them. |
| | `EditorTypeCorrect`, `TextAlwaysSafe` | types, the property, and that the cursor waits at the start while a file is loaded. |
| | `KeysEditOneSymbol` | the same invariant and what `Flat` makes of lines cut in pieces (`FlatConcat`): a symbol more in a row (`RowGrows`) or a row divided in two (`RowDivides`) is a symbol more in the text; each key is one of the two, or its reverse. |
| | `SavedIsShown` | adds `LoadInv`: while the text of `base` is read, the rows that are complete are those of `base` and the last one is a beginning of its row (`Partly`), until all is read. |
| | `SnakeStaysWhole`, `OneTurnIsSafe` | `SnakeInv`: types, `OnePiece`, and `NeckAhead`: with no turn since the last move the direction is that from the second cell to the head, with one it is not the opposite. On every grid, up to the score at which `snake[100]` is full. |
| | `WallsHold` | the player is on the floor. A step is shorter than a cell, so each coordinate changes its cell by at most one (`WalkKeeps`), and `try_move` looks at the corner between. |
| `DesktopProofs` | `DesktopTypeCorrect`, `WindowsAlwaysRight`, `DragAlwaysKeepsWindow` | adds `DragKnown`: a drag goes on only while the loop knows the button to be down, so that no click, and no new window, falls into it. |
| | `ScreenAlwaysTells` | `TermInv`: the grid shows the last rows of `paper` (`Shows`), and until a backspace met the left edge `cmdline` is what stands behind the mark on the line typed so far. `PrintShows` is the induction over the characters of one output, grid and paper in step. |
| `NetProofs` | `NetTypeCorrect`, `TableAlwaysRight`, `AlwaysWaitInVain`, `GatewayAlwaysPinned` | `TableOK` (a map that is up to date), ranges, `WaitInVain`. `LearntIs` says what one step of learning does to each row; the action property follows from it. |
| | `NeverSendsOlder` | `TxInv`: the frame asked for is the one in the buffer or, between copy and descriptor, the one before it; a fetched half is no newer than the buffer. |
| | `AlwaysInOrder` | `RxInv`: until one crosses the end, the frames not yet handed out lie one behind the other between the driver's offset and the card's. Distances are counted from the driver (`Dist`); the card's room is the ring without `Dist(cbr)`, so a frame it stores covers none of them. |
| | `AlwaysOwnAnswer` | after a clean start every open question and every frame in the card is about the name asked for. |
| `TimerProofs` | `TimersAlwaysInOrder`, `TimersOnTime`, `NeverHung` | `LwInv`, until the `lwip` command is given a second time (`FirstRun`). The elements are two lists without an element in common, the timers and the free ones (`TwoLists`), which `Chain` walks. Along the first are the timers that run, each once, each with the clock reading at which it is due, in the order of `left` (`Timed`). No timer is later than `LateBy`: the loop comes round within `MaxGap`, and the rest of a round and the start-up come on top. With that bound all due times lie within half the clock's range of each other, so `TIME_LESS_THAN` compares readings as `left` compares times (`ClockCompares`), and the place `sys_timeout_abs` stops at is the right one (`FindPlace`). The restriction is needed: `Lwip_twice` shows what a second command does. |
| `Loops` | (lemmas) | the least element of a set of naturals, for loops that stop at the first hit; that a recursive function over `0..n` exists (`LoopExists`), and induction along it (`LoopInduction`). Both take the loop as a value, not as an operator, which is what makes them usable: `Listing` of the file manager, the printing of the terminal and `Flat` of the editor are proved with them. |

Every invariant, action property and refinement that a passing run checks is
proved, under the restrictions the table names. Only model-checked is what is said about liveness (`NewestArrives`,
`DragEnds`, `CommandsReturn`, `LeftAloneEnds`, `Resync`, `BytesServed`,
`SleepReturns`, `AtaReturns`, `TimersRun`): it rests on fairness, which the prover
does not reason about.

## Not modelled

- Pixels: `graphics.c`, `fbgui.c`, `font.c`, `cursor_gfx.c`, and all drawing; the
  text-mode screen and cursor used before the desktop starts.
- `loader.c` jumps into machine code, `html.c` prints, and `shell.c` is linked and
  never started (`kernel.c:93`).
- `libc.c`: pure functions of byte arrays, which the models have as values.
- The file layer of `doom_compat.c`: it has no caller.
- `http_get` of `net.c`, byte layouts and checksums; parsing and help texts of
  `commands.c`; PCI discovery.
- The array of the snake's cells, which ends after 97 meals: the model's snake is
  a sequence, and no grid TLC can explore reaches the limit.
- Memory behind the receive ring: in the model it is as long as a frame needs,
  in the code 16 bytes (`rtl8139.c:38`).
- The protocols of lwIP. Their receive path is not reached in this build (see
  `Net_lwip`), so only the timers and the pool below them are. lwIP is most of
  the lines under `src/`, and most of the lines the map does not cover.
- Files the Makefile does not link (`ide.c`, `ahci.c`, `disk.c`, `storage*.c`,
  `dns.c`, `idt.c`, `doom.c`, `fault.asm`).
