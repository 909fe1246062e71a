# A verification development for NesUEFI

NesUEFI is a NES emulator that boots as a UEFI application. It is one thread of
C in an endless loop, with a timer notification from the firmware beside it, a
keyboard that is polled, and inside the emulator two machines, processor and
picture unit, that take turns. These modules model that program in TLA+, check
it with TLC and prove the most important properties with TLAPS.

All paths below are relative to `src/NesUEFI/` unless they start with `README`.

## 1. The system

| Part | Code | State | Operations |
|---|---|---|---|
| Main loop | `main.c` | `last_frame` | poll the keyboard; when more than `TICK_PER_SECOND/NES_FPS` ticks have passed, one step of the user interface |
| User interface | `ui/ui_gfx.c` | `g_ui_state`, `current_rom_index`, `total_roms`, `rom_collection` | key handler, `ui_manage_states`, load a file, draw |
| Keyboard driver | `driver/keyboard.c` | `key_state`, `key_pressed` | `keyboard_poll` (calls the key handler), `get_key` |
| Timer driver | `driver/timer.c` | `kernel.ticks` | `TimerHandler`, `timer_ticks` |
| File browser | `driver/sfs.c` | none of its own | `list_directory`, recursive, calls `save_rom_info` |
| Frame driver and loader | `emulator/fce.c` | ROM header, pixel buffers | `fce_load_rom`, `fce_init`, `fce_run`, `fce_update_screen` |
| Processor | `emulator/cpu.c`, `cpu-addressing.c` | registers, 2 KiB of RAM, `cpu_cycles` | `cpu_run`, `cpu_interrupt`, 256 opcodes |
| Memory map | `emulator/memory.c` | none | dispatch by the top three bits, sprite DMA |
| Picture unit | `emulator/ppu.c` | registers, toggles, `PPU_RAM`, `PPU_SPRRAM`, `scanline` | `ppu_cycle`, `ppu_io_read`, `ppu_io_write`, drawing a scanline |
| Cartridge | `emulator/mmc.c` | program and pattern pages, `memory` | read, write, append a page |
| Controller | `emulator/psg.c`, `key.c`, `hal/nes_key_hal.c` | `p`, `prev_write` | strobe, read the next button |
| Output | `hal/nes_gfx_hal.c`, `hal/nes_hal.c`, `driver/graphics.c`, `ui/adafruit_gfx.c` | frame buffer | draw |

**How they interact.** The loop calls the keyboard driver, which calls the user
interface's key handler *from inside the poll, before it updates its own flag*.
The loop calls the user interface, which in `PLAY` calls `fce_run`. `fce_run`
gives the picture unit a scanline and the processor a slice of cycles, 262
times. The picture unit calls back into the processor (`cpu_interrupt`) and
into the frame driver (`fce_update_screen`). The processor reaches the picture
unit through loads and stores, which have side effects, and the controller,
whose reads consume key presses that the loop's polls have latched.

**What is hard here.** Nothing is preemptive but the timer, so the difficulty
is in sampling and order: a port byte seen many times or never; a request
(`START`) that is carried out frames later; registers whose *reads* change
state, and stores that are preceded by a read of the same address; three
different clocks for a frame (ticks, calls of `fce_run`, scanlines); state that
a second ROM inherits from the first; statuses that are not looked at; a
picture put together from three buffers that are filled while the game changes
what it is drawn from; a recursive walk in which every call may fail.
`PROJECT.json` lists the hazards with their lines.

## 2. The modules

### Keyboard, Shell: the loop, the user interface, the timer, the keyboard

`Keyboard.tla` is the driver: `port` is what `inportb(0x60)` returns,
`key_state` and `key_pressed` are the two arrays. Its operators (`PollFlags`,
`HandlerDue`, `ConsumePresses`) are conjoined into the actions of the modules
that call the driver. `Shell.tla` is `efi_main`'s loop. `loop` says where the
loop is: `Poll` (with the key handler inside it), `CheckClock`, and one action
per state that `ui_manage_states` may find (`Splash`, `IdleMenu`, `LoadRom`,
`PlayFrame`). Between any two of them the user may type (`KeyEvent`) and the
timer may count (`Tick`).

Abstracted: names of files are indices (what becomes of the names themselves is
Listing's), and what is behind a name (`FileKind`) is a ROM, something that `fce_load_rom` refuses, or nothing that can be opened.
In the last case `load_current_nes_file` reads through a handle that was never
set; the model allows every outcome: the machine stops, or whatever the buffer
held is refused or is taken for a ROM (`Leftover`). The same goes for
`% total_roms` with no ROMs, which stops the machine (`crashed`). `splash.bmp`
is taken to be there, as `README.md` asks. `session` is what lies on the volume
and which keys its user has; it is chosen at the start and never changes, so
that one run covers several volumes. Inside `PLAY` a frame only consumes
key presses: the rest of it is Frame's.

### PpuRegs, PpuPort, VramPort: the picture unit's registers

`PpuRegs.tla` has `ppu_io_read`, `ppu_io_write`, `ppu_init` and the address
decoding as operators on a record that has the fields of `PPU_STATE`, the two
flags of `PPUSTATUS` that matter and the memories. `PPU_RAM` is a function over
the cells that are watched; every other cell reads as unknown. `PpuPort.tla` is
any game that loads from and stores to these registers. A store is a load
followed by a store, because every addressing mode loads its operand whatever
the instruction does with it; the code depends on it. In between the cartridge
may show another page of patterns (`Switch`, `mmc_write`), and another ROM may
be loaded, with whatever mirroring, with patterns or without (`Insert`,
`fce_load_rom` and `fce_init`): the registers are reset, but neither the toggles
nor the half of an address nor the memory.

`VramPort.tla` is the abstract specification: what a program may rely on. A
position, advanced by 1 or 32 with every access, a store that changes the cell
at the position and nothing else, a load that returns the cell of the access
before. An address is set by two bytes, high first; which of them the next one
is, is promised from the first look at PPUSTATUS after a ROM was loaded. Of a
nametable cell its contents are promised once it was stored to under the
mirroring in force: another ROM with the same mirroring finds them, one with the
other does not. `PpuPort!PortSpec` is the refinement. Its mapping says what the position
is: `PPUADDR`, plus one step unless the first access is still to come. Three
history variables say when the port promises nothing: `lost` while a stream
of accesses has been interrupted (by a look at `PPUSTATUS`, half an address, or
another step), until the game sets an address again; `aligned`, that the
status was looked at; `fresh`, which cells were written under this mirroring.

What differs from the console, and the refinement therefore says: reads of the
palette are one access late like all others; nametables are mirrored by writing
twice.

### Frame: time

`Frame.tla` is `fce_run` with `ppu_cycle` and `cpu_run`. `turn` alternates
between the units, `cycles` is what is left of the slice, `game` is the little
that matters of the program: whether it is in the loop that waits for the
vertical blank. A sprite-0 hit is a choice on every line on which the code
compares pixels (`CanHit`). The history variables count screen updates in the
present call (`updates`), calls since the last one that ended a picture
(`dark`), the line of the last hit, and the cycles really executed.

### Joypad: the controller

`Joypad.tla` is `psg.c` with the mapping of buttons to keys of
`nes_key_hal.c`, on top of `Keyboard`. The game's routine is `StrobeHigh`,
`StrobeLow` and `ReadCount` times `ReadButton`; in between, in any order, the
loop polls (`PollKeyboard`), the user types, the game stores to a sound
register (`SoundStore`, which overwrites `prev_write`) or another game is
started (`InsertCart`, which tells the port nothing). Each store is preceded by
a load of its address, as in the picture unit: `PadStore` contains `PadLoad`.
`got` and `strobe` are history variables: the last load's answer, and whether
the last strobe of this game worked or was lost to a sound store.

### Memory, Cpu, Processor, MCProcessor: the processor

`Memory.tla` is `memory.c`'s address decoding and the four stack routines of
`cpu.c`, as operators. `Cpu.tla` has the addressing modes, the operations and
the table of opcodes as operators on a record with the fields of `CPU_STATE`,
`op_value`, `op_address`, `op_cycles` and the memory; `Executed` is one round
of `cpu_run`, `Interrupted` is `cpu_interrupt`. The combined operations of the
extended set go through `op_value` as in the code. `Processor.tla` is the
machine: `Instruction`, and `Nmi` between any two of them. `MCProcessor.tla`
has five programs in machine code and what each must have computed when it
halts; so the unit that is tested against integers is not one opcode but
programs whose result depends on flags, modes and operations together.

### Stack, ByteStack: the stack

`Stack.tla` is any order of byte and word pushes and pops by any program that
may also set SP and keep data at `0xFF`, the cell below the stack's page.
`ByteStack.tla` is the abstract specification: a sequence, last in, first out,
where a word is two bytes, its high byte pushed first. It promises nothing when
more is pushed than there is room for or more is popped than was pushed
(`broken`), until SP is set again. `Stack!StackSpec` is the refinement:
`Contents` reads the sequence out of page one between SP and `base`.

### Cartridge: what a game finds

`Cartridge.tla` is `fce_load_rom`, the mirroring that `fce_init` sets and
`mmc.c`, over everything that is played between two power-ons. A load is one
action per outcome: not an iNES file (`LoadUnsigned`), a mapper that is not
emulated (`LoadUnsupported`, found out after `buf` was overwritten), a game
(`LoadRom`), an array overrun (`LoadOverruns`, after which nothing is promised).
The game stores to its program (`MmcWrite`, which with mapper 3 also selects
patterns) and draws patterns (`DrawPattern`); the user goes back to the menu
(`Reboot`). Contents are followed in pieces of 8 KiB, each named by the file it
was read from and its place there. The history variables say which pieces the
game has stored to, which pages were there before it, and what it has selected.

### Render: what reaches the screen

`Render.tla` is the drawing of `ppu_cycle`, one action per scanline, with
`fce_update_screen` in the last one; between two lines the game may write to
PPUSCROLL, PPUMASK, PPUCTRL (nametable, height of the sprites, and the pattern
tables of playfield and of sprites, which the code reads again on every line),
OAMADDR, copy sprites by DMA, look at PPUSTATUS, or be replaced by another game. Of a buffer the model keeps its size and the colour drawn last at
each place: pixels are appended and drawn in order, so that is what counts.
`seen` is `ppu_screen_background` as it lies in memory, with its 248 rows a
column, so that lines beyond them are noted where the code notes them.
`hit` is `ppu_sprite_hit_occured` and `sprite0` the bit of PPUSTATUS, which
outlives it: a hit on the very last line is seen only there. The contents of
nametables and pattern tables are constant data, so a game that draws into them
while they are shown is not covered; a colour is its index in the palette. `rows`
remembers how each line was drawn, with which patterns, `tables` the sprites'
patterns on it, and `moved` whether the sprites were copied anew, shown, hidden
or resized, or another ROM was loaded, in this picture; the properties compare the
screen with what these say. `PictureIsRight` leaves out pictures that are `moved`,
and only those: of the rows of a sprite that is touched some are drawn and some are
not.
Frame and Render are two views of `ppu_cycle`: Frame has its timing and flags,
with a sprite-0 hit as a choice; Render has its pixels, and the cause of a hit.

### Listing: the file browser

`Listing.tla` is `list_directory` with `save_rom_info` and `strstr_16`. The C
stack is a sequence of frames, each with its directory, how far it has been
read, and where its call is. Every firmware call may fail (`NoMemory`,
`ReadFails`, `NoPath`, `OpenFails`), in any frame, and the calls above give up
one by one (`GiveUp`). Names are sequences of characters, because what
the code does depends on their length and parts; `rom_collection` is flat, as
in memory, so a name that is too long runs into the next row. `dp`, which
`list_file_browser` passes on without ever setting it, may stop the machine
(`WildPath`). The walk ends before `Shell` begins. Of a volume it is assumed
that its directories form a tree, at most `MaxDepth` deep (`TreesAssumption`:
an entry that is a directory leads further down than the one it is in; only
`.` and `..` do not). `NamesReadBack` speaks of names as long as there
is room behind the row they go to. What the list should hold is said without the walk:
`Games` is a function of the volume and a place in it, the games from there on,
depth first, and `IsGame` says of a name what `HasPart` (`strstr_16`) looks for.

### Modules for checking and proving

`MCShell`, `MCPpuPort`, `MCFrame`, `MCStack`, `MCCartridge`, `MCRender` and
`MCListing` supply constant values. `KeyboardProofs` (of `Shell` and of `Joypad`),
`PpuRegsProofs`, `PpuPortProofs`, `FrameProofs`, `ProcessorProofs`,
`StackProofs`, `GameFilesProofs` (of `Cartridge` and of `Listing`) and
`RenderProofs` hold the theorems. In `Joypad` and `Listing` the specification's
names have a prefix (`PadInit`, `ListInit`), so that it can stand in one module
with the other. Definitions whose name names a fault
(`NextIndexUnwrapped`, `StatusReadForgetful`, `LastLineKeepsBlank`, ...) are
deliberately wrong variants of the definition that follows them. They belong to
no specification; each shows that some property would notice that mistake.

## 3. What TLC checks

| Run | Shows | Bounds |
|---|---|---|
| `shell_ui` | Menu, load, game and reload are consistent (`CartIsPicked`, `ShownIsSelected`), only the bad file or an empty list stops the machine (`RunsDefined`), a press acts once (`OneEventPerPress`), frames obey the clock (`FrameGate`), splash and load end and frames never cease | three sessions: three files, one of each kind, keys UP, START, R; two files, keys DOWN, START; no file, keys UP, DOWN, START; clock modulo 5, at most 3 ticks in a round |
| `shell_sixty` | A disagreement, see section 5 | two files, two keys |
| `port_stream` | Any sequence of accesses, with other pages of patterns and other ROMs in between, implements `VramPort` (`PortSpec`); the copies of a nametable cell agree once it is written under the mirroring in force (`NametablesCoherent`) | registers 0, 2, 6, 7; addresses of the bytes 0x23, 0x3F, 0xF0, in any order; steps of 1 and 32; two data bytes; both mirrorings; one page of patterns, or none; streams of 3 accesses; 826 504 states |
| `port_pattern` | A disagreement | addresses 0, 4, 0x400, 0x404 |
| `frame` | Pictures and calls of `fce_run` stay in step, the flags of PPUSTATUS are about the present picture, a game waiting for the blank gets on | lines 0..5, blank from 3, a slice of 3 cycles, instructions of 2 or 4 |
| `frame_warmup` | A disagreement | warm-up 6, clock modulo 16 |
| `joypad` | Buttons come in order, no latched press is swallowed, presses and releases become known | three keys (A, START, UP), four of the eight buttons, 18 loads without a strobe, two games |
| `cpu_programs` | Five programs compute what they must | 1875 start states; bytes 0, 1, 127, 128, 255 and the like; two NMIs |
| `stack_lifo` | The stack routines implement `ByteStack`, the zero page is safe | SP from 0, 2, 3; two bytes, one word |
| `cartridge` | A game finds its own program, mapper and mirroring (`GameIsWhole`) and patterns (`PatternIsOwn`), and when arrays are overrun (`LoadsHold`) | seven files, one of each kind; a `buf` of 6 pieces, room for 4 pages |
| `render` | The screen is what nametables, pattern tables, scroll and sprite table say (`PictureIsRight`), the buffers hold (`BuffersHold`), a hit is one (`HitIsReal`) | tiles of 2 by 2, 2 columns, 4 rows, 7 lines, two sprites that overlap, one in front, one flipped and behind, scrolled by 0 or 3, both pattern tables, one write to a register per picture, any looks at PPUSTATUS; 1.64 million states |
| `listing` | What is allocated is freed (`NothingLeaks`), names are read back (`NamesReadBack`), the games listed are those of the volume (`GamesListed`), the walk ends (`NeverInsideItself`) | 128 volumes, directories three deep; rows of 4 characters |

**Why the bounds are enough.** `shell_ui`: with three files all index
arithmetic and all three outcomes of a load occur, also one after another by
way of a reload. A clock modulo 5 with rounds of up to 3 ticks has every
distance between `last_frame` and now, with and without a wrap, on both sides of
the gate of 2. `port_stream`: the cells watched are a cell of a nametable,
0x2410, with its copies under both mirrorings, the background colour, and a cell of
a pattern table. A position that is set to 0x23F0 runs into the first with the
step of 32, one set to 0x3FF0 into the last past the end of memory, and
0x3F3F into a repetition of the palette with the step of 1. A third access is
where all of the increment's special cases (none before the first, one before
each later one) have occurred. `frame`: the proportion that matters is that the picture has one
line more than a call of `fce_run`, that a slice is not a sum of instructions
(a slice of 3, costs of 2 and 4: the last instruction runs over, and `cpu_run` starts the next slice afresh, so what was overrun is never paid back), and that the blank begins
before the last line; the theorems of `FrameProofs` hold for all values, the
code's among them. `joypad`: three keys show two buttons and the
confusion of one for the other, and one key that is none of the four buttons
read; 18 loads leave room for two lost strobes. In
`cpu_programs` the edge bytes are where carry, overflow and sign change; every
image runs through to its end. The stack is tried from SP 0, 2 and 3 because
only there words straddle the end of the page; the theorems cover the rest.
`cartridge`: files with one and with two blocks, with no, one and two pages,
with bank switching, truncated, refused and too large follow one another in any order,
and three games with patterns already exceed the four pages. `render`: what
matters is that a line has two passes that meet anywhere in a tile, that a
sprite is taller than one line and may hang over the right edge and the bottom,
that it overlaps another, that either pattern table changes between two of its
lines, and that the playfield's buffer is exceeded only with the widest scroll; all
of these occur, as do hits on every kind of line, the last one included. As in the code,
the last line comes after the one with which the blank begins, and some lines have
no row on the screen. What does
not occur in so small a picture, that a sprite below the screen hits the next
column's rows of `seen` and that the sprites' buffers run over, is covered by the
theorems alone.
`listing`: a name is shorter than a row, fills
it, or runs over one or two rows; a failure may come at any depth.

Deadlock is checked but in `cartridge`, `render` and `listing`: there the model
ends where an array was overrun, or the walk is over.

Type invariants are proved (section 4), and but for that of `Processor`, where most
of the arithmetic is, they are not among the runs' properties.

**Fairness.** Shell: weak fairness of `MainLoop` (the loop has no blocking
call) and of `Tick` (the firmware signals a periodic timer). Frame: weak
fairness of the emulator's own steps, which `fce_run` executes one after the
other; the user need not insert anything. Joypad: weak fairness of the polls
and of the game's routine, because only games that keep reading the port are
meant; the user, the sound stores and the polls may come in between as they
like. Nothing is assumed of the user anywhere. The processor needs no fairness:
`EndsInTime` bounds the cycles instead.

## 4. What TLAPS proves

All theorems hold for every value of the constants that the modules' `ASSUME`s
allow: any volumes and keys, any line counts with the picture at least
as long as a call and shorter than two, any slices and costs, any stack
pointers.

- **KeyboardProofs**: of `Shell`, `TypeOK`, `RunsDefined`, `CartIsPicked`, `ShownIsSelected`,
  `OneEventPerPress`, `FrameGate`. The strengthening `IInv` adds three things
  the properties need and do not say. With ROMs listed, the index is always one
  of them (so neither `%` nor the array can go wrong); `waited` is congruent to
  `ticks - last_frame`, and small enough that the modular difference is the
  real one; and a key is held (`key_state`) only if it was pressed since its
  last event, which is why a release that is polled twice acts once.
  Of `Joypad`, `PadTypeOK`, `ButtonsInOrder`, `PressesReachTheGame`. `PadInv`
  says how `p` and `reads` are aligned, after a good strobe (equal) and
  after a lost one (`p` beyond what any routine reads).
- **ProcessorProofs**: for every program, `TypeOK`: registers and cells are bytes,
  addresses words, whatever is executed and whenever interrupts come. The
  inductive invariant (`CpuState`, as a set of records) is carried through every
  operation, every addressing mode and every row of the table of opcodes, with a
  lemma for each; under them lie lemmas on bytes as eight bits (`ByteIsItsBits`,
  `BitOfBits`). Moreover what `cpu_interrupt` and `rti` (`InterruptsReturn`), `jsr`
  and `rts` (`SubroutinesReturn`) do to each other, from every state and stack
  pointer, the wrap included: a handler that leaves SP and the three cells that
  were pushed as it found them is left with PC, SP and the arithmetic flags of
  the interrupted program, and `rti` changes nothing else. (The flag I is not
  among them: the NMI raises it before it pushes P.) That a handler meets the
  hypothesis is a claim about its code; the run has one that nests and does.
  Of the arithmetic, that it composes: `WordsAdd`, `WordsSubtract` and
  `WordsShift` say of two additions, subtractions or shifts that are chained by
  the carry that they are those of words, for all operands, with the carry, the
  borrow, the overflow and the comparisons that a program draws from the flags.
  They hold of any two states in between which the carry was left alone, so of
  any loads and stores there. `CombinedArePairs`: each combined operation of the
  extended set is the two it combines, one after the other on the same cell, for
  registers, flags and memory, unless the cell is a port (which would notice
  how often it is accessed). The lemmas under them say which flags an operation
  sets to what, and that it leaves the others (`FlagsSet`, `Result`). `WordsAreExact` and
  `CombinedIsPair` check the same in whole programs, fetched from memory and through the
  addressing modes, on chosen operands; the theorems leave out the
  program and hold for all operands.
- **PpuRegsProofs, PpuPortProofs**: what each register operation returns and
  keeps (lemmas), from which `TypeOK` and
  `NametablesCoherent` follow, and `Spec => PortSpec`, the refinement of
  `VramPort`, for ROMs of any mirroring one after the other. The refinement assumes
  that nothing is stored below the nametables: in the pattern tables a store also lands
  elsewhere, which is the second disagreement of section 5. Its invariant says,
  as long as the port promises anything, where the position is
  (`PPUADDR`, one step further once an access was made), that the buffered byte is the
  cell of the access before, that a known cell and its mirrors agree, and that half an
  address is what the latch holds once the game is `aligned`; each kind
  of access, and each other page or ROM, is then a step of the abstract port or a stutter.
- **FrameProofs**: `TypeOK`, `OneUpdatePerRun`, `NeverTwoDarkRuns`,
  `VblankInBlanking`, `Sprite0Recent`. `IInv` relates where the call is
  (`scanlines`), where the picture is (`scanline`), and which lines the call
  has therefore passed: that is what makes two pictures in a call, or two calls
  without one, impossible.
- **StackProofs**: `TypeOK`, `ZeroPageSafe` and `Spec => StackSpec`, the
  refinement of `ByteStack`. The invariant fixes SP as `base - depth` modulo
  256 and that memory is bytes in the first two pages; the rest is what a push
  changes and leaves alone in page one, in particular when SP wraps between the
  two bytes of a word.
- **GameFilesProofs**: of `Cartridge`, `TypeOK`, `GameIsWhole`, `PatternIsOwn`,
  `LoadsHold`, for any
  files, any `buf` of four pieces or more and any number of pages. `IInv` says
  where a game's pages lie among those of its predecessors: from `first` on,
  `header.chr` of them, and that pages beyond the number were never written.
  Of `Listing`, `ListTypeOK`, `NothingLeaks`, `NeverInsideItself`,
  `NamesReadBack` and `GamesListed`, for any volume that is a tree, names and rows. `OwnInv`
  counts what the calls own: two blocks and a directory for one that waits for
  another, one block and a directory for one that reads, and of the last one
  what it has asked for and not yet given back; what is allocated is the sum
  over the stack. `NestInv` says that each call is further down than the one
  that waits for it. `NameInv` says that each name stands where its row begins,
  with the character that ends it, unless it is longer than the row and another
  name follows. `WalkInv` says that what is listed, followed by the games from
  the place of the innermost call on, then from that of the call that waits for it,
  and so on outwards, is all the games, until a call of the firmware fails;
  afterwards what is listed stays a beginning of them. It needs that
  `Games`, a recursive function, satisfies its own equation at every place; that is proved in
  two inductions over natural numbers, on how deep a directory is and on how
  many entries are left, with sets of numbers in place of predicates.
- **RenderProofs**: `TypeOK`, `BuffersHold`, `HitIsReal` and `PictureIsRight`, for
  any screen, patterns, sprite
  tables and writes, with buffers as large as the code's are in proportion: the
  playfield unscrolled fits, and so do all rows of all sprites; with lines enough
  below the screen for a sprite on its last row, and a sprite's X on the line.
  For the buffers, the argument is
  one of counting. `PlayfieldCount`: while no line drawn was too wide, `k` lines
  have at most `k` shares of the room (a line adds at most `WIDTH` plus what was
  scrolled off, since the second pass adds only columns left of the scroll).
  `SpriteCount`: while the sprites were not touched, a buffer has at most as
  many pixels as there are places in which a sprite has been on the lines so
  far (`Painted`); the pixels of a new line map one to one into the new places.
  For the hits, `SeenInv` says that every colour noted for sprite 0 is that of a
  place of a nametable which lies in memory where it is noted; two places that
  share their memory are at most one column apart, since fewer than two columns'
  worth of rows are drawn. For the picture, `PlayfieldInv` says that the playfield's
  buffer shows the lines drawn so far as they were scrolled and with the patterns
  they had, and `SpriteInv` that a sprites' buffer shows, at each place, one of the
  sprites that had a pixel there, in the table of the line that drew it, on a line so
  far, if any had. What is left is arithmetic: which row
  a line draws depends on the line alone, so a sprite's rows come in another
  order, but all of them in `TILE` lines (`RowIsDrawn`).

Only model-checked: everything under fairness (`TransientStatesEnd`,
`FramesGoOn`, `WaitingEnds`, `LatchedPressIsSeen`, `ReleaseIsSeen`), which is
out of the prover's reach; and what the processor's programs compute
(`ProductIsRight`, `WordsAreExact`, `SortIsRight`, `CopyIsRight`, `CombinedIsPair`,
`EndsInTime`, `InterruptsLeaveNoTrace`). These are claims about particular
programs in memory: a proof would follow each of them instruction by
instruction, from the bytes that are fetched, with the cells it may store to. What
is proved instead is what the programs rest on: the arithmetic, the combined
operations, and the ways into subroutines and handlers and back.

## 5. Where the code differs from what it says, and from the console

Three runs find a disagreement with a document, a comment or a test
(`PROJECT.json`, "findings"):

1. `shell_sixty`: the gate compares with `>` instead of `>=`, so a frame takes
   3 ticks of 1/120 s: 40 frames a second.
2. `port_pattern`: the condition at `ppu.c:356` is always true, so stores to
   pattern tables also land 0x400 or 0x800 bytes away.
3. `frame_warmup`: `cpu_cycles` counts down, so the warm-up is over at once.

Modelled as the code does it, and different from the console, without a
document that says otherwise: `brk` pushes its own address and goes through
the NMI's vector; the NMI raises I before it pushes P; RAM appears again at
0x6000; `and` with an absolute operand takes 2 cycles; undefined opcodes take
none; palette reads are late by one; `START` latched in the menu is seen by the
game; a game that reads the controller twice in order to compare gets two
answers for a tap, since the first load consumes it; after the splash
screen the menu shows no name until a first key event.

In the cartridge: only the low half of the mapper's number is looked at; a game
without patterns finds those of the game before; with mapper 3 a second game
selects from the first one's pages; a store to a bank register damages the
program until the next load.

On the screen: the picture lies one row down, and its first row is always the
backdrop; PPUSCROLL's second byte is ignored; the bit for the leftmost eight
pixels leaves out the first tile of each nametable, wherever it is scrolled to;
which row of a sprite is drawn depends on the line alone, so all rows appear,
but in another order, a sprite of 16 lines shows the same 8 rows, and of two that
overlap the later line wins before the place in the table; the ninth sprite is
drawn too; `ppu_screen_background` is never cleared and too short, so a hit may
be with what is no longer, or elsewhere, on the screen: a sprite 0 that is parked
below the screen can hit the first rows of the next column; more than 35 pixels of
scroll in every line overrun `bg`.

In the listing: a name with ".nes" in the middle is a game, and so is a
directory with such a name; games in sub-directories are listed, but opened by
their bare name in the root; one failure ends the whole listing.

## 6. What makes each part correct, and what is not modelled

| Part | Correct when | State |
|---|---|---|
| Shell | what is picked is loaded and played; a press acts once; frames obey the clock; nothing undefined | modelled, proved but for liveness |
| Picture unit's registers | games can rely on `VramPort` | modelled, proved |
| Scanlines | one picture a call, flags about the present picture, waiting ends | modelled, proved but for liveness |
| Processor | programs compute what they must, interrupts leave no trace | modelled; widths, returns, word arithmetic and combined operations proved, programs checked |
| Stack | last in, first out; nothing outside its page | modelled, proved |
| Controller | buttons in order; no press lost, none stuck | modelled, proved but for liveness |
| Cartridge | a game finds its own program, mapper and mirroring whole, whatever was loaded, refused or stored before; and its own patterns, if it has some (section 5 has the exceptions) | modelled, proved |
| File browser | all games listed, names read back, nothing leaks, the walk ends | modelled, proved |
| Renderer | the screen is what tables and registers say; the buffers hold; hits are real | modelled, proved |

Not modelled and not planned: the colour table and drawing (`ppu`'s pixels
through GOP, `adafruit_gfx.c`), which are pure output; the sound, which the
program does not have; build scripts.

## 7. Plan

Order: the shell, then the ports that games depend on, then time, then the
controller, the processor and its stack, then cartridge, renderer and file
browser (all of these are done). What would come next:

1. Composition: the NMI between `Frame`, the waiting game and a handler, both of
   which look at PPUSTATUS; `Render`'s hits in place of `Frame`'s choice.
2. The room for 1024 names, which the code does not check, as a bound in
   `Listing`.
