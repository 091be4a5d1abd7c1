# glulx-rs: TLA+ models, checks and proofs

glulx-rs runs interactive fiction compiled for the Glulx virtual machine. This directory
holds TLA+ models of the parts of it whose correctness depends on long sequences of operations,
on two threads or on the edges of small numbers, TLC configurations that check them on small instances, and theorems
that TLAPS proves for every value of the constants. `PROJECT.json` lists components, runs, the map from
definitions to source lines, hazards, findings and theorems; line numbers there refer to `src/`.

    tlc -workers 2 -config Heap_all.cfg MCHeap.tla       # one run
    tlapm HeapProofs.tla                                 # the proofs of one module

## 1. The system

One `Vm` (src/src/vm.rs) owns everything a story can touch. It is driven by a host - the desktop
application (app.rs) or the terminal (terminal.rs) - which calls `run_steps` with a budget, delivers input and
polls events. All of that happens on one thread. Three kinds of threads surround it: the
JIT compiler (vm/jit.rs), the decoders (sound, pictures, stories) and the translation worker. Each
is reached by a bounded queue and answers by a channel that the host thread polls.

| component | state | operations | what is hard | what makes it correct |
|---|---|---|---|---|
| paged memory (memory.rs) | page table, length, limit, two dirty sets | write, zero, copy, resize, restart, restore | a page that changed and is in no dirty set | contents as a flat array would have them; zeros above the story |
| undo (vm.rs 1795-1868) | deque of incremental snapshots, byte budget | saveundo, restoreundo, discardundo, restart | snapshots are differences to the newest one; eviction; limits lowered later | restoreundo brings back what saveundo saw |
| saved games, sessions (vm/save.rs, vm/session.rs) | a file, a serialised machine | encode, decode, validate | files of other interpreters; what is not serialised | what was saved is accepted and gives the same machine |
| heap (vm.rs 2560-2601) | blocks, heap start | malloc, mfree, setmemsize | gaps, page rounding, overflow; heap and memory restored together | blocks disjoint and inside memory; refusal only when full |
| calls and strings (vm.rs 2371-2558, vm/strings.rs) | stack of frames and stubs | call, return, catch, throw, printing | suspended strings and filters on the stack | every result goes where its caller wants it, every text is told once |
| instructions, searches, acceleration (vm.rs, vm/acceleration.rs) | memory, stack, caches of decoded instructions and of properties | execute, decode, search, call a replaced function | stale caches; the ends of memory and stack | what is in memory decides, not what was |
| native mirror (vm.rs 1120-1381, vm/native.rs) | copy of RAM and stack, validity flag | prepare, run, commit, invalidate | stale copies on either side | same memory as the interpreter |
| compiler and trace cache (vm/jit.rs, vm/native.rs) | blocks, pending, hot counts, worker, file | request, poll, insert, clear, load, persist | asynchronous results, whole-cache eviction, lost worker, two writers | code is that of its address; requests are not lost |
| events (vm/events.rs) | queue, requests, pending select, timer, state | select, select_poll, input, cancel, timer, stop, restart | one queue for all sources, stale requests | a select is completed once, by an event delivered once |
| windows (vm/windows.rs, vm/grid.rs, vm/presentation.rs) | tree, streams, keys, sizes, texts | open, close, arrange, print, echo | replacing pairs while other objects refer to them | the tree is a tree; streams and windows match; what is shown is current |
| streams (vm/streams.rs) | streams, shared files, file references | open, read, write, close, prompt, resume | two streams on one file, two paths to one file | each stream reads and writes its file, at its mark |
| sound (vm/sound.rs) | channels, pending decodes, fades | play, stop, pause, volume, resume | a decode that arrives late | sound only on the channel and request it was made for; its end told once |
| translation (translation.rs) | queue, generation, cache, in-flight maps, counters | submit, poll, reset, drop; worker loop | resets at every point of a request; merging; limits | a turn gets its own translation, once; nothing waits for ever |
| application (app.rs, app/*.rs) | loaded story, frames, canvases, layouts | load, restart, draw, publish, lay out | newest request wins; order of drawings | results of an older story are not shown; what is shown is what was drawn |
| terminal (terminal.rs, terminal/*.rs) | editor, pipe | slices, keys, prompts | the editor's text beside the request's | the player sees the text the story will read |
| stories and resources (story.rs, story/resources.rs) | executable, archives, index | open, attach, match a session | damaged and foreign archives | a resource is the one that was put there |
| dispatch, audio formats, budgets, settings, fonts, profiling | files and options | | parsing, platform | input and output |

Components meet in three ways. *Shared state*: memory, undo and heap are parts of one
machine and saved, restored and reset together. *Calls*: a Glk call of the story reaches windows,
streams, sound and events. *Messages*: compiler, decoders and translation answer later, and the
receiver has to recognise an answer nobody waits for any more.

## 2. Modules

| module | models | kind |
|---|---|---|
| `PagedUndo` | paged memory, dirty set, undo, protect, restart, restore, sessions | detailed |
| `Allocation` | what malloc, mfree and setmemsize promise a story | abstract |
| `Heap` | first fit, growth, release, and all that saves and restores the heap | detailed |
| `Calls` | activations, suspended texts and their results, as a language would define them | abstract |
| `CallStack` | the same on one stack of words: frames, stubs, catches, texts, undo, saves, sessions | detailed |
| `Decoder` | instructions read from ROM and RAM, the cache of decoded ones, the traces of the compiler | detailed |
| `Instructions` | what an instruction does to memory, stack, locals and program counter | algorithm |
| `Lowering` | what the code of a trace does instead, with guards and slices | detailed |
| `Searches`, `Acceleration` | the three searches; the thirteen replaced functions and their property cache | algorithm |
| `NativeMirror` | compiled code's copy of the machine, both dirty sets, slices, guards, host calls | detailed |
| `CodeCache` | the trace cache, the compiler worker, and the file of compiled code | detailed |
| `Events` | input requests, the event queue, select, timer, stop, restart, resumption | detailed |
| `TextWindows` | what text windows print, echo, collect for translation and show | detailed |
| `Terminal` | the terminal's loop and line editor, and its pipe; extends TextWindows | detailed |
| `Windows` | the tree, layout, echo and current streams, canvases of the host | detailed |
| `Streams` | memory and file streams and resumed sessions; extends Windows | detailed |
| `SoundChannels` | channels, decoding worker, fades, resumed sessions | detailed |
| `TurnHistory` | what translation promises a reader | abstract |
| `Translator` | submission, queue, worker, channel, cache, resets, closing | detailed |
| `Desktop` | frames, loading workers, pending drawings, publishing | detailed |
| `Canvas`, `TextLayout` | what a canvas keeps; how a text buffer is laid out and the layout kept | algorithm |
| `Story` | stories, archives, loose resources, attachment, sessions of a story | algorithm |
| `Queues` | `VecDeque::retain` and sorting, as functions one can prove about | helper |
| `CollectionLemmas` | sequences, sums, folds and inductions the proofs share | lemmas |
| `PagedUndoProofs`, `HeapProofs`, `NativeMirrorProofs`, `CodeCacheProofs`, `EventsProofs`, `GlkProofs`, `DesktopProofs` | | proofs |
| `MC...` | values of the constants and the composition of the modules of a run | for TLC |

A definition whose comment says "Mutant" is a plausible mistake in the operation of the
same name. No specification uses it; substituted for that operation it makes a property fail.

### PagedUndo

`mem` is the contents of all pages, `len` and `maximum` count pages. A page that the code does
not allocate reads as its baseline (`Baseline`: the story below ext_start, zero above), so the model keeps
contents and not the option `None`. A snapshot is the record `SaveUndo` pushes; its field
`image`, the memory at that moment, is not in the code: `UndoExact` compares it
with what the page table of the snapshot says (`SnapImage`).

| action | code |
|---|---|
| Store, NativeStore | write_bytes, zero, copy; write-back of compiled code |
| Resize | Memory::resize, from setmemsize, malloc, mfree |
| SaveUndo, SaveUndoFails | saveundo with snapshot_pages_with_limit and trim_undo |
| RestoreUndo, RestoreUndoFails, DiscardUndo | restoreundo, discardundo |
| Restart, RestoreFile | restart, the commit of decode_save |
| SetProtection, UseStack | protect; the stack grows and shrinks |
| ResumeSession | serialise, resume: set_resource_limits, set_memory_limit, validate_session |

The budget counts bytes in the code. In the model a page costs `PageCost` and the stack and heap records
`stackCost`: small numbers, so that a budget holds one snapshot, several or none.
`ChainSpec` is `Spec` without discardundo and sessions.

### Heap

Addresses are machine words (`Word`), so that the checked additions of the code can fail.
A block is a pair of start and length. `FirstFit` states what the scan computes: the lowest
candidate - the heap start or the end of a block - with enough room above. `Scan` is the loop of the code over the
sorted blocks (`Turn` is its body), and `ScanIsFirstFit` says that it finds the same. `Refused` also covers a host out of memory,
where the code's `try_reserve_exact` fails. `Files` are heaps found in saved
games of any origin, sound or not; `Accepted` is the validation of decode_save.

`Allocates` is the refinement: `size` is the memory outside the heap (`Program`), `live` the
blocks, `saved` the same for every snapshot. malloc that fails, memory growing and shrinking with the heap, and
changed limits are invisible; `Loadable` is given the sizes and blocks of the files in `Files`, all that Load may bring
back. What remains is allocation of disjoint blocks, release, snapshots and their restoration.

### CallStack and Calls

CallStack is one sequence of words, as in the code: a frame is its length, the format of its locals, locals and
values; a stub is four words under the frame it returns from, or a suspended text. `Calls` knows neither:
it has a sequence of activations, each with what becomes of its result. MCCallStack reads the activations off the
words (`ActsOf`), and `Refines` says that every step of the machine is a step of `Calls`. An alphabet says which
instructions a behaviour may use, where results go and how many steps it has (`fuel`); six of them together meet all
pairs of mechanisms: tail calls under texts, throws past filters, undo inside a printed number, and so on. `Resumable` says
that what a machine keeps in a snapshot, a saved game or a session passes validate_stack when it comes back.
`CallFixed` is callf to callfiii, which take their arguments from operands instead of the stack.

### Decoder, Instructions, Lowering

Decoder has bytes and opcodes as they are, for the opcodes of a few images; an instruction kept
by the interpreter, and one followed by the compiler, is compared with what is in memory now. Both follow instructions by recursive
functions (`CompileTrace`). Instructions executes records of an operation
and operands on words of four bytes, with `ByteBits` = 2 bits each: everything wraps, and the smallest integer, the
last bytes of memory and the limit of the stack are within reach of every operand. Floating point is an arbitrary
function of bits (`Real`, `Ordered`); `jfeq` and `jdeq` stand for the comparisons with a tolerance, `fmod` for the operations with two results. Lowering forms traces as jit.rs does and executes them as emitted: guards first, then stores, with the budget
of the slice counted down in between; `compiled` and `interpreted` start alike, and `Agrees` compares them wherever a slice ends.

Left out by `Exact` in MCLowering: a value too wide for `copys` and `copyb` (pushed unmasked by compiled code), and a second result
refused when the first has gone (see finding 4); constant destinations of `random` and `aloadbit` as well; a read that
begins in ROM and ends in RAM. After an error only the status is compared. `sexs` and `sexb` are not modelled: for them native.rs asks its code generator to extend a word to a word, its verifier
refuses, and no trace that contains one becomes code; the interpreter takes the low part of a full word, as it should.

### Searches and Acceleration

`FindsTheKey` compares each search with its definition over the structures (`FirstOf`, `OneOf`, `FirstInChain`), in
memories where they end, go round, or leave memory. A linear search of structures of size 0 without count never ends (`Endless`).
Acceleration keeps objects, classes and property tables as records; `AnswersAreTrue` compares what each function answers with memory as it
is. A table that begins in ROM and ends in RAM would be cached and go stale (constant `Straddling`, `{}` in the run; `{3}` refutes
`AnswersAreTrue`), although the test `property_table_cache_reuses_only_immutable_rom_tables` says otherwise by its name.
Registrations and parameters survive restart and undo, as in the code; the cache is not part of a session.

### NativeMirror

`vm` is the machine of the interpreter, `native` the copy compiled code works on: memory, stack and pc. `truth` is not in the
code: the machine a single memory would give, on which every instruction is executed once, by whoever executes it.
`refused` is not in the code either. It is the instruction a guard has refused; the story's own code decides what
is next, so until it is executed nothing else is. Instructions are records of where the operand is,
where the results go and where execution continues; `Stored` is the machine in the middle of one. The stack is
one frame and its first value the local variables.

| action | code |
|---|---|
| Begin, End | the slice in run_steps, run_jit_steps; commit_native_state(false) |
| Enter | NativeState::prepare with sync_from_vm: `Refreshed`, `Grown` |
| Compiled | an instruction of a compiled block: guards, stores, `written`, `stack_dirty` |
| Slow | a guard refuses: the exit path, `RolledBack`, commit_to_vm |
| Leave | the block ends or the budget does |
| Step | commit_native_state(true), then one interpreted instruction |
| Resize, Restore, Wait | setmemsize, malloc, mfree; restoreundo, restore; select and prompts |
| Deliver | results of input and events, written by the host thread |
| Restart, SetBackend, Resume | the calls of these names; a resumed session has no copy |

The capacity of the copied stack follows the growth of `Vec`, which matters: a guard compares with the
capacity and not with the limit of the stack. `SingleSpec` is `Spec` without instructions that store two results,
those whose result is a double (finding 4). Calls are never compiled and are interpreted steps; the state of the random
numbers, which is copied and put back with pc, and ROM, which never differs, are left out.

### CodeCache

An address stands for its trace, its code and the key of its code, since ROM never changes. The calls of the machine (`Looked`, `Requested`,
`Polled`, `Spawned`, `Cleared`) are functions of cache and workers, as they follow each other inside one step of the dispatcher.

| action | code |
|---|---|
| Execute, Start, Clear | TraceCache::block with poll and request; the beginning of a slice; another backend or directory |
| Load, Receive, Compile, Send, Finish | the worker: prepare_aot, recv, executor_trace with retain_aot_block, send, finish_aot |
| OpenFile, WriteFile, RenameFile | persist_aot in the steps another writer can see |
| Die, Crash | the compiler panics; the program ends and begins again |

Two workers at once share the name of the temporary file (it holds the number of the process), so either may rename what the other
is writing; a torn file fails its checksum. `lost` are the addresses in the hands of a worker that died: they are never asked for
again. Left out: AlreadyExists on Windows, a compiler that cannot be created.

### Events

One variable per field of `Vm` that select and its neighbours use. `asked` is not in the code: the windows whose line
or key the story has requested and neither received nor cancelled. Events are pairs of a type and a window.

| action | code |
|---|---|
| Select, SelectPoll | select_event (it polls before it returns), select_poll |
| RequestKey, CancelKey, RequestPointer, CancelPointer | request_line and the character, mouse and hyperlink calls |
| RequestTimer | request_timer, which removes queued ticks |
| OpenWindow, CloseWindow | open_window, close_window |
| Prompt, ProvideFile | the file prompt and its answer |
| Poll | poll_sound and poll_events at the start of a slice (`Polled`, `Give`) |
| Provide, MouseInput, HyperlinkInput | input of the host; each polls at once |
| Resize | resize_windows and new fonts; the event waits for a poll |
| SelectInputWindow, Stop, Restart | the calls of these names |
| Resume | validate_session, enable_audio, resume_timer |

One consequence is visible in the model and violates nothing: when another event is first in the queue, a typed line
leaves its window without request, and a cancel before the next select finds nothing. The
line is still delivered by that select (`NothingStaleOrLost`).

### TextWindows and Terminal

A window stands for its stream too. A window is a buffer (`runs` of text with style and link) or a grid (rows of cells and a cursor); the
calls of a story print, style, clear, move the cursor, ask for lines and cancel them; a line that ends is put into the story's buffer and
echoed into its window and the windows that one echoes to. `captured` is the text for the translation,
`presented` the copies the application shows. `TextsArrive` says that a line and its echo are what was typed, that every printed character is
collected once, and that editor, screen and request agree; `ShowsItsOwn` that a window shows what it holds after each publication
and that an echo touches nothing else (the comment at vm/events.rs:176).
In Terminal a slice, a key, a tick, a new size or a file prompt may come between two keys. The model takes a story that leaves the cursor of a window alone while
it waits for a line there; single keys are in Events. `PipeReader` is the thread that reads ahead.

### Windows and Streams

`windows` maps identifiers to records as in the code; a pair has `first`, `second`, `key`, method and size. The layout is arithmetic
on rectangles in pixels, in integer halves as the code computes it. `Arranged` says that the windows are one tree, that everything that
refers to a window or stream finds it, and that the leaves cover the screen once. `OrderKept` says that no operation turns the children of a pair round.

`streams` are those of windows and those of memory and files; a file stream has its own `mark` and shares `contents`; a stream of memory is an area with a mark. `links` are
which path leads to which file (node), `disk` what a file holds. `FilesAgree` says that streams of one file share
its contents whatever paths they were opened by, that contents not marked dirty are on disk, and that marks are inside. `ResumedAsSaved` says that
after a session is resumed each stream reads what it read. `Strays` lets a resumed session find other files at its paths, deleted or made
again in between: then unsaved contents are written to another file than the story chose, against docs/compatibility.md:102; the run has `Strays = FALSE`.

| action | code |
|---|---|
| OpenFirst, OpenBeside, CloseWindow | open_window, close_window with replace_child and prune |
| SetArrangement, SetViewport | set_arrangement, resize_windows |
| SetEcho, SetCurrent | the selectors of echo and current streams |
| OpenFile, OpenMemory, CloseFile, CloseFileFails, CloseMemory | open_file_stream, open_memory_stream, close_stream |
| Put, ReadValue (ReadFile, ReadMemory), Seek, Flush, Delete | writing and reading one value, position, flush, deletion of a file |
| Resume | serialise, restore_file_streams |

### SoundChannels

`tasks`, `decoding` and `results` are the queue, the worker and its channel; `awaited` maps request numbers to the channel they were made for, `expected` the
notifications the story still expects of each channel. A play stops what there is and asks for a decode, unless sounds are to begin together, which are decoded at once. The worker may be at any point when a
channel is stopped, played again, paused or destroyed. `SoundsAreTold`: channels, device and worker agree, and a story is told once
of the end of each sound and fade it waits for; `TellsPlayed` that it is told. Observed, and no violation: a fade that was not polled is lost when the session is stored; resuming more channels than the queue holds
ends the others with a notification; stale tasks may fill the queue, so that a play is refused.

### Translator

One action per decision of `submit` (NotRequested, FromCache, Refused, Merged, Queued,
NotQueued), one per result taken from the channel (`PollOne`), one per step of the worker between two
points at which the other thread can act. A key stands for a text with its settings, its
translation for the key itself, an error for `NoText`. The cache is a sequence in order of use instead of a clock.
The generation inside a channel entry is not in the code; nothing in the model's steps reads it there.
`reset` drains the channel in a loop; the model does it at once. A worker that sends during the loop is
one that sends before it or after it, and both are in the model.
`Close` and `DropFields` are separate because the worker runs between `Drop::drop` and the drop
of the channel. Turns that are not recorded (empty text, a view redrawn as it was) are not steps.

### Desktop, Canvas, TextLayout

A frame of Desktop installs a loaded story, runs a slice, takes input, draws and publishes, in the order of `App::logic` and `ui`. A story's text is counted by its
changes; a picture is a number, some of which fail to decode. `meant` is not in the code: what the canvas would be if every drawing
were done at once. Observations the model shows, outside the properties of the run:

- `draw_image` hands over no decoded picture, so a picture is drawn in a later frame; publish_story (app.rs:1212) returns early, and a
  picture drawn last before a select is shown only at the next event (against README.md:144);
- set_text_appearance (vm/presentation.rs:213) advances the revision, so that a running story is published in the middle of a turn: `Restyles = TRUE`
  refutes `WholeFrames`, the rule at app/windows.rs:449;
- two file prompts without a select between them show a stale screen.

Canvas keeps a pixel as the sequence of what shows through there; `ShowsWhatWasDrawn` compares the kept operations, dropped, cropped, baked or restored, with a bitmap and a
map of links. Area gained by a resize and never drawn on changes its colour with a later resize, against the comment at
app.rs:2974, and so does what shows through something translucent drawn there. Unless `Recolors`, the one resize that would do so
is left out: a background that changed, while at some point nothing opaque has been drawn (`Overdrawn`). TextLayout cuts runs into words, spaces and pictures and places them in lines around the pictures of the
margins; lengths are twelfths of a pixel. `LaysOutWhatIsThere`: a kept layout is the layout of the text there is; everything is
placed once, in order; nothing overlaps, and only a single word may stick out. A word wider than the indented line but narrower than the window is not broken; a trailing blank may lie outside;
pictures for a margin inside a line are dropped: all as the code does it.

### Story

A file is a sequence of cells: two make a word, others stand for some data. Archives are whole, cut off, of another story or without executable;
a directory of loose files becomes an archive. `ResourcesAreTheirs`: every resource, title and cover a story finds is what was put into the
archive in force, an index never leads outside it, and an attachment that fails changes nothing.

## 3. What the runs check

| run | module, configuration | states | shows |
|---|---|---|---|
| undo_full | MCPagedUndo, PagedUndo_full | 72 480 | `UndoRestorable`, `UndoBounded`, `KeepsAligned`, `ProtectionHolds` under all operations |
| undo_chain | MCPagedUndo, PagedUndo_chain | 80 016 | `UndoExact` and `UndoReturns` without discardundo and sessions |
| undo_discard | MCPagedUndo, PagedUndo_discard | - | finding 1: a counterexample to `UndoExact` |
| heap | MCHeap, Heap_all | 76 713 | `HeapSafe`, refinement `Allocates`, `RefusedOnlyWhenFull`, `SavesAreAccepted`, `ScanIsFirstFit` |
| desktop | MCDesktop, Desktop_all | 280 555 | translation: `Accounted`, `Settles`, refinement `KeepsHistory`; frames: `FramesAreTrue`, `NewestComes`; `ShowsWhatWasDrawn`; `LaysOutWhatIsThere` |
| events | MCEvents, Events_all | 322 190 | `Coherent`, `NothingStaleOrLost`, `Wakes`; texts: `TextsArrive`, `ShowsItsOwn` |
| events_stop | Events, Events_stop | - | finding 2: a counterexample to `StopHolds` |
| native | MCNativeMirror, NativeMirror_single | 692 292 | `Faithful`, `HostCurrent`, `Tracked`; code: `CacheIsSound`, `Compiles` |
| glk | MCGlk, Glk_all | 189 174 | `Arranged`, `OrderKept`; files: `FilesAgree`, `ResumedAsSaved`; `SoundsAreTold`, `TellsPlayed` |
| interpreter | MCInterpreter, Interpreter_all | 118 011 | `Resumable`, refinement `Refines`; `DecodesWhatIsThere`; `ResourcesAreTheirs` |
| lowering | MCInstructions, Lowering_all | 191 783 | `Agrees`; searches and acceleration: `RepliesAreTrue` |
| lowering_loops | MCLowering, Lowering_loops | - | finding 3: a counterexample to `Agrees` |

Type invariants are conjuncts of these: `Inv` and the like begin with `TypeOK`, or the property mentions it.

**Composition.** Modules that meet in one component are checked in one run. Where they also share state (Terminal and TextWindows,
Streams and Windows, Lowering and Instructions, Calls and CallStack) they extend each other; where they do not, interleaving them would
multiply the states and show nothing, so the MC module has a variable `focus`, chosen at the start, that says which of them moves.

**Bounds.** A bound is a constant, or a conjunct of the MC module.

- *PagedUndo*: two pages at most, one of them the story's, cells with two values, two snapshots; the stack costs 1 or 4 against budgets of 0 and 5. A dirty-tracking
  mistake needs one page, two snapshots and one write between them; shrinking and growing needs one page above the story; eviction needs one
  snapshot more than fit. In undo_chain a page has two cells, and stores of two cells cross a page edge.
- *Heap*: words of 20 values, pages of 4, limits of two and three pages, sizes 1, 6 and 19, two snapshots: gaps between blocks, growth by a page, the
  limit and overflow all occur.
- *Translator*: two texts, one of them larger, a queue and a channel of one entry, two pending turns, one cache entry, three turns, three numbers, two resets: every limit is met,
  and resets find the worker in each of its states.
- *Desktop*: three loads, two pictures, two changes of text, three drawings. *Canvas*: three paintings, two kept operations. *TextLayout*: two widths, three runs.
- *Events*: two windows of a kind that can take everything a window can, hyperlinks in one of them. Clicks and sounds enter below a queue length of `MaxQueue` = 1, and the other sources may
  add to that, as `NothingStaleOrLost` says. *TextWindows, Terminal*: three windows that echo to each other, three calls (two when they print), texts of two characters, widths of 1 to 3, a pipe of one line.
- *NativeMirror*: two pages of one cell, two places in the story, a stack of two values of which the copy holds one or two, so that a push meets a full copy
  below the limit as well as at it. *CodeCache*: three addresses, one of them without code, two blocks, two workers at a time, one that dies, one change of backend or crash.
- *Windows, Streams*: trees of up to four leaves and three pairs, the two viewports of a wide and a flat screen, splits of both directions in pixels and shares; three streams, two paths, two files, contents
  of up to two values. *SoundChannels*: two channels, two plays, one resumption, a queue of one task.
- *CallStack*: 26 words, two functions and an accelerated one, four texts, four or five steps for each alphabet. *Decoder*: images of five bytes, of which four are ROM, all over five bytes and seven more; two kept instructions, traces of four.
  *Story*: three stories opened or attached, two loose files.
- *Lowering*: bytes of two bits, 32 bytes of memory, a stack of 20, traces of three instructions, slices of 1, 2 and 4. All instructions are met alone, in programs with all
  operands at the edges, and in short programs together. *Searches, Acceleration*: the memories listed in MCInstructions; registered functions 5, 7, 12 and 14 besides what calls each function directly.

**Deadlock.** It is checked except in glk, where a story may close everything and have used up its identifiers, in interpreter, where a behaviour
uses up its steps, and in lowering and lowering_loops, whose programs end. Where an application ends there is a named last state (`Terminated`, `Over`, `Finished`).

**Fairness.** Only the liveness properties use it, and each condition is one of these:

- *Polling* (`Wakes`, `Settles`, `TellsPlayed`): both hosts call `run_steps` again and again in every state, the terminal each 10 ms and the desktop on each frame, with a
  repaint at the next timer deadline; a deadline that has passed stays passed until a poll sees it. `logic` of the application polls the
  translation on every frame and asks for the next one even when hidden. In SoundChannels polling is fair only while `Needed`, when a channel is active.
- *Threads* (`Settles`, `NewestComes`, `Compiles`, `TellsPlayed`): the operating system runs the workers; a call to the translation service ends by its 30 s timeout; a file is
  read or not; a sound that plays runs out.
- *Frames* (`NewestComes`): they follow each other as long as something is under way.
- *The story* (`Compiles`): it comes back to the addresses it loops over, in slices that begin again.

There is none on turns, resets, closings, or anything else a story or a player may decide. Only weak fairness is used.

## 4. What is proved

TLAPS proves the following for every value of the constants that satisfies the named ASSUMEs (sizes are
natural numbers, limits are multiples of a page, and the like); TLC evaluates those on the runs. Every theorem
is about the specification of the module, of which the run checks an instance.

| module | theorem | states |
|---|---|---|
| PagedUndoProofs | `TypeCorrect`, `Restorable`, `ProtectionKept` | `TypeOK`, `UndoRestorable`, `ProtectionHolds` |
| | `Bounded` | `UndoBounded`: what the snapshots keep stays within the budget |
| | `AlignmentKept` | `KeepsAligned`: every operation except those of finding 1 tracks what changed |
| | `ExactSnapshots`, `Returns` | `UndoExact`, `UndoReturns` |
| HeapProofs | `HeapTypeCorrect`, `HeapIsSafe`, `OwnSavesAccepted`, `FullWhenRefused` | `TypeOK`, `HeapSafe`, `SavesAreAccepted`, `RefusedOnlyWhenFull` |
| | `LoopIsFirstFit` | `ScanIsFirstFit`: the loop of malloc finds the first fit |
| | `HeapAllocates` | Heap implements Allocation |
| NativeMirrorProofs | `CopyTypeCorrect`, `OneMachine`, `HostSeesTruth`, `DifferencesTracked` | `TypeOK`, `Faithful`, `HostCurrent`, `Tracked` |
| CodeCacheProofs | `CodeIsSound` | `CacheIsSound`: code is that of its address, requests are accounted for, the file is one that was written |
| | `DecodedIsThere` | `DecodesWhatIsThere`: kept instructions and traces are those memory holds |
| EventsProofs | `QueueAndStateAgree`, `NothingIsStaleOrLost` | `Coherent`, `NothingStaleOrLost` |
| | `SoundsStayTold` | `SoundsAreTold` |
| DesktopProofs | `TranslationAccounted` | `Accounted` |
| | `TurnsKeepTheirHistory` | Translator implements TurnHistory |
| | `CanvasIsFaithful` | `ShowsWhatWasDrawn`, unless `Recolors` |
| | `FramesStayTrue` | `FramesAreTrue`, unless `Restyles` |
| | `DrawingsStayInOrder`, `NewestIsInstalled` | its part about drawings, and that about stories, whatever the user restyles |
| GlkProofs | `FilesStayTrue`, `SharedAndInside` | `FilesAgree`; its part that needs no condition on strays |
| | `SessionsKeepFiles`, `ChildrenStay` | `ResumedAsSaved`, `OrderKept` |
| | `StaysArranged` | `Arranged`: one tree, nothing dangles, no echo comes back, the screen is tiled |

**Shared lemmas** (`CollectionLemmas`). The library's induction theorems take an operator and cannot be instantiated. A set can: `SetInduction` and `SubsetInduction` do
induction over the set of values for which a fact holds, given as an ordinary set. From them follow what the proofs need of sums over sequences and sets, of `FoldSet`
(`FoldExists`), of recursive functions (a function that takes one step after another stays in a set that each step stays in: `StaysIn`, `StepsStay`), and of sequences with an element appended, removed or moved.

**PagedUndo.** `Inv == TypeOK /\ UndoRestorable` is inductive: that the memory restoreundo installs is
well formed depends on the page tables and lengths of the snapshots. `UndoExact` is not inductive: what the *next* snapshot will contain depends
on the dirty set. The missing part is `Aligned`: a page that is not dirty holds what the newest snapshot
(or the story) has for it. `AlignmentKept` proves that every operation keeps it but discardundo and the resumption
of a session. With `ChainInv == Inv /\ Aligned /\ UndoExact` follow `ExactSnapshots` and `Returns`, of `ChainSpec`.
`Bounded` follows the deque through eviction as a sum of costs, from either end.

**Heap.** `Inv == LiveOK /\ UndoOK`: the live heap is in order and so is each retained one, which is what restoreundo needs.
`FullWhenRefused` takes the highest block below a gap (`Largest`, by well-founded induction) and shows that the
scan would have stopped there. `LoopIsFirstFit` follows the loop turn by turn: until it has found a gap its address is the end of the last block, and
no candidate so far had room; blocks that are disjoint and sorted by start are sorted by end. `HeapAllocates` has one lemma for each action, with the deque mapped element by element (`SeenAll`).

**NativeMirror.** `Inv` is the four properties and `CopyOK`: when the copy is valid the dirty set is empty, and
a stack that is not marked is the same on both sides. `Tracked` makes both
directions exact: what sync_from_vm leaves alone is equal (`RefreshedIsMemory`), and so is what commit_to_vm leaves alone
(`BackIsCopy`). Eight of the actions only have to show that they mark what they change
(`InvalidatingStep`). `RollBackExact` is where one result at most is needed: the theorems are about `SingleSpec`, see finding 4.

**CodeCache.** The invariant has a part for the cache (`GoodCache`), for each worker (`GoodWorker`), for the file and its temporary (`GoodFile`), and one
that relates cache and workers (`Linked`): a pending request is with a worker that will answer it, or lost with one that died. The calls of
the machine have a lemma each. A poll is followed result by result through the fold; insertion evicts everything or nothing.
That a file is never mixed from two writers needs who has opened, written and renamed what.
*Decoder*: the instructions that are kept end before RAM, and those are the same in memory and in the image whatever
has been stored (`AgreeBelow`). The trace of the compiler is a recursion that takes up one instruction at a time; each one it takes up is there, and follows the one before it.

**Events.** `Coherent` and `NothingStaleOrLost` are proved together with `Orderly` bounds for the queue - a pair of type and window occurs at most once, except clicks
and sounds, of which there are `MaxQueue + 1` - and `Awaited`: a request the story made is in the requests or answered in the
queue. Requests that are filtered out of the queue are followed by positions (`OrderlyRetain`).

**Translator.** The line - channel, the worker's job, queue - holds each request once, with rising numbers (`Lined`), and every entry in flight is somewhere on it or in the
channel (`Awaited`). pending_turns is the number of all subscribers and pending_bytes the sum of the keys in flight (`Flight`): sums over
sets, compared one key at a time. `Shown` says which turns of the history have which translation. The refinement follows from the same
invariant: every step of the code leaves turns alone, records one, or completes those of one request.

**Canvas.** An operation shows, at each point, what it draws over what was there, and does nothing outside its clip. Hence an operation under an opaque one whose
clip contains its own can go, cropping commutes with showing, and putting all operations together into one image shows what they showed. The
invariant relates the operations to `bitmap` point by point, and the regions of links to `linkmap`.

**Desktop.** `DeskInv` has three parts. `ScreenInv`: as long as nothing is restyled, what the machine holds and what is presented differ only in the middle of a slice.
`LoadInv`: at most one story is asked for and not installed, and it is the newest; results that arrive are followed one by one
through the queue (`NewestInstalled`). `DrawInv`: the canvases with what waits for them are what was meant. A picture that is decoded carries the number of a
request and the story it belongs to; nothing else on its way has that number, and everything kept belongs to the story that runs, so an answer is that of the picture that is waited
for. What a slice draws, a decode delivers and a frame handles is one step of a recursive function each, and `StepsStay` takes them together.

**Streams.** The invariant says that windows keep their streams to themselves, that streams with the same contents agree on what the contents are, and - without
strays - that the path of an open file leads to the file that is open, so that what is not dirty is on disk (`Bound`). A new file takes a number that no stream holds, by a pigeonhole argument (`NewIdFresh`).
`ChildrenStay` needs no invariant beyond the form of the windows.

**Windows.** `StreamsInv /\ ArrangedInv` is inductive; `ArrangedInv` has three parts, and in none does a recursion along the tree occur. `LinkInv`: parents and children
name each other, and there is a rank, a number for each window that falls towards the root (`Rooted`). A rank does for any number of windows what the recursion `Above` does for
one tree. Splitting doubles all ranks to make room for the new pair; closing keeps every window but the pair that goes and what is inside the closed child, and the ranks of
the rest. A key is a window with contents inside its pair, windows and their streams name each other, and echoes and the current stream exist (`Live`). `ScreenInv`: the rectangle of
every window is the slice of its parent's that the parent's method gives it, each canvas is the extent of its window. The slices of two children cut the rectangle of the pair in two; by induction
over ranks, from the leaves up, the leaves below a window are apart and sum to its area, and at the root to the screen. It uses of the metrics only that they are at least 1
(`WindowsAssumption`; src/src/vm.rs:3273 sees to it). `EchoInv`: a rank of streams that falls along echoes. Setting an echo is refused
by following the chain; the chain is as short as a rank counted by the streams themselves, so that the fold that follows it, as many steps as there are windows, has reached its end.

**Sounds.** `SoundInv` relates, channel by channel (`True`), what plays, waits or is to be played again, and the fade, to what the story expects.
`AwaitsTrue`: the device awaits exactly what channels wait for, under request numbers that were given out and are not used again; `TasksTrue`: the worker
has each task once, wherever it is; `ResumingTrue`: a resumed session goes through the active channels and ends with the fades. The strengthening
`SoundsAreTold` lacks is mainly in the requests: an endless sound carries no notification on its channel, whatever the story asked for, and only so
may a resumed session play it again. The results of a poll and the sounds of play_multi are taken one by one by recursive functions, whose steps each keep the invariant.

**Only model-checked**, and why:

- liveness (`Settles`, `NewestComes`, `Wakes`, `Compiles`, `TellsPlayed`): the prover has no rules for fairness;
- `Resumable`, `Refines`, `Agrees` and `RepliesAreTrue`: frames, chains and traces are followed by RECURSIVE operators, in modules
  the SMT backend cannot enter (CallStack, Lowering, Story, MCCallStack), and Instructions uses Bitwise; `ResourcesAreTheirs` likewise;
- `LaysOutWhatIsThere`: what a paragraph becomes is a recursion over words, spaces and pictures, compared with the whole of it: induction over data;
- `TextsArrive` with `ShowsItsOwn`: what a text window prints is a recursion over the pieces of a line under edit, of its echo and of the translation that
  is collected, compared with the whole of it;
- `FramesAreTrue` with `Restyles` and `ShowsWhatWasDrawn` with `Recolors` do not hold (section 2), so that the theorems exclude them.

## 5. Findings

1. **discardundo and the dirty set** (src/src/vm.rs:1866). Snapshots keep only pages that changed
   since the previous one; `discardundo` drops the newest without marking its pages dirty. After
   saveundo, discardundo, saveundo, restoreundo the machine can get back pages as they
   were before the first saveundo. Run undo_discard. A resumed session has the same effect (src/src/memory.rs:88): the dirty set is not
   serialised and nothing marks the memory dirty, so that the next saveundo misses pages written since the last
   one of the previous run. `KeepsAligned` shows that no other operation does this; marking all
   pages dirty in both places would restore `Aligned`.
2. **A stopped story goes on** (src/src/vm.rs:1329). `stop` sets Halted and keeps the select that waits and the
   timer. `run_steps` polls in every state, the desktop application runs a slice on every frame, and
   `poll_events` sets the machine running when an event comes. Run events_stop.
3. **A trace left behind a taken branch** (src/src/vm/native.rs:2053). A trace continues at the target of a backward conditional branch, but the
   program counter holds the address behind the branch until the next instruction of the trace is done. When the trace or the slice ends there, or the next guard fails, the machine
   leaves the loop. Run lowering_loops.
4. **A refused conversion loses its operand** (src/src/vm/native.rs:1909). `store_f64_pair` stores two words, each behind its own guard. When
   the first is pushed over the operand and the second finds the copy full, lengths and marks are put back but not
   the word; the interpreter then repeats the conversion on the wrong operand. It needs an earlier write to the
   stack in the same stay of the copy. Checking `Faithful` under `Spec` instead of `SingleSpec` in NativeMirror shows it; `OneMachine` proves that without such
   instructions the two sides agree whatever happens.

Smaller observations are noted with their modules in section 2. Two more: the host of a pipe does not notice the end of its input while it waits
for another event (terminal/pipe.rs), and an echo window takes the style of the source window after an echoed input.

## 6. Not modelled, and the plan

Not modelled: dispatch tables, audio formats, Unicode and calendar, settings, fonts, budgets, profiling, generation of machine code, painting. They are
sequential, pure, or input and output. An operation that ends the machine with a VmError is not a step: the host stops running it.

What would come next: lines under edit (`TextsArrive`) as a theorem, and the chains of frames of CallStack with ranks as in GlkProofs instead of RECURSIVE operators. The alphabets of CallStack leave out the combination of four mechanisms at a time, and NativeMirror
keeps one frame: a copy with several would need compiled calls, which native.rs does not have.
