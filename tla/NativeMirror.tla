----------------------------- MODULE NativeMirror -----------------------------
(***************************************************************************)
(* Compiled code and the interpreter in one machine (run_jit_steps in      *)
(* src/src/vm.rs, src/src/vm/native.rs, and the second dirty set of        *)
(* src/src/memory.rs).                                                     *)
(*                                                                         *)
(* Compiled code works on a copy of memory, stack and pc. The copy is made *)
(* when a compiled block is about to run and no valid copy exists, brought *)
(* back before the interpreter takes a step and at the end of a slice, and *)
(* kept from block to block and from slice to slice. A copy of memory is   *)
(* refreshed by pages, from a set that every write of the interpreter adds *)
(* to; it is brought back by the range of addresses compiled code wrote.   *)
(*                                                                         *)
(* An instruction takes its operand from one place, stores one result, or  *)
(* two halves of it, and goes on somewhere. Which block runs, how far, and *)
(* when a slice ends is left open. The stack is one frame, its first value *)
(* the local variables. An instruction the interpreter ends with a VmError *)
(* is not a step.                                                          *)
(***************************************************************************)
EXTENDS Integers, Sequences, FiniteSets, FiniteSetsExt

CONSTANTS
  Value, Pc,
  PageSize, OrigPages, MaxPages,
  MaxStack,       (* Stack.maximum, in values                               *)
  Reserve,        (* its part that the copy reserves: at most 1 MiB         *)
  Low, High,      (* the halves of the result of a conversion               *)
  Instr,          (* the instructions of the story that can be compiled     *)
  Zero            (* what fresh memory holds                                *)

Cells(pages) == 0 .. pages * PageSize - 1
Operand == [mode : {"constant"}, value : Value] \cup [mode : {"memory"}, cell : Cells(MaxPages)]
             \cup [mode : {"stack", "local"}]
Destination == {d \in Operand : d.mode # "constant"}

ASSUME NativeMirrorAssumption ==
  /\ PageSize \in Nat \ {0} /\ OrigPages \in Nat \ {0} /\ MaxPages \in Nat /\ OrigPages <= MaxPages
  /\ MaxStack \in Nat \ {0} /\ Reserve \in 1 .. MaxStack
  /\ Zero \in Value /\ Pc # {}
  /\ Low \in [Value -> Value] /\ High \in [Value -> Value]
  /\ \A i \in Instr :
       /\ DOMAIN i = {"from", "to", "next"}
       /\ i.from \in Operand /\ i.next \in Pc
       /\ i.to \in Seq(Destination) /\ Len(i.to) <= 2

VARIABLES
  phase,                \* who acts: the host, the dispatcher or a compiled block
  jit,                  \* whether the backend is the compiler
  waiting,              \* whether the story waits for the host
  vm,                   \* memory, stack and pc of the interpreter
  native,               \* the copy: ram_storage, stack_storage up to stack_len, pc
  capacity,             \* stack_capacity
  native_state_valid,
  native_dirty_pages,
  written,              \* dirty_min and dirty_max, or << >>
  stack_dirty,
  refused,              \* the instruction a guard refused, << >> if none
  truth                 \* (not in the code) the machine with one memory

copyVars == <<native, capacity, written, stack_dirty>>
vars == <<phase, jit, waiting, vm, copyVars, native_state_valid, native_dirty_pages, refused, truth>>

-----------------------------------------------------------------------------
(* Instructions, on a machine m = [ram, stack, pc] *)

Page(cell) == cell \div PageSize
Memory(pages) == [Cells(pages) -> Value]

Pop(m, from) ==
  IF from.mode = "stack" THEN [m EXCEPT !.stack = SubSeq(m.stack, 1, Len(m.stack) - 1)] ELSE m

Fetch(m, from) ==
  CASE from.mode = "constant" -> from.value
    [] from.mode = "memory" -> m.ram[from.cell]
    [] from.mode = "stack" -> m.stack[Len(m.stack)]
    [] from.mode = "local" -> m.stack[1]

Put(m, to, value) ==
  CASE to.mode = "memory" -> [m EXCEPT !.ram = [m.ram EXCEPT ![to.cell] = value]]
    [] to.mode = "stack" -> [m EXCEPT !.stack = Append(m.stack, value)]
    [] to.mode = "local" -> [m EXCEPT !.stack = [m.stack EXCEPT ![1] = value]]

\* The machine after the operand is taken and k of the results are stored.
Stored(m, i, k) ==
  LET value == Fetch(m, i.from)
      popped == Pop(m, i.from)
  IN IF k = 0 THEN popped
     ELSE IF Len(i.to) = 1 THEN Put(popped, i.to[1], value)
     ELSE IF k = 1 THEN Put(popped, i.to[1], Low[value])
     ELSE Put(Put(popped, i.to[1], Low[value]), i.to[2], High[value])

After(m, i) == [Stored(m, i, Len(i.to)) EXCEPT !.pc = i.next]

\* Whether the k-th result finds room on a stack of the given size.
Room(m, i, k, size) == i.to[k].mode = "stack" => Len(Stored(m, i, k - 1).stack) < size

\* The instruction ends without a VmError.
Legal(m, i) ==
  /\ i.from.mode = "memory" => i.from.cell \in DOMAIN m.ram
  /\ i.from.mode = "stack" => Len(m.stack) > 1
  /\ \A k \in DOMAIN i.to :
       /\ i.to[k].mode = "memory" => i.to[k].cell \in DOMAIN m.ram
       /\ Room(m, i, k, MaxStack)

Written(i) == {i.to[k].cell : k \in {j \in DOMAIN i.to : i.to[j].mode = "memory"}}
UsesStack(i) == i.from.mode = "stack" \/ \E k \in DOMAIN i.to : i.to[k].mode \in {"stack", "local"}

-----------------------------------------------------------------------------
(* The copy *)

\* Vec grows to twice its capacity at least.
Grown(size, needed) == IF needed <= size THEN size ELSE Max({2 * size, needed})

\* The pages between the first and the last address compiled code wrote.
PagesOf(range) == IF range = <<>> THEN {} ELSE Page(range[1]) .. Page(range[2] - 1)

\* The range once the cells are written too.
Extend(range, cells) ==
  IF cells = {} THEN range
  ELSE LET low == Min(cells) high == Max(cells) + 1 IN
       IF range = <<>> THEN <<low, high>>
       ELSE <<Min({range[1], low}), Max({range[2], high})>>

\* sync_from_vm: a new copy of memory if its size changed, else the dirty pages.
Refreshed ==
  IF DOMAIN native.ram # DOMAIN vm.ram THEN vm.ram
  ELSE [c \in DOMAIN vm.ram |-> IF Page(c) \in native_dirty_pages THEN vm.ram[c] ELSE native.ram[c]]

Prepare ==
  IF native_state_valid
  THEN UNCHANGED <<copyVars, native_state_valid, native_dirty_pages>>
  ELSE /\ native' = [ram |-> Refreshed, stack |-> vm.stack, pc |-> vm.pc]
       /\ capacity' = LET size == Len(vm.stack) IN
                      Grown(Grown(capacity, Max({0, Reserve - size})), size)
       /\ written' = <<>> /\ stack_dirty' = FALSE
       /\ native_state_valid' = TRUE /\ native_dirty_pages' = {}

\* commit_to_vm: the interpreter's machine after the copy n is brought back.
Back(n, range, changed) ==
  [ram |-> [c \in DOMAIN vm.ram |-> IF Page(c) \in PagesOf(range) THEN n.ram[c] ELSE vm.ram[c]],
   stack |-> IF changed \/ Len(n.stack) # Len(vm.stack) THEN n.stack ELSE vm.stack,
   pc |-> n.pc]

Committed == IF native_state_valid THEN Back(native, written, stack_dirty) ELSE vm

\* What commit_native_state leaves of the copy.
Clean ==
  /\ UNCHANGED <<native, capacity>>
  /\ IF native_state_valid THEN written' = <<>> /\ stack_dirty' = FALSE
                           ELSE UNCHANGED <<written, stack_dirty>>

-----------------------------------------------------------------------------
(* A slice: run_steps *)

\* A machine at the start of the story.
Fresh(pc) == [ram |-> [c \in Cells(OrigPages) |-> Zero], stack |-> <<Zero>>, pc |-> pc]

Init ==
  /\ phase = "host" /\ jit \in BOOLEAN /\ waiting = FALSE
  /\ \E pc \in Pc : vm = Fresh(pc)
  /\ native = [ram |-> [c \in {} |-> Zero], stack |-> <<>>, pc |-> vm.pc]
  /\ capacity = 0 /\ native_state_valid = FALSE /\ native_dirty_pages = {}
  /\ written = <<>> /\ stack_dirty = FALSE
  /\ refused = <<>> /\ truth = vm

Begin ==
  /\ phase = "host" /\ ~ waiting
  /\ phase' = "vm"
  /\ UNCHANGED <<jit, waiting, vm, copyVars, native_state_valid, native_dirty_pages, refused, truth>>

\* Mutant: the work of compiled code stays in the copy.
EndLeaves ==
  /\ phase = "vm"
  /\ phase' = "host"
  /\ UNCHANGED <<jit, waiting, vm, copyVars, native_state_valid, native_dirty_pages, refused, truth>>

\* The budget is spent, or the story waits: commit_native_state(false).
End ==
  /\ phase = "vm"
  /\ phase' = "host"
  /\ vm' = Committed /\ Clean
  /\ UNCHANGED <<jit, waiting, native_state_valid, native_dirty_pages, refused, truth>>

\* A compiled block for this address exists.
Enter ==
  /\ phase = "vm" /\ jit /\ ~ waiting
  /\ phase' = "native"
  /\ Prepare
  /\ UNCHANGED <<jit, waiting, vm, refused, truth>>

\* An instruction that was refused is the next one.
Due(i) == refused \in {<<>>, i}

Fits(i) == \A k \in DOMAIN i.to : Room(native, i, k, capacity)

Compiled(i) ==
  /\ phase = "native" /\ Due(i)
  /\ Legal(native, i) /\ Fits(i)
  /\ native' = After(native, i)
  /\ written' = Extend(written, Written(i))
  /\ stack_dirty' = (stack_dirty \/ UsesStack(i))
  /\ truth' = After(truth, i)
  /\ refused' = <<>>
  /\ UNCHANGED <<phase, jit, waiting, vm, capacity, native_state_valid, native_dirty_pages>>

\* The stored values stay, the length of the stack and the marks go back.
RolledBack(m) ==
  [ram |-> m.ram,
   stack |-> [k \in 1 .. Len(native.stack) |->
                IF k <= Len(m.stack) THEN m.stack[k] ELSE native.stack[k]],
   pc |-> native.pc]

\* A push finds no room in the copy: the interpreter takes over at the instruction.
Slow(i) ==
  /\ phase = "native" /\ Due(i)
  /\ Legal(native, i) /\ ~ Fits(i)
  /\ LET k == Min({j \in DOMAIN i.to : ~ Room(native, i, j, capacity)})
         left == RolledBack(Stored(native, i, k - 1))
     IN native' = left /\ vm' = Back(left, written, stack_dirty)
  /\ written' = <<>> /\ stack_dirty' = FALSE
  /\ native_state_valid' = FALSE
  /\ refused' = i
  /\ phase' = "vm"
  /\ UNCHANGED <<jit, waiting, capacity, native_dirty_pages, truth>>

\* The end of the block, an unexpected branch, or the budget.
Leave ==
  /\ phase = "native"
  /\ phase' = "vm"
  /\ UNCHANGED <<jit, waiting, vm, copyVars, native_state_valid, native_dirty_pages, refused, truth>>

\* One instruction of the interpreter, after commit_native_state(true).
Step(i) ==
  /\ phase = "vm" /\ ~ waiting /\ Due(i)
  /\ Legal(Committed, i)
  /\ vm' = After(Committed, i) /\ Clean
  /\ native_state_valid' = FALSE
  /\ native_dirty_pages' = native_dirty_pages \cup {Page(c) : c \in Written(i)}
  /\ truth' = After(truth, i)
  /\ refused' = <<>>
  /\ UNCHANGED <<phase, jit, waiting>>

-----------------------------------------------------------------------------
(* Instructions that are never compiled *)

Uncompiled == phase = "vm" /\ ~ waiting /\ refused = <<>>

Fill(ram, pages) == [c \in Cells(pages) |-> IF c \in DOMAIN ram THEN ram[c] ELSE Zero]

\* Mutant: pages that come back are not marked.
ResizeUnmarked(pages) ==
  /\ Uncompiled
  /\ vm' = [Committed EXCEPT !.ram = Fill(Committed.ram, pages)] /\ Clean
  /\ native_state_valid' = FALSE
  /\ truth' = [truth EXCEPT !.ram = Fill(truth.ram, pages)]
  /\ UNCHANGED <<phase, jit, waiting, native_dirty_pages, refused>>

\* setmemsize, malloc, mfree: pages above the old end are marked.
Resize(pages) ==
  /\ Uncompiled
  /\ vm' = [Committed EXCEPT !.ram = Fill(Committed.ram, pages)] /\ Clean
  /\ native_state_valid' = FALSE
  /\ native_dirty_pages' = native_dirty_pages
       \cup {Page(c) : c \in Cells(pages) \ DOMAIN Committed.ram}
  /\ truth' = [truth EXCEPT !.ram = Fill(truth.ram, pages)]
  /\ UNCHANGED <<phase, jit, waiting, refused>>

\* Machines that were saved; one value fills them here.
Saved == {[ram |-> [c \in Cells(pages) |-> v], stack |-> <<v>>, pc |-> pc] :
            pages \in OrigPages .. MaxPages, v \in Value, pc \in Pc}

\* restoreundo and restore: another memory, stack and pc, every page marked.
Restore(m) ==
  /\ Uncompiled
  /\ vm' = m /\ truth' = m /\ Clean
  /\ native_state_valid' = FALSE
  /\ native_dirty_pages' = native_dirty_pages \cup {Page(c) : c \in DOMAIN m.ram}
  /\ UNCHANGED <<phase, jit, waiting, refused>>

\* glk_select, the file prompt: the story waits.
Wait ==
  /\ Uncompiled
  /\ waiting' = TRUE
  /\ vm' = Committed /\ Clean
  /\ native_state_valid' = FALSE
  /\ UNCHANGED <<phase, jit, native_dirty_pages, refused, truth>>

-----------------------------------------------------------------------------
(* The host, between slices *)

\* provide_input and the like, poll_events: a result for the story that waits.
Deliver(i) ==
  /\ phase = "host" /\ waiting
  /\ i.from.mode = "constant" /\ Legal(vm, i)
  /\ vm' = [After(vm, i) EXCEPT !.pc = vm.pc]
  /\ truth' = [After(truth, i) EXCEPT !.pc = truth.pc]
  /\ native_dirty_pages' = native_dirty_pages \cup {Page(c) : c \in Written(i)}
  /\ native_state_valid' = FALSE /\ waiting' = FALSE
  /\ UNCHANGED <<phase, jit, copyVars, refused>>

\* Mutant: the copy is still taken for the machine.
RestartKeeps(pc) ==
  /\ phase \in {"host", "vm"}
  /\ vm' = Fresh(pc) /\ truth' = Fresh(pc)
  /\ waiting' = FALSE /\ refused' = <<>>
  /\ native_dirty_pages' = native_dirty_pages \cup 0 .. OrigPages - 1
  /\ UNCHANGED <<phase, jit, copyVars, native_state_valid>>

\* By the host or, in a slice, by the story.
Restart(pc) ==
  /\ phase \in {"host", "vm"}
  /\ vm' = Fresh(pc) /\ truth' = Fresh(pc)
  /\ waiting' = FALSE /\ refused' = <<>>
  /\ native_state_valid' = FALSE
  /\ native_dirty_pages' = native_dirty_pages \cup 0 .. OrigPages - 1
  /\ UNCHANGED <<phase, jit, copyVars>>

\* set_execution_backend; set_aot_cache_dir does the same to the copy.
SetBackend(backend) ==
  /\ phase = "host"
  /\ jit' = backend /\ native_state_valid' = FALSE
  /\ UNCHANGED <<phase, waiting, vm, copyVars, native_dirty_pages, refused, truth>>

\* A stored session is resumed: the copy is not part of it.
Resume ==
  /\ phase = "host"
  /\ native' = [ram |-> [c \in {} |-> Zero], stack |-> <<>>, pc |-> vm.pc]
  /\ capacity' = 0 /\ written' = <<>> /\ stack_dirty' = FALSE
  /\ native_state_valid' = FALSE /\ native_dirty_pages' = {}
  /\ UNCHANGED <<phase, jit, waiting, vm, refused, truth>>

-----------------------------------------------------------------------------

\* Steps with instructions from a set.
Run(instructions) ==
  \/ Begin \/ End \/ Enter \/ Leave \/ Wait
  \/ \E i \in instructions : Compiled(i) \/ Slow(i) \/ Step(i) \/ Deliver(i)
  \/ \E pages \in OrigPages .. MaxPages : Resize(pages)
  \/ \E m \in Saved : Restore(m)
  \/ \E pc \in Pc : Restart(pc)
  \/ \E backend \in BOOLEAN : SetBackend(backend)
  \/ Resume

Next == Run(Instr)

Spec == Init /\ [][Next]_vars

\* Instructions whose result is a double store two words; the others store one at most.
Single == {i \in Instr : Len(i.to) <= 1}

SingleNext == Run(Single)

SingleSpec == Init /\ [][SingleNext]_vars

-----------------------------------------------------------------------------
(* Properties *)

Machine == [ram : UNION {Memory(pages) : pages \in OrigPages .. MaxPages}, stack : Seq(Value), pc : Pc]

\* Every machine is well formed, and the stack of the copy stays inside the storage
\* compiled code writes to without further checks.
TypeOK ==
  /\ phase \in {"host", "vm", "native"} /\ jit \in BOOLEAN /\ waiting \in BOOLEAN
  /\ vm \in Machine /\ truth \in Machine /\ Len(vm.stack) \in 1 .. MaxStack
  /\ native_state_valid \in BOOLEAN /\ (phase = "native" => native_state_valid)
  /\ native_state_valid =>
       /\ jit /\ native \in Machine /\ Len(native.stack) \in 1 .. capacity
       /\ DOMAIN native.ram = DOMAIN vm.ram

\* The machine that takes the next step is the one a single memory would be: no write
\* of the other side is missed, and none is undone by the refresh or the write-back.
Faithful == (IF native_state_valid THEN native ELSE vm) = truth

\* Between slices the interpreter's machine is complete: the host shows it, stores it
\* in sessions, and delivers results into it without asking for a write-back.
HostCurrent == phase = "host" => vm = truth

\* Where the copy and the interpreter's memory differ, a dirty set knows.
Tracked ==
  \A c \in DOMAIN vm.ram \cap DOMAIN native.ram :
    native.ram[c] # vm.ram[c] =>
      Page(c) \in native_dirty_pages \/ (native_state_valid /\ Page(c) \in PagesOf(written))
=============================================================================
