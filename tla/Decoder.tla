-------------------------------- MODULE Decoder --------------------------------
(***************************************************************************)
(* How instructions are read from memory (src/src/vm.rs) and, for the      *)
(* compiler thread, from the story's image (src/src/vm/jit.rs).            *)
(*                                                                         *)
(* The interpreter keeps what it decoded, by the low bits of the address;  *)
(* the compiler follows instructions into a trace while they are of a kind *)
(* it compiles.  Neither looks again when memory changes: both are right   *)
(* only as far as nothing they read lies in RAM.                           *)
(*                                                                         *)
(* Bytes and opcodes are the program's.  A word is the signed number that  *)
(* its bits mean, so that it fits into TLC's integers.                     *)
(***************************************************************************)
EXTENDS Integers, Sequences, SequencesExt

CONSTANTS
  RamStart, Length,       (* the image's; memory has as many bytes            *)
  Images,                 (* stories, of as many bytes                        *)
  CodeBytes,              (* what they store                                  *)
  DecodeCacheSize,        (* DECODE_CACHE_SIZE: 2048                          *)
  MaxTraceInstructions,   (* MAX_TRACE_INSTRUCTIONS                           *)
  MaxRead                 (* bound of the model: bytes stored, and addresses  *)
                          (* decoded                                          *)

ASSUME DecoderAssumption ==
  /\ RamStart \in Nat /\ Length \in Nat /\ RamStart <= Length
  /\ CodeBytes \subseteq 0 .. 255 /\ Images \subseteq [1 .. Length -> 0 .. 255]
  /\ DecodeCacheSize \in Nat \ {0} /\ MaxTraceInstructions \in Nat \ {0} /\ MaxRead \in Nat

VARIABLES
  image,                  \* StoryImage
  program,                \* memory: ROM and RAM
  decoded,                \* decoded_cache: what its entries hold
  readings                \* bounded by MaxRead

decoderVars == <<image, program, decoded, readings>>

-----------------------------------------------------------------------------
(* Bytes read together; a word's bits are compared without their sign.       *)
Raw(bytes, at, n) == SubSeq(bytes, at + 1, at + n)
Signed(raw) == FoldLeft(LAMBDA v, b : 256 * v + b, IF raw[1] < 128 THEN raw[1] ELSE raw[1] - 256, Tail(raw))
Unsigned(raw) == IF Len(raw) < 4 THEN FoldLeft(LAMBDA v, b : 256 * v + b, 0, raw) ELSE Signed(raw)
Lower(v, w) == IF (v < 0) = (w < 0) THEN v < w ELSE w < 0

OpcodeSize(first) == IF first < 128 THEN 1 ELSE IF first < 192 THEN 2 ELSE 4
Opcode(raw) == IF Len(raw) = 1 THEN raw[1] ELSE Unsigned(<<raw[1] % 64>> \o Tail(raw))

\* What is no instruction has no operands, less than none.
OperandCount(opcode) ==
  CASE opcode \in {0, 82, 288, 290, 297} -> 0
    [] opcode \in {32, 49, 80, 84, 257, 258, 260, 273, 289, 293, 294, 296, 320, 321, 377} \cup 112..115 -> 1
    [] opcode \in {21, 27, 81, 83, 259, 272, 295, 352, 368, 376} \cup 34..35 \cup 50..52 \cup 64..66
                  \cup 68..69 \cup 291..292 \cup 328..329 \cup 384..385 \cup 400..402 \cup 408..409
                  \cup 424..426 \cup 432..437 \cup 456..457 -> 2
    [] opcode \in {48, 256, 304, 353, 369, 427, 438} \cup 16..20 \cup 24..26 \cup 28..30 \cup 36..45
                  \cup 72..79 \cup 416..419 \cup 450..453 \cup 512..516 \cup 568..569 -> 3
    [] opcode \in {354, 420} \cup 448..449 \cup 520..521 \cup 536..538 \cup 544..549 -> 4
    [] opcode \in {355} \cup 562..565 -> 5
    [] opcode \in {539, 550} \cup 528..533 -> 6
    [] opcode \in {338} \cup 560..561 -> 7
    [] opcode \in 336..337 -> 8
    [] OTHER -> -1


DataSize(mode) ==
  CASE mode \in {0, 8} -> 0 [] mode \in {1, 5, 9, 13} -> 1 [] mode \in {2, 6, 10, 14} -> 2
    [] mode \in {3, 7, 11, 15} -> 4
InvalidModes == {4, 12}

Operand(mode, raw) ==
  CASE mode = 0             -> [kind |-> "zero"]
    [] mode \in {1, 2, 3}   -> [kind |-> "constant", value |-> Signed(raw)]
    [] mode \in {5, 6, 7}   -> [kind |-> "memory", value |-> Unsigned(raw)]
    [] mode = 8             -> [kind |-> "stack"]
    [] mode \in {9, 10, 11} -> [kind |-> "local", value |-> Unsigned(raw)]
    [] OTHER                -> [kind |-> "memory", value |-> RamStart + Unsigned(raw)]

(* The modes come first, two in a byte, the first in its low half.           *)
ModeBytes(count) == (count + 1) \div 2
Modes(raw, count) ==
  [k \in 1 .. count |-> IF k % 2 = 1 THEN raw[(k + 1) \div 2] % 16 ELSE raw[k \div 2] \div 16]

\* One operand more, if its bytes are there.
Operated(bytes, got, mode) ==
  {[next |-> o.next + DataSize(mode), list |-> Append(o.list, Operand(mode, Raw(bytes, o.next, DataSize(mode))))] :
     o \in {g \in got : mode \notin InvalidModes /\ g.next + DataSize(mode) <= Len(bytes)}}

Operands(bytes, at, modes) ==
  LET read[k \in 0 .. Len(modes)] ==
        IF k = 0 THEN {[next |-> at, list |-> <<>>]} ELSE Operated(bytes, read[k - 1], modes[k])
  IN  read[Len(modes)]

\* With `count` operands, the opcode having ended before `past`.
Described(bytes, at, past, opcode, count) ==
  {[address |-> at, next |-> o.next, opcode |-> opcode, operands |-> o.list] :
     o \in IF count < 0 \/ past + ModeBytes(count) > Len(bytes) THEN {}
           ELSE Operands(bytes, past + ModeBytes(count), Modes(Raw(bytes, past, ModeBytes(count)), count))}

After(bytes, at, past) ==
  IF past > Len(bytes) THEN {}
  ELSE UNION {Described(bytes, at, past, opcode, OperandCount(opcode)) : opcode \in {Opcode(Raw(bytes, at, past - at))}}

(* The instruction at an address, or none: its bytes end, it has no meaning. *)
Instruction(bytes, at) ==
  IF at \notin 0 .. Len(bytes) - 1 THEN {} ELSE After(bytes, at, at + OpcodeSize(bytes[at + 1]))

-----------------------------------------------------------------------------
(* The interpreter *)

Index(at) == at % DecodeCacheSize

\* What decode_at answers, from the cache if it has it.
Reading(at) ==
  LET held == {d \in decoded : d.address = at} IN
  IF at < RamStart /\ held # {} THEN held ELSE Instruction(program, at)

(* Mutant: an instruction is kept that starts in ROM and ends in RAM. *)
KeptLong(d) == d.address < RamStart
Kept(d) == d.address < RamStart /\ d.next <= RamStart

Counts == readings < MaxRead /\ readings' = readings + 1

DecodeAt ==
  \E at \in 0 .. Length :
    /\ decoded' = {d \in decoded : ~ \E new \in Reading(at) : Kept(new) /\ Index(d.address) = Index(at)}
                  \cup {new \in Reading(at) : Kept(new)}
    /\ Counts /\ UNCHANGED <<image, program>>

(* A story may write to its RAM, code or not. *)
StoreByte ==
  \E at \in RamStart .. Length - 1, b \in CodeBytes :
    program' = [program EXCEPT ![at + 1] = b] /\ Counts /\ UNCHANGED <<image, decoded>>

-----------------------------------------------------------------------------
(* The compiler *)

Destination(i, k) == i.operands[k].kind # "constant"

DirectInstruction(i) ==
  CASE i.opcode \in {0, 82} \cup {32} \cup 34..45 \cup 75..79 \cup 450..453 \cup 456..457
                    \cup 562..565 \cup 568..569 \cup {260, 272, 273} -> TRUE
    [] i.opcode \in {80, 258} -> Destination(i, 1)
    [] i.opcode \in {21, 27, 81, 400} \cup 64..66 \cup 68..69 \cup 408..409 -> Destination(i, 2)
    [] i.opcode \in 16..20 \cup 24..26 \cup 28..30 \cup 72..74 \cup 416..419 \cup {516} -> Destination(i, 3)
    [] i.opcode \in {512, 515} -> Destination(i, 2) /\ Destination(i, 3)
    [] i.opcode \in 520..521 -> Destination(i, 3) /\ Destination(i, 4)
    [] i.opcode \in 528..531 -> Destination(i, 5) /\ Destination(i, 6)
    [] OTHER -> FALSE

\* Which operand of a branch says where to.
BranchOffset(opcode) ==
  CASE opcode = 32                                            -> 1
    [] opcode \in 34..35 \cup 456..457                        -> 2
    [] opcode \in 36..45 \cup 450..453 \cup 568..569          -> 3
    [] opcode \in 562..565                                    -> 5
    [] OTHER                                                  -> 0
BranchOpcode(opcode) == BranchOffset(opcode) # 0

BlockTerminator(opcode) ==
  opcode \in {32, 257, 288, 290, 304} \cup 34..45 \cup 48..52 \cup 112..115 \cup 259..260 \cup 291..297
             \cup 352..355 \cup 368..369 \cup 376..385 \cup 448..453 \cup 456..457 \cup 560..565 \cup 568..569

\* The offsets 0 and 1 return.
StaticTarget(i) ==
  LET offset == i.operands[BranchOffset(i.opcode)] IN
  IF offset.kind = "constant" /\ offset.value \notin {0, 1} THEN {i.next + offset.value - 2} ELSE {}

Compilable(i) == DirectInstruction(i) /\ i.next <= RamStart

(* A branch back is followed, one ahead is not.                              *)
Successor(i, target, seen) ==
  LET candidate == IF i.opcode = 32 \/ Lower(target, i.address) THEN target ELSE i.next IN
  {c \in {candidate} : Lower(c, RamStart) /\ c \notin seen /\ \E n \in Instruction(image, c) : Compilable(n)}

Continuation(i, seen) ==
  IF BranchOpcode(i.opcode) THEN UNION {Successor(i, target, seen) : target \in StaticTarget(i)} ELSE {}

\* A trace goes on after `i`, which goes on within the trace at `onward`, if anywhere.
Taken(t, i, onward) ==
  [list |-> Append(t.list, [instruction |-> i, continuation |-> onward]), seen |-> t.seen \cup {i.address},
   cursor |-> IF onward # {} THEN onward
              ELSE IF BlockTerminator(i.opcode) \/ i.next <= i.address THEN {} ELSE {i.next}]

(* One step along a trace: it goes on at its cursor, or ends.                *)
Extended(t) ==
  LET found == {i \in UNION {Instruction(image, at) : at \in t.cursor \ t.seen} :
                  Lower(i.address, RamStart) /\ Compilable(i)} IN
  IF found = {} \/ Len(t.list) = MaxTraceInstructions THEN [t EXCEPT !.cursor = {}]
  ELSE CHOOSE u \in {Taken(t, i, Continuation(i, t.seen \cup {i.address})) : i \in found} : TRUE

CompileTrace(at) ==
  LET along[k \in 0 .. MaxTraceInstructions] ==
        IF k = 0 THEN [list |-> <<>>, seen |-> {}, cursor |-> {at}] ELSE Extended(along[k - 1])
  IN  along[MaxTraceInstructions].list

-----------------------------------------------------------------------------
DecoderInit ==
  /\ image \in Images /\ program = image
  /\ decoded = {} /\ readings = 0

DecoderNext == DecodeAt \/ StoreByte

DecoderSpec == DecoderInit /\ [][DecoderNext]_decoderVars

-----------------------------------------------------------------------------
(* Whatever a story wrote to its RAM, an instruction that the interpreter    *)
(* kept is the one that is there, and so is every instruction of a trace,    *)
(* which takes none twice and goes from one to the next as the interpreter   *)
(* could: past it, or to where it branches.                                  *)
IsThere(i) == i \in Instruction(program, i.address)

FollowsOn(i, next) == next = i.next \/ (BranchOpcode(i.opcode) /\ next \in StaticTarget(i))

DecodesWhatIsThere ==
  /\ \A d \in decoded : IsThere(d)
  /\ \A at \in 0 .. Length : \A trace \in {CompileTrace(at)} :
       /\ \A k \in DOMAIN trace : IsThere(trace[k].instruction)
       /\ \A j, k \in DOMAIN trace : trace[j].instruction.address = trace[k].instruction.address => j = k
       /\ \A k \in 1 .. Len(trace) - 1 : FollowsOn(trace[k].instruction, trace[k + 1].instruction.address)
=============================================================================
