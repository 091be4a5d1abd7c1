------------------------------ MODULE Acceleration ------------------------------
(***************************************************************************)
(* The library functions the interpreter replaces by its own               *)
(* (src/src/vm/acceleration.rs): what an object is, what it provides, and  *)
(* where its properties are.                                               *)
(*                                                                         *)
(* An object is an address with the words a function reads of it; a table  *)
(* of properties is a sequence of entries, sorted by number; a property is *)
(* the table and the place of its entry.  Looked up    *)
(* properties of tables in ROM are kept.  What an error prints is left     *)
(* out: all of them answer 0.                                              *)
(***************************************************************************)
EXTENDS Integers, Sequences, FiniteSets, FiniteSetsExt, SequencesExt

CONSTANTS
  TypeByte,      (* the first byte of everything in memory that is asked about *)
  InRam,         (* those of them, and of the tables, that are in RAM          *)
  Words,         (* the words of the objects when the story begins             *)
  TableImage,    (* the tables when the story begins                           *)
  Straddling,    (* tables that begin in ROM and end in RAM                    *)
  TableValues,   (* what the story may make of a table                         *)
  Changing,      (* objects that get other tables                              *)
  Lists,         (* the words a property points to                             *)
  ClassTable,    (* the classes by number, at parameters[0]                    *)
  Defaults,      (* the values of properties nobody has, at parameters[8]      *)
  Parameters,    (* the parameters the story sets before it registers          *)
  NewParameters, (* <<index, value>> it may set later                          *)
  CodeByte,      (* the first byte at the addresses it may register            *)
  Registered,    (* the functions it may register them for                     *)
  Numbers,       (* numbers of properties that are asked for                   *)
  Half,          (* 2^16: a number below is a property's, above a class counts *)
  Slot,          (* where the cache keeps a property                           *)
  PROPERTY_CACHE_SIZE

VARIABLES
  functions,     \* the functions registered
  parameters,
  property_cache,
  words, entries, self,  \* memory: words of objects, tables, the object in whose name code runs
  failed         \* the story was stopped by an error

accelVars == <<functions, parameters, property_cache, words, entries, self, failed>>

Supported(index) == index \in 1 .. 13

Class == parameters[2]
First == parameters[1]

Questions == DOMAIN TypeByte \cup {0}
Ids == Numbers \cup {i + Half * p : i \in DOMAIN ClassTable, p \in Numbers \ {0}}
Arguments(index) == IF index \in {5, 11} THEN Questions ELSE Ids

-----------------------------------------------------------------------------
(* Reading memory *)

Accel_region(a) ==
  CASE a \notin DOMAIN TypeByte -> 0
    [] TypeByte[a] \in 224 .. 255 -> 3
    [] TypeByte[a] \in 192 .. 223 -> 2
    [] TypeByte[a] \in 112 .. 127 /\ a \in InRam -> 1
    [] OTHER -> 0

\* The word of the table is behind the attributes, which old functions take to be seven bytes; the class is next.
Table_word(modern) == IF modern THEN 3 + parameters[7] \div 4 ELSE 4

Accel_in_class(a) == a \in DOMAIN words /\ words[a][(13 + parameters[7]) \div 4] = Class

\* The entry the binary search arrives at.
Search(es, id) ==
  LET f[low \in 0 .. Len(es), high \in 0 .. Len(es)] ==
        LET middle == low + (high - low) \div 2 IN
        CASE low >= high -> 0
          [] es[middle + 1].id < id -> f[middle + 1, high]
          [] es[middle + 1].id > id -> f[low, middle]
          [] OTHER -> middle + 1
  IN f[0, Len(es)]

Empty == [s \in 0 .. PROPERTY_CACHE_SIZE - 1 |-> <<>>]

\* Mutant: a kept property is recognized by its place in the cache.
CacheGetAny(c, key) == c[Slot[key]] # <<>>

CacheGet(c, key) == c[Slot[key]] # <<>> /\ c[Slot[key]].key = key

NoProperty == <<0, 0>>

Found(table, id) ==
  IF Search(entries[table], id) = 0 THEN NoProperty ELSE <<table, Search(entries[table], id)>>

\* A property, and the cache once it was looked up.
Looked_up(c, table, key, found) ==
  CASE table = 0 -> [property |-> NoProperty, cache |-> c]
    [] table \in InRam -> [property |-> found, cache |-> c]
    [] CacheGet(c, key) -> [property |-> c[Slot[key]].value, cache |-> c]
    [] OTHER -> [property |-> found, cache |-> [c EXCEPT ![Slot[key]] = [key |-> key, value |-> found]]]

Accel_property_table_unchecked(c, obj, id, modern) ==
  LET table == words[obj][Table_word(modern)] IN
  Looked_up(c, table, <<table, id % Half, modern>>, Found(table, id % Half))

Accel_property_table(c, obj, id, modern) ==
  IF Accel_region(obj) # 1 THEN [property |-> NoProperty, cache |-> c]
  ELSE Accel_property_table_unchecked(c, obj, id, modern)

Entry(property) == entries[property[1]][property[2]]

Hidden(obj, property) == self # obj /\ Entry(property).private

-----------------------------------------------------------------------------
(* The functions: an answer, and the cache afterwards *)

Answer(value, c) == [value |-> value, cache |-> c]

Inherits(property, obj, class) ==
  /\ property # NoProperty
  /\ ~ (Accel_in_class(obj) /\ (2 < First \/ 2 >= First + 8))
  /\ ~ Hidden(obj, property)
  /\ Entry(property).address # 0
  /\ Contains(SubSeq(Lists[Entry(property).address], 1, Entry(property).length), class)

Inheritance(p, obj, class) == Answer(Inherits(p.property, obj, class), p.cache)

Accel_ofclass(c, obj, class, modern) ==
  LET is_class == Accel_in_class(obj) \/ obj \in {parameters[i] : i \in 2 .. 5}
  IN CASE Accel_region(obj) = 3 -> Answer(class = parameters[5], c)
       [] Accel_region(obj) = 2 -> Answer(class = parameters[4], c)
       [] Accel_region(obj) = 0 -> Answer(FALSE, c)
       [] class = parameters[2] -> Answer(is_class, c)
       [] class = parameters[3] -> Answer(~ is_class, c)
       [] class \in {parameters[4], parameters[5]} \/ ~ Accel_in_class(class) -> Answer(FALSE, c)
       [] OTHER -> Inheritance(Accel_property_table_unchecked(c, obj, 2, modern), obj, class)

\* A property that was looked up, if the story may have it of its owner.
Granted(p, owner, number, class) ==
  CASE p.property = NoProperty -> Answer(NoProperty, p.cache)
    [] Accel_in_class(owner) /\ class = 0 /\ (number < First \/ number >= First + 8) -> Answer(NoProperty, p.cache)
    [] Hidden(owner, p.property) -> Answer(NoProperty, p.cache)
    [] OTHER -> Answer(p.property, p.cache)

Class_property(of, class, number, modern) ==
  IF ~ of.value THEN Answer(NoProperty, of.cache)
  ELSE Granted(Accel_property_table(of.cache, class, number, modern), class, number, class)

\* A number with a class asks for the property as the class has it, of an object of the class.
Accel_property(c, obj, id, modern) ==
  IF id < Half THEN Granted(Accel_property_table(c, obj, id, modern), obj, id, 0)
  ELSE LET class == ClassTable[id % Half] IN
       Class_property(Accel_ofclass(c, obj, class, modern), class, id \div Half, modern)

AddressOf(p) == Answer(IF p.value = NoProperty THEN 0 ELSE Entry(p.value).address, p.cache)
LengthOfProperty(p) == Answer(IF p.value = NoProperty THEN 0 ELSE 4 * Entry(p.value).length, p.cache)

Accel_property_address(c, obj, id, modern) == AddressOf(Accel_property(c, obj, id, modern))

Accel_property_length(c, obj, id, modern) == LengthOfProperty(Accel_property(c, obj, id, modern))

ValueAt(a, id) ==
  CASE a.value # 0 -> Answer(Lists[a.value][1], a.cache)
    [] id > 0 /\ id < First -> Answer(Defaults[id], a.cache)
    [] OTHER -> Answer(0, a.cache)

Accel_property_value(c, obj, id, modern) == ValueAt(Accel_property_address(c, obj, id, modern), id)

IsThere(a) == Answer(a.value # 0, a.cache)

Accel_provides(c, obj, id, modern) ==
  CASE Accel_region(obj) = 3 -> Answer(id \in {First + 6, First + 7}, c)
    [] Accel_region(obj) = 2 -> Answer(id = First + 5, c)
    [] Accel_region(obj) = 0 -> Answer(FALSE, c)
    [] id >= First /\ id < First + 8 /\ Accel_in_class(obj) -> Answer(TRUE, c)
    [] OTHER -> IsThere(Accel_property_address(c, obj, id, modern))

Accelerate(c, index, obj, id) ==
  LET modern == index >= 8 IN
  CASE index = 1 -> Answer(Accel_region(obj), c)
    [] index \in {2, 8} -> LET p == Accel_property_table(c, obj, id, modern) IN Answer(p.property, p.cache)
    [] index \in {3, 9} -> Accel_property_address(c, obj, id, modern)
    [] index \in {4, 10} -> Accel_property_length(c, obj, id, modern)
    [] index \in {5, 11} -> Accel_ofclass(c, obj, id, modern)
    [] index \in {6, 12} -> Accel_property_value(c, obj, id, modern)
    [] index \in {7, 13} -> Accel_provides(c, obj, id, modern)

-----------------------------------------------------------------------------
(* The story *)

Set_acceleration(index, address) ==
  LET left == [a \in DOMAIN functions \ {address} |-> functions[a]] IN
  /\ functions' = IF Supported(index) /\ CodeByte[address] \in {192, 193}
                  THEN (address :> index) @@ left ELSE left
  /\ failed' = (Supported(index) /\ CodeByte[address] \notin {192, 193})
  /\ UNCHANGED <<parameters, property_cache, words, entries, self>>

Set_parameter(index, value) ==
  /\ parameters' = [i \in DOMAIN parameters |-> IF i = index THEN value ELSE parameters[i]]
  /\ UNCHANGED <<functions, property_cache, words, entries, self, failed>>

\* A call of a registered function; any other is the story's own.
Call_accelerated(address, obj, id) ==
  /\ address \in DOMAIN functions
  /\ property_cache' = Accelerate(property_cache, functions[address], obj, id).cache
  /\ UNCHANGED <<functions, parameters, words, entries, self, failed>>

WriteTable(table, value) ==
  /\ table \in InRam \cup Straddling
  /\ entries' = [entries EXCEPT ![table] = value]
  /\ UNCHANGED <<functions, parameters, property_cache, words, self, failed>>

\* The object gets another table.
WriteObject(obj, table) ==
  /\ obj \in InRam
  /\ words' = [words EXCEPT ![obj] = [@ EXCEPT ![Table_word(TRUE)] = table]]
  /\ UNCHANGED <<functions, parameters, property_cache, entries, self, failed>>

WriteSelf(obj) ==
  /\ self' = obj
  /\ UNCHANGED <<functions, parameters, property_cache, words, entries, failed>>

\* restart, and undo to the beginning: memory is the image's again, registrations stay.
RestartMemory ==
  /\ words' = Words /\ entries' = TableImage /\ self' = 0
  /\ UNCHANGED <<functions, parameters, property_cache, failed>>

\* A stored session is resumed: it holds everything but the cache.
ResumeAcceleration ==
  /\ property_cache' = Empty
  /\ UNCHANGED <<functions, parameters, words, entries, self, failed>>

AccelerationInit ==
  /\ functions = << >> /\ parameters = Parameters /\ property_cache = Empty
  /\ words = Words /\ entries = TableImage /\ self = 0 /\ failed = FALSE

AccelerationNext ==
  /\ ~ failed
  /\ \/ \E index \in Registered, address \in DOMAIN CodeByte : Set_acceleration(index, address)
     \/ \E new \in NewParameters : Set_parameter(new[1], new[2])
     \/ \E address \in DOMAIN functions, obj \in Questions :
          \E id \in Arguments(functions[address]) : Call_accelerated(address, obj, id)
     \/ \E table \in DOMAIN entries, value \in TableValues : WriteTable(table, value)
     \/ \E obj \in Changing, table \in DOMAIN entries : WriteObject(obj, table)
     \/ \E obj \in DOMAIN words \ Changing : WriteSelf(obj)
     \/ RestartMemory \/ ResumeAcceleration

-----------------------------------------------------------------------------
(* Properties *)

\* The places of the entries of a property in the table of an object, as memory is now.
Places(obj, number, modern) ==
  LET table == words[obj][Table_word(modern)] IN
  IF Accel_region(obj) # 1 \/ table = 0 THEN {}
  ELSE {<<table, i>> : i \in {k \in DOMAIN entries[table] : entries[table][k].id = number}}

Individual(number) == number \in First .. First + 7

\* Properties code running in the name of self may see of an object.
Visible(obj, number, modern) == {p \in Places(obj, number, modern) : Entry(p).private => self = obj}

IsOf(obj, class, modern) ==
  LET kind == Accel_region(obj)
      is_class == Accel_in_class(obj) \/ obj \in {parameters[i] : i \in 2 .. 5}
  IN \/ kind = 3 /\ class = parameters[5]
     \/ kind = 2 /\ class = parameters[4]
     \/ kind = 1 /\ class = parameters[2] /\ is_class
     \/ kind = 1 /\ class = parameters[3] /\ class # parameters[2] /\ ~ is_class
     \/ /\ kind = 1 /\ class \notin {parameters[i] : i \in 2 .. 5} /\ Accel_in_class(class)
        /\ Accel_in_class(obj) => Individual(2)
        /\ \E p \in Visible(obj, 2, modern) :
             /\ Entry(p).address # 0
             /\ \E i \in 1 .. Entry(p).length : Lists[Entry(p).address][i] = class

Has(obj, id, modern) ==
  IF id >= Half
  THEN {p \in Visible(ClassTable[id % Half], id \div Half, modern) : IsOf(obj, ClassTable[id % Half], modern)}
  ELSE {p \in Visible(obj, id, modern) : Accel_in_class(obj) => Individual(id)}

Address(obj, id, modern) == Max({0} \cup {Entry(p).address : p \in Has(obj, id, modern)})

Truth(index, obj, id) ==
  LET modern == index >= 8 IN
  CASE index = 1 -> Accel_region(obj)
    [] index \in {2, 8} -> LET ps == Places(obj, id % Half, modern) IN IF ps = {} THEN NoProperty ELSE CHOOSE p \in ps : TRUE
    [] index \in {3, 9} -> Address(obj, id, modern)
    [] index \in {4, 10} -> Max({0} \cup {4 * Entry(p).length : p \in Has(obj, id, modern)})
    [] index \in {5, 11} -> IsOf(obj, id, modern)
    [] index \in {6, 12} -> CASE Address(obj, id, modern) # 0 -> Lists[Address(obj, id, modern)][1]
                              [] id \in 1 .. First - 1 -> Defaults[id]
                              [] OTHER -> 0
    [] index \in {7, 13} -> \/ Accel_region(obj) = 3 /\ id \in {First + 6, First + 7}
                            \/ Accel_region(obj) = 2 /\ id = First + 5
                            \/ /\ Accel_region(obj) = 1
                               /\ Address(obj, id, modern) # 0 \/ (Accel_in_class(obj) /\ Individual(id))

(* Whatever was asked and kept before, an accelerated function answers what  *)
(* a walk through the tables, as they are in memory now, would find; and     *)
(* only functions are replaced.                                              *)
AnswersAreTrue ==
  /\ DOMAIN functions \subseteq {a \in DOMAIN CodeByte : CodeByte[a] \in {192, 193}}
  /\ \A index \in Range(functions), obj \in Questions :
       \A id \in Arguments(index) : Accelerate(property_cache, index, obj, id).value = Truth(index, obj, id)
================================================================================
