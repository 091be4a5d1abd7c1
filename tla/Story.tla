--------------------------------- MODULE Story ---------------------------------
(***************************************************************************)
(* A story and its resources (src/src/story.rs, story/resources.rs).       *)
(*                                                                         *)
(* A story is an executable, alone or in an archive with its resources.    *)
(* Other resources may be attached to it, from an archive beside it, a     *)
(* chosen one or a directory of loose files, which becomes an archive.  The*)
(* index of the archive that is in force says where a resource's bytes are.*)
(*                                                                         *)
(* Abstracted: a file is a sequence of cells.  Two cells are a word of four*)
(* bytes, a tag or a number; others are the bytes of some data, of which it*)
(* matters how many there are.  What is not a number reads as one no file  *)
(* has room for.  The metadata is the title it gives, the executable's     *)
(* first 128 bytes are one cell, and Headers says what its header holds.   *)
(***************************************************************************)
EXTENDS Integers, Sequences, FiniteSets, SequencesExt

CONSTANTS
  Headers,                (* identity -> StoryHeader, in units of 0x100       *)
  Executables,            (* what may be opened: as Archives, or no chunks    *)
  Archives,               (* archives: their cells, and the chunks they hold  *)
  LooseFiles,             (* names and contents of loose files, sorted        *)
  MaxLoose,               (* files in a directory                             *)
  Siblings,               (* archives beside a raw story, with their suffixes *)
  MaxOpened               (* bound of the model                               *)

ASSUME StoryAssumption == {MaxLoose, MaxOpened} \subseteq Nat

VARIABLES
  story,                  \* Story, none before it is opened
  authored,               \* what its resources were made to be, if that is known
  opened                  \* bounded by MaxOpened

storyVars == <<story, authored, opened>>

-----------------------------------------------------------------------------
(* Cells *)

Rest == [kind |-> "rest"]
TagCells(t)    == <<[kind |-> "tag", tag |-> t], Rest>>
NumberCells(n) == <<[kind |-> "number", number |-> n], Rest>>
DataCells(d)   == <<[kind |-> "data", data |-> d]>>
WordSize == 2
HeaderSize == 2 * WordSize          \* of a chunk: its tag and its length

TooMuch == 1000000
TagAt(bytes, at) ==
  IF at + WordSize <= Len(bytes) /\ bytes[at + 1].kind = "tag" THEN bytes[at + 1].tag ELSE "none"
NumberAt(bytes, at) ==
  IF at + WordSize <= Len(bytes) /\ bytes[at + 1].kind = "number" THEN bytes[at + 1].number ELSE TooMuch
Part(bytes, start, end) == SubSeq(bytes, start + 1, end)

-----------------------------------------------------------------------------
(* Archives.  What cannot be read is no element of a set of at most one.     *)

Padded(next, length) == next + (length % 2)

\* The chunks from here on, each from its tag to its end.
RECURSIVE ChunksFrom(_, _, _)
ChunksFrom(bytes, at, end) ==
  IF at = end THEN {<<>>}
  ELSE LET length == NumberAt(bytes, at + WordSize)
           next   == at + HeaderSize + length
       IN  IF at + HeaderSize > end \/ next > end THEN {}
           ELSE {<<<<at, next>>>> \o rest : rest \in ChunksFrom(bytes, Padded(next, length), end)}

FormEnd(bytes) == NumberAt(bytes, WordSize) + HeaderSize

BlorbChunks(bytes) ==
  IF Len(bytes) < 3 * WordSize \/ TagAt(bytes, 0) # "FORM" \/ TagAt(bytes, HeaderSize) # "IFRS"
     \/ FormEnd(bytes) > Len(bytes) \/ FormEnd(bytes) < 3 * WordSize
  THEN {}
  ELSE ChunksFrom(bytes, 3 * WordSize, FormEnd(bytes))

Entry(bytes, at) ==
  [key |-> <<TagAt(bytes, at), NumberAt(bytes, at + WordSize)>>, offset |-> NumberAt(bytes, at + 2 * WordSize)]
EntrySize == 3 * WordSize

IndexEntries(bytes, chunk) ==
  [k \in 1 .. NumberAt(bytes, chunk[1] + HeaderSize) |->
     Entry(bytes, chunk[1] + HeaderSize + WordSize + (k - 1) * EntrySize)]

(* The first chunk is the only index; it fills its chunk, its offsets are    *)
(* those of chunks, and no resource has two.                                 *)
ResourceIndex(bytes) ==
  UNION {
    LET index == SelectSeq(chunks, LAMBDA c : TagAt(bytes, c[1]) = "RIdx") IN
    IF chunks = <<>> \/ Len(index) # 1 \/ TagAt(bytes, chunks[1][1]) # "RIdx"
       \/ chunks[1][2] - chunks[1][1] # HeaderSize + WordSize + NumberAt(bytes, chunks[1][1] + HeaderSize) * EntrySize
    THEN {}
    ELSE LET entries == IndexEntries(bytes, chunks[1])
             At(e) == {c \in ToSet(chunks) : c[1] = e.offset}
         IN  IF (\E k \in DOMAIN entries : At(entries[k]) = {})
                \/ \E j, k \in DOMAIN entries : j # k /\ entries[j].key = entries[k].key
             THEN {}
             ELSE {[key \in {entries[k].key : k \in DOMAIN entries} |->
                      LET e == CHOOSE e \in ToSet(entries) : e.key = key
                          c == CHOOSE c \in At(e) : TRUE
                      IN  <<c[1] + HeaderSize, c[2]>>]}
    : chunks \in BlorbChunks(bytes)}

\* The data of the first chunk with a tag.
ChunkData(bytes, tag) ==
  UNION {LET found == SelectSeq(chunks, LAMBDA c : TagAt(bytes, c[1]) = tag)
         IN  IF found = <<>> THEN {} ELSE {Part(bytes, found[1][1] + HeaderSize, found[1][2])}
         : chunks \in BlorbChunks(bytes)}

GlulRange(bytes) ==
  UNION {IF <<"Exec", 0>> \in DOMAIN index
         THEN {r \in {index[<<"Exec", 0>>]} : TagAt(bytes, r[1] - HeaderSize) = "GLUL"}
         ELSE UNION {LET found == SelectSeq(chunks, LAMBDA c : TagAt(bytes, c[1]) = "GLUL")
                     IN  IF found = <<>> THEN {} ELSE {<<found[1][1] + HeaderSize, found[1][2]>>}
                     : chunks \in BlorbChunks(bytes)}
         : index \in ResourceIndex(bytes)}

ExecutableTags == {"GLUL", "ZCOD", "TAD2", "TAD3", "HUGO", "ALAN", "ADRI", "LEVE", "AGT ", "MAGS", "ADVS", "EXEC"}
HasExecutable(bytes) ==
  \/ \E index \in ResourceIndex(bytes) : \E key \in DOMAIN index : key[1] = "Exec"
  \/ \E chunks \in BlorbChunks(bytes) : \E k \in DOMAIN chunks : TagAt(bytes, chunks[k][1]) \in ExecutableTags

\* At most one identity, as long as one is, and this story's.
Identified(bytes, image) ==
  \E chunks \in BlorbChunks(bytes) :
    LET identities == SelectSeq(chunks, LAMBDA c : TagAt(bytes, c[1]) = "IFhd") IN
    /\ Len(identities) <= 1
    /\ \A k \in DOMAIN identities :
         Part(bytes, identities[k][1] + HeaderSize, identities[k][2]) = SubSeq(image, 1, 1)

-----------------------------------------------------------------------------
(* Stories *)

\* What StoryHeader::validate accepts of an image.
Valid(image) ==
  /\ image # <<>> /\ image[1].kind = "data" /\ image[1].data \in DOMAIN Headers
  /\ LET h == Headers[image[1].data] IN
     /\ h.version /\ h.checksum
     /\ 1 <= h.ram_start /\ h.ram_start <= h.ext_start /\ h.ext_start <= h.end_mem
     /\ h.ext_start = Len(image) /\ h.start_func < h.ext_start

ActiveContainer(s) ==
  IF s.external_resources # {} THEN {e.bytes : e \in s.external_resources} ELSE s.container

MetadataTitle(s) ==
  {data[1].data : data \in {d \in UNION {ChunkData(bytes, "IFmd") : bytes \in ActiveContainer(s)} :
                              d # <<>> /\ d[1].kind = "data"}}
Titled(s, otherwise) ==
  [s EXCEPT !.title = IF MetadataTitle(s) = {} THEN otherwise ELSE CHOOSE t \in MetadataTitle(s) : TRUE]

\* A story of these bytes, if they are one.
FromBytes(bytes, title) ==
  LET blorb  == TagAt(bytes, 0) = "FORM"
      images == IF blorb THEN {Part(bytes, r[1], r[2]) : r \in GlulRange(bytes)} ELSE {bytes}
      tables == IF blorb THEN ResourceIndex(bytes) ELSE {<<>>}
  IN  {Titled([title |-> title, image |-> image, container |-> IF blorb THEN {bytes} ELSE {},
               external_resources |-> {}, resources |-> index, path |-> {}], title) :
         image \in {i \in images : Valid(i) /\ (~ blorb \/ Identified(bytes, i))}, index \in tables}

OriginalTitle(s) ==
  IF s.external_resources = {} THEN s.title
  ELSE CHOOSE t \in {e.original_title : e \in s.external_resources} : TRUE

(* Mutant: the title the resources gave is taken for the story's own. *)
AttachBlorbOverTitle(s, bytes, path) ==
  {Titled([s EXCEPT !.external_resources = {[path |-> path, bytes |-> bytes, original_title |-> s.title]},
                    !.resources = index], s.title) :
     index \in {i \in ResourceIndex(bytes) : ~ HasExecutable(bytes) /\ Identified(bytes, s.image)}}
\* The story with an archive attached, if it may be.
AttachBlorb(s, bytes, path) ==
  {Titled([s EXCEPT !.external_resources =
                      {[path |-> path, bytes |-> bytes, original_title |-> OriginalTitle(s)]},
                    !.resources = index], OriginalTitle(s)) :
     index \in {i \in ResourceIndex(bytes) : ~ HasExecutable(bytes) /\ Identified(bytes, s.image)}}

(* A session keeps the bytes and not the index.                              *)
ValidatedSessionStory(s) ==
  LET bytes == IF s.container = {} THEN s.image ELSE CHOOSE b \in s.container : TRUE
      bare  == {[new EXCEPT !.path = s.path] : new \in FromBytes(bytes, OriginalTitle(s))}
  IN  IF s.external_resources = {} THEN bare
      ELSE UNION {UNION {AttachBlorb(new, e.bytes, e.path) : e \in s.external_resources} : new \in bare}

-----------------------------------------------------------------------------
(* What a story asks for *)

ResourceType(s, key) ==
  IF key \notin DOMAIN s.resources THEN {}
  ELSE {TagAt(bytes, s.resources[key][1] - HeaderSize) : bytes \in ActiveContainer(s)}

Resource(s, key) ==
  IF key \notin DOMAIN s.resources THEN {}
  ELSE {Part(bytes, s.resources[key][1], s.resources[key][2]) : bytes \in ActiveContainer(s)}

\* A file that is a form has its header before it.
ResourceFile(s, key) ==
  IF ResourceType(s, key) # {"FORM"} THEN Resource(s, key)
  ELSE {Part(bytes, s.resources[key][1] - HeaderSize, s.resources[key][2]) : bytes \in ActiveContainer(s)}

Cover(s) ==
  UNION {Resource(s, <<"Pict", NumberAt(data, 0)>>) :
           data \in UNION {ChunkData(bytes, "Fspc") : bytes \in ActiveContainer(s)}}

ResourcePath(s) ==
  IF s.external_resources # {} THEN UNION {e.path : e \in s.external_resources}
  ELSE IF s.container # {} THEN s.path ELSE {}

-----------------------------------------------------------------------------
(* Loose files *)

MetadataTags ==
  [stem \in {"IDENT", "FRONTIS", "RESDESC", "METADATA", "PALETTE", "RELEASE", "RESOL", "ADAPTPAL", "LOOPING"} |->
     CASE stem = "IDENT" -> "IFhd" [] stem = "FRONTIS" -> "Fspc" [] stem = "RESDESC" -> "RDes"
       [] stem = "METADATA" -> "IFmd" [] stem = "PALETTE" -> "Plte" [] stem = "RELEASE" -> "RelN"
       [] stem = "RESOL" -> "Reso" [] stem = "ADAPTPAL" -> "APal" [] stem = "LOOPING" -> "Loop"]
Usages == [stem \in {"PIC", "SND", "DATA"} |->
             CASE stem = "PIC" -> "Pict" [] stem = "SND" -> "Snd " [] stem = "DATA" -> "Data"]

\* The files a directory is searched for; a number is one of `number`, if it has digits.
Resourceful(f) == f.stem \in DOMAIN MetadataTags \cup {"STORY"} \/ (f.stem \in DOMAIN Usages /\ f.number # {})

\* What an extension says, or, without one, how the file starts.
Formats ==
  [PIC  |-> {<<"png", "PNG ">>, <<"jpg", "JPEG">>, <<"jpeg", "JPEG">>},
   SND  |-> {<<"aif", "FORM">>, <<"aiff", "FORM">>, <<"ogg", "OGGV">>, <<"mp3", "MP3 ">>, <<"mod", "MOD ">>,
             <<"xm", "MOD ">>, <<"s3m", "MOD ">>, <<"it", "MOD ">>, <<"song", "SONG">>},
   DATA |-> {<<"txt", "TEXT">>, <<"", "BINA">>, <<"bin", "BINA">>, <<"bina", "BINA">>, <<"form", "FORM">>,
             <<"iff", "FORM">>}]
Starts == [PIC |-> {"PNG ", "JPEG"}, SND |-> {"FORM", "OGGV", "MP3 ", "MOD "}, DATA |-> {}]
LooseFormat(f) ==
  {format[2] : format \in {x \in Formats[f.stem] : x[1] = f.extension}}
  \cup (IF f.extension = "" THEN {f.starts} \cap Starts[f.stem] ELSE {})

WholeForm(f) ==
  /\ Len(f.cells) >= 3 * WordSize /\ TagAt(f.cells, 0) = "FORM"
  /\ NumberAt(f.cells, WordSize) = Len(f.cells) - HeaderSize
  /\ f.stem = "SND" => TagAt(f.cells, HeaderSize) = "AIFF"

\* The chunk of a file, if it may be one.
LooseKind(f) ==
  IF f.stem = "STORY" THEN {}
  ELSE IF f.stem \in DOMAIN MetadataTags
       THEN {[tag |-> tag, key |-> {}] :
               tag \in {t \in {MetadataTags[f.stem]} :
                          f.extension \in {"", "bin"} \/ (t = "IFmd" /\ f.extension = "xml")}}
       ELSE {[tag |-> tag, key |-> {<<Usages[f.stem], n>>}] :
               n \in f.number, tag \in {t \in LooseFormat(f) : t = "FORM" => WholeForm(f)}}

LooseChunk(f, kind) ==
  [tag |-> kind.tag, key |-> kind.key,
   data |-> IF kind.tag = "FORM" THEN SubSeq(f.cells, HeaderSize + 1, Len(f.cells)) ELSE f.cells]

ChunkCells(c) ==
  TagCells(c.tag) \o NumberCells(Len(c.data)) \o c.data \o (IF Len(c.data) % 2 = 0 THEN <<>> ELSE DataCells("pad"))

\* An archive: its index and its chunks, each where the index says.
Archive(chunks) ==
  LET indexed   == SelectSeq([k \in DOMAIN chunks |-> [chunks[k] EXCEPT !.data = <<k>>]], LAMBDA c : c.key # {})
      indexSize == WordSize + EntrySize * Len(indexed)
      bodies    == [k \in DOMAIN chunks |-> ChunkCells(chunks[k])]
      Offset(k) == 3 * WordSize + HeaderSize + indexSize + Len(FlattenSeq(SubSeq(bodies, 1, k - 1)))
      entries   == [k \in DOMAIN indexed |->
                      LET key == CHOOSE key \in indexed[k].key : TRUE
                      IN  TagCells(key[1]) \o NumberCells(key[2]) \o NumberCells(Offset(indexed[k].data[1]))]
      content   == TagCells("IFRS") \o TagCells("RIdx") \o NumberCells(indexSize) \o NumberCells(Len(indexed))
                   \o FlattenSeq(entries) \o FlattenSeq(bodies)
  IN  TagCells("FORM") \o NumberCells(Len(content)) \o content

\* What a directory's files become; a kind of metadata occurs once.
DirectoryResources(files) ==
  LET named == SelectSeq(files, Resourceful)
      kinds == [k \in DOMAIN named |-> LooseKind(named[k])]
      KindOf(k) == CHOOSE kind \in kinds[k] : TRUE
  IN  IF \/ \E k \in DOMAIN named : kinds[k] = {}
         \/ \E j, k \in DOMAIN named : j # k /\ KindOf(j).key = {} /\ KindOf(j) = KindOf(k)
      THEN {}
      ELSE {Archive([k \in DOMAIN named |-> LooseChunk(named[k], KindOf(k))])}

-----------------------------------------------------------------------------
(* Authors *)

\* The file a resource is, its type, and the story's title and cover.
Meaning(chunks, own, path) ==
  [files |-> UNION {{[key |-> key, tag |-> c.tag,
                      cells |-> IF c.tag = "FORM" THEN TagCells("FORM") \o NumberCells(Len(c.data)) \o c.data ELSE c.data] :
                        key \in c.key} : c \in ToSet(chunks)},
   title |-> LET titles == {c.data[1].data : c \in {d \in ToSet(chunks) : d.tag = "IFmd"}}
             IN  IF titles = {} THEN own ELSE CHOOSE t \in titles : TRUE,
   cover |-> {<<"Pict", NumberAt(c.data, 0)>> : c \in {d \in ToSet(chunks) : d.tag = "Fspc"}},
   own |-> own, path |-> path, known |-> TRUE]

LooseMeaning(files, own) ==
  LET named == SelectSeq(files, Resourceful)
      titles == {f.cells[1].data : f \in {g \in ToSet(named) : g.stem = "METADATA"}}
  IN  [files |-> UNION {{[key |-> <<Usages[f.stem], n>>, tag |-> t, cells |-> f.cells] :
                           n \in f.number, t \in LooseFormat(f)} :
                          f \in {g \in ToSet(named) : g.stem \in DOMAIN Usages}},
       title |-> IF titles = {} THEN own ELSE CHOOSE t \in titles : TRUE,
       cover |-> {<<"Pict", NumberAt(f.cells, 0)>> : f \in {g \in ToSet(named) : g.stem = "FRONTIS"}},
       own |-> own, path |-> {"directory"}, known |-> TRUE]

\* Archives that are damaged: cut, or with a number that is another.
Damaged(bytes) ==
  {SubSeq(bytes, 1, Len(bytes) - 1)}
  \cup {[bytes EXCEPT ![k].number = @ + d] : k \in {j \in DOMAIN bytes : bytes[j].kind = "number"}, d \in {-1, 1, 2}}

-----------------------------------------------------------------------------
StoryInit == story = {} /\ authored = {} /\ opened = 0

Opens == opened < MaxOpened /\ opened' = opened + 1

(* open_with_resources: an archive beside a raw story is taken by its suffix,*)
(* unless two have the same one.                                             *)
Discovered(beside) ==
  LET first == {a \in beside : \A b \in beside : a.suffix <= b.suffix} IN
  IF Cardinality(first) > 1 THEN [ok |-> FALSE, archive |-> {}] ELSE [ok |-> TRUE, archive |-> first]

OpenStory ==
  \E e \in Executables, beside \in SUBSET Siblings :
    LET base     == {[s EXCEPT !.path = {"story"}] : s \in FromBytes(e.bytes, "stem")}
        meant    == Meaning(e.chunks, "stem", IF e.chunks = <<>> THEN {} ELSE {"story"})
        own      == [meant EXCEPT !.own = meant.title]
        found    == IF e.chunks = <<>> THEN Discovered(beside) ELSE [ok |-> TRUE, archive |-> {}]
        complete == UNION {IF found.archive = {} THEN {s}
                           ELSE UNION {AttachBlorb(s, a.bytes, {a.suffix}) : a \in found.archive}
                           : s \in base}
    IN  /\ found.ok /\ complete # {} /\ Opens
        /\ story' = complete
        /\ authored' = IF found.archive = {} THEN {own}
                       ELSE {Meaning(a.chunks, own.own, {a.suffix}) : a \in found.archive}

\* A refused archive changes nothing.
Attaches(bytes, path, meaning) ==
  \E s \in story : \E attached \in {AttachBlorb(s, bytes, path)} :
    IF attached = {} THEN UNCHANGED storyVars
    ELSE Opens /\ story' = attached /\ authored' = meaning

Own == {m.own : m \in authored}

AttachArchive ==
  \E a \in Archives : \E own \in Own :
    Attaches(a.bytes, {"archive"}, {Meaning(a.chunks, own, {"archive"})})

AttachDirectory ==
  \E files \in {x \in SUBSET DOMAIN LooseFiles : Cardinality(x) <= MaxLoose} : \E own \in Own :
    LET sorted == [k \in 1 .. Cardinality(files) |-> LooseFiles[SetToSortSeq(files, <)[k]]] IN
    \E bytes \in DirectoryResources(sorted) :
      Attaches(bytes, {"directory"}, {LooseMeaning(sorted, own)})

AttachDamaged ==
  \E a \in Archives : \E bytes \in Damaged(a.bytes) :
    Attaches(bytes, {"archive"}, {[m EXCEPT !.known = FALSE] : m \in authored})

StoryNext == opened < MaxOpened /\ (OpenStory \/ AttachArchive \/ AttachDirectory \/ AttachDamaged)

-----------------------------------------------------------------------------
\* The index is the active archive's, whole chunks of it, also where that is damaged.
Indexed(s) ==
  \A key \in DOMAIN s.resources : \A bytes \in ActiveContainer(s) :
    /\ HeaderSize <= s.resources[key][1] /\ s.resources[key][1] <= s.resources[key][2]
    /\ s.resources[key][2] <= Len(bytes)
    /\ \E chunks \in BlorbChunks(bytes) : <<s.resources[key][1] - HeaderSize, s.resources[key][2]>> \in ToSet(chunks)

AsMeant(s, meant) ==
  /\ DOMAIN s.resources = {f.key : f \in meant.files}
  /\ \A f \in meant.files : ResourceFile(s, f.key) = {f.cells} /\ ResourceType(s, f.key) = {f.tag}
  /\ s.title = meant.title /\ ResourcePath(s) = meant.path
  /\ Cover(s) = {f.cells : f \in {g \in meant.files : g.key \in meant.cover}}

(* A story finds the resources that were put into the archive or directory   *)
(* attached last, every one the file that it was, under the title they give  *)
(* or its own; a refused archive changes nothing; a damaged one that is      *)
(* accepted is never read outside; and a session that is restored has the    *)
(* same story (story.rs:303-345, 357-375, 481-590).                          *)
ResourcesAreTheirs ==
  \A s \in story :
    /\ Indexed(s)
    /\ \A meant \in authored : meant.known => AsMeant(s, meant)
    /\ ValidatedSessionStory([s EXCEPT !.resources = <<>>]) = {s}
=============================================================================
