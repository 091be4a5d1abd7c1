------------------------------ MODULE Streams ------------------------------
(***************************************************************************)
(* Memory and file streams, and what they share with the windows: the      *)
(* identifiers, the current stream and the echo streams.  Translated from  *)
(* src/src/vm/streams.rs and the stream selectors of Vm::glk.              *)
(* All streams of one file share its contents in memory; each keeps a mark *)
(* of its own.  A file is known by its node, not by its path: the system   *)
(* module below keeps which path leads to which node and what each node    *)
(* holds.  Contents reach the file when a stream is closed, when the story *)
(* stops and when a session is saved.                                      *)
(* A value is one byte of a file or one place of a buffer: the encodings   *)
(* only scale positions.  What a story prints to a window that waits for a *)
(* line is dropped, which is no step here.                                 *)
(***************************************************************************)
EXTENDS Windows, SequencesExt

CONSTANTS Paths, Nodes,   \* names of files, and the files of the system
          StartLinks,     \* the files there are at first: path -> node, or none
          None,
          Values,         \* what a story writes
          Lengths,        \* the lengths of the buffers of memory streams
          Offsets,        \* the offsets a story seeks
          Strays,         \* files may be gone, or go, from the paths of a resumed session
          StreamLimit,    \* bound: streams have no larger identifier
          ByteLimit       \* bound: files are no longer

ASSUME StreamsAssumption ==
  /\ StartLinks \subseteq [Paths -> Nodes \cup {None}] /\ None \notin Nodes
  /\ Lengths \subseteq Nat /\ Offsets \subseteq Int
  /\ StreamLimit \in Nat /\ ByteLimit \in Nat

VARIABLES contents,   \* the shared contents of open files
          links, disk

fileVars == <<contents, links, disk>>

Modes == {"write", "read", "update", "append"}

IsFile(s)   == s \in DOMAIN streams /\ streams[s].kind = "file"
IsMemory(s) == s \in DOMAIN streams /\ streams[s].kind = "memory"
FileStreams == {s \in DOMAIN streams : IsFile(s)}

MemoryStream(mode, length) ==
  [kind |-> "memory", window |-> 0, mode |-> mode, length |-> length, position |-> 0,
   extent |-> IF mode = "write" THEN 0 ELSE length]

FileStream(mode, path, node, shared, position) ==
  [kind |-> "file", window |-> 0, mode |-> mode, path |-> path, identity |-> node,
   shared |-> shared, position |-> position]

(* Contents no stream refers to are dropped with the last reference. *)
Held(st) == {st[s].shared : s \in {t \in DOMAIN st : st[t].kind = "file"}}

FileInit ==
  /\ contents = <<>>
  /\ links \in StartLinks
  /\ disk = [n \in Range(links) \ {None} |-> <<1>>]

-----------------------------------------------------------------------------
(* The file system: opening a path finds its node or makes one. *)
FreshNode == CHOOSE n \in Nodes : n \notin DOMAIN disk

CanMake == DOMAIN disk # Nodes

NodeOf(path) == IF links[path] = None THEN FreshNode ELSE links[path]

Opened(path, bytes) ==
  /\ links' = [links EXCEPT ![path] = NodeOf(path)]
  /\ disk' = With(disk, NodeOf(path), bytes)

Stored(path) == IF links[path] = None THEN <<>> ELSE disk[links[path]]

(* Contents to be written, now or later, but without an open file: a       *)
(* session was resumed and nothing was flushed since.                      *)
Unbound(s) == /\ contents[streams[s].shared].out = None
              /\ \/ contents[streams[s].shared].dirty
                 \/ \E t \in FileStreams : /\ streams[t].shared = streams[s].shared
                                            /\ streams[t].mode # "read"

Delete(path) ==
  /\ links[path] # None
  /\ Strays \/ \A s \in FileStreams : Unbound(s) => streams[s].path # path
  /\ links' = [links EXCEPT ![path] = None]
  /\ UNCHANGED <<winVars, contents, disk>>

-----------------------------------------------------------------------------
(* open_file_stream.  The system opens, creates and truncates the file     *)
(* first; then streams of the same node are looked for.                    *)
\* Mutant: streams are compared by their paths.
SharingByPath(node) ==
  {streams[s].shared : s \in {t \in FileStreams : links[streams[t].path] = node}}

Sharing(node) == {streams[s].shared : s \in {t \in FileStreams : streams[t].identity = node}}

NewId == CHOOSE c \in 1 .. StreamLimit : c \notin DOMAIN contents

SharedAs(node) == IF Sharing(node) = {} THEN NewId ELSE CHOOSE c \in Sharing(node) : TRUE

Joined(c, node, mode) ==
  [bytes |-> IF mode = "write" THEN <<>> ELSE contents[c].bytes,
   dirty |-> mode # "write" /\ contents[c].dirty,
   out   |-> IF mode = "read" THEN contents[c].out ELSE node]

Loaded(path, node, mode) ==
  [bytes |-> IF mode = "write" THEN <<>> ELSE Stored(path), dirty |-> FALSE,
   out   |-> IF mode = "read" THEN None ELSE node]

OpenFile(path, mode) ==
  /\ next_stream <= StreamLimit
  /\ links[path] = None => mode # "read" /\ CanMake
  /\ LET node == NodeOf(path)
         c    == SharedAs(node)
         new  == IF Sharing(node) = {} THEN Loaded(path, node, mode) ELSE Joined(c, node, mode)
     IN  /\ Opened(path, IF mode = "write" THEN <<>> ELSE Stored(path))
         /\ contents' = With(contents, c, new)
         /\ AddStream(FileStream(mode, path, node, c, IF mode = "append" THEN Len(new.bytes) ELSE 0))
  /\ UNCHANGED <<windows, root, next_window, viewport, current_stream, canvases>>

OpenMemory(mode, length) ==
  /\ next_stream <= StreamLimit
  /\ AddStream(MemoryStream(mode, length))
  /\ UNCHANGED <<windows, root, next_window, viewport, current_stream, canvases, fileVars>>

-----------------------------------------------------------------------------
(* flush: dirty contents go to the file they were opened for writing with, *)
(* or else to the one at the stream's path, which is made when missing.    *)
FlushOne(c, path) ==
  LET node == IF contents[c].out = None THEN NodeOf(path) ELSE contents[c].out
  IN  /\ contents' = [contents EXCEPT ![c].dirty = FALSE, ![c].out = node]
      /\ disk' = With(disk, node, contents[c].bytes)
      /\ links' = IF contents[c].out = None THEN [links EXCEPT ![path] = node] ELSE links

NeedsFlush(s) == contents[streams[s].shared].dirty

CanFlush(s) == \/ contents[streams[s].shared].out # None
               \/ links[streams[s].path] # None \/ CanMake

(* flush_streams meets the streams in the order of their identifiers and   *)
(* stops at the first that fails; one step here is one stream.             *)
Flush(s) ==
  /\ IsFile(s)
  /\ NeedsFlush(s)
  /\ CanFlush(s)
  /\ \A t \in FileStreams : t < s => ~NeedsFlush(t)
  /\ FlushOne(streams[s].shared, streams[s].path)
  /\ UNCHANGED winVars

(* close_stream: references are dropped first, and an error of the flush   *)
(* is ignored.                                                             *)
Detached(s) ==
  /\ s \in DOMAIN streams
  /\ streams[s].kind # "window"
  /\ streams' = Restrict(streams, DOMAIN streams \ {s})
  /\ current_stream' = IF current_stream = s THEN 0 ELSE current_stream
  /\ windows' = [i \in DOMAIN windows |->
                   [windows[i] EXCEPT !.echo = IF @ = s THEN 0 ELSE @]]
  /\ UNCHANGED <<root, next_window, viewport, next_stream, canvases>>

CloseMemory(s) == Detached(s) /\ IsMemory(s) /\ UNCHANGED fileVars

CloseFile(s) ==
  /\ IsFile(s)
  /\ Detached(s)
  /\ LET c    == streams[s].shared
         node == IF contents[c].out = None THEN NodeOf(streams[s].path) ELSE contents[c].out
     IN  /\ NeedsFlush(s) => CanFlush(s)
         /\ contents' = [d \in DOMAIN contents \cap Held(streams') |->
                           IF d = c /\ NeedsFlush(s)
                           THEN [contents[d] EXCEPT !.dirty = FALSE, !.out = node]
                           ELSE contents[d]]
         /\ disk' = IF NeedsFlush(s) THEN With(disk, node, contents[c].bytes) ELSE disk
         /\ links' = IF NeedsFlush(s) /\ contents[c].out = None
                     THEN [links EXCEPT ![streams[s].path] = node] ELSE links

(* The file cannot be written; other streams may still try again. *)
CloseFileFails(s) ==
  /\ IsFile(s)
  /\ NeedsFlush(s)
  /\ Detached(s)
  /\ contents' = Restrict(contents, Held(streams'))
  /\ UNCHANGED <<links, disk>>

-----------------------------------------------------------------------------
(* glk_write_char: a window passes what it shows on to its echo stream.    *)
EndOf(s) ==
  LET end[t \in DOMAIN streams \cup {0}] ==
        IF t = 0 \/ streams[t].kind # "window" THEN t ELSE end[EchoOf(windows, streams, t)]
  IN  end[s]

Overwritten(bytes, position, v) ==
  [i \in 1 .. Max({Len(bytes), position + 1}) |->
     IF i = position + 1 THEN v ELSE IF i <= Len(bytes) THEN bytes[i] ELSE 0]

WriteMemory(s, v) ==
  /\ IsMemory(s)
  /\ streams[s].mode # "read"
  /\ streams[s].position < streams[s].length
  /\ streams' = [streams EXCEPT ![s].position = @ + 1,
                                ![s].extent = Max({@, streams[s].position + 1})]
  /\ UNCHANGED <<windows, root, next_window, viewport, next_stream, current_stream, canvases, fileVars>>

WriteFile(s, v) ==
  /\ IsFile(s)
  /\ streams[s].mode # "read"
  /\ streams[s].position < ByteLimit
  /\ LET c == streams[s].shared
     IN  contents' = [contents EXCEPT ![c].bytes = Overwritten(@, streams[s].position, v),
                                      ![c].dirty = TRUE]
  /\ streams' = [streams EXCEPT ![s].position = @ + 1]
  /\ UNCHANGED <<windows, root, next_window, viewport, next_stream, current_stream, canvases,
                 links, disk>>

Put(s, v) == WriteMemory(EndOf(s), v) \/ WriteFile(EndOf(s), v)

(* read_value and read_stream_value: what is read moves the mark. *)
ReadFile(s) ==
  /\ IsFile(s)
  /\ streams[s].mode \in {"read", "update"}
  /\ streams[s].position < Len(contents[streams[s].shared].bytes)
  /\ streams' = [streams EXCEPT ![s].position = @ + 1]
  /\ UNCHANGED <<windows, root, next_window, viewport, next_stream, current_stream, canvases, fileVars>>

ReadMemory(s) ==
  /\ IsMemory(s)
  /\ streams[s].mode \in {"read", "update"}
  /\ streams[s].position < streams[s].length
  /\ streams' = [streams EXCEPT ![s].position = @ + 1]
  /\ UNCHANGED <<windows, root, next_window, viewport, next_stream, current_stream, canvases, fileVars>>

ReadValue(s) == ReadFile(s) \/ ReadMemory(s)

Clamped(at, length) == Max({0, Min({at, length})})

Seek(s, offset, from) ==
  /\ IsFile(s) \/ IsMemory(s)
  /\ LET length == IF IsFile(s) THEN Len(contents[streams[s].shared].bytes) ELSE streams[s].extent
         base   == CASE from = "start" -> 0 [] from = "mark" -> streams[s].position
                     [] from = "end" -> length
     IN  streams' = [streams EXCEPT ![s].position = Clamped(base + offset, length)]
  /\ UNCHANGED <<windows, root, next_window, viewport, next_stream, current_stream, canvases, fileVars>>

-----------------------------------------------------------------------------
(* A session is saved and resumed in a new process.  Every stream of it    *)
(* brings a copy of its contents; restore_file_streams joins those whose   *)
(* paths lead to one file, and refuses the session when they differ.       *)
Target(s) == LET path == streams[s].path
             IN  IF links[path] = None THEN path ELSE links[path]

Copy(s) == [bytes |-> contents[streams[s].shared].bytes, dirty |-> contents[streams[s].shared].dirty,
            out |-> None]

SessionAccepted == \A s, t \in FileStreams : Target(s) = Target(t) => Copy(s) = Copy(t)

Lead(s) == CHOOSE t \in FileStreams : /\ Target(t) = Target(s)
                                      /\ \A u \in FileStreams : Target(u) = Target(s) => t <= u

\* Mutant: the contents are read again from the files.
ResumeReads ==
  /\ FileStreams # {}
  /\ SessionAccepted
  /\ Strays \/ \A s \in FileStreams : links[streams[s].path] = streams[s].identity
  /\ contents' = [c \in {Lead(s) : s \in FileStreams} |->
                    [out |-> None, dirty |-> FALSE, bytes |-> disk[links[streams[c].path]]]]
  /\ streams' = [s \in DOMAIN streams |->
                   IF IsFile(s) THEN [streams[s] EXCEPT !.shared = Lead(s), !.identity = Target(s)]
                   ELSE streams[s]]
  /\ UNCHANGED <<windows, root, next_window, viewport, next_stream, current_stream, canvases,
                 links, disk>>

Resume ==
  /\ FileStreams # {}
  /\ SessionAccepted
  /\ Strays \/ \A s \in FileStreams : links[streams[s].path] = streams[s].identity
  /\ contents' = [c \in {Lead(s) : s \in FileStreams} |-> Copy(c)]
  /\ streams' = [s \in DOMAIN streams |->
                   IF IsFile(s) THEN [streams[s] EXCEPT !.shared = Lead(s), !.identity = Target(s)]
                   ELSE streams[s]]
  /\ UNCHANGED <<windows, root, next_window, viewport, next_stream, current_stream, canvases,
                 links, disk>>

FileNext ==
  \/ \E path \in Paths, mode \in Modes : OpenFile(path, mode)
  \/ \E path \in Paths : Delete(path)
  \/ \E s \in FileStreams : Flush(s) \/ CloseFile(s) \/ CloseFileFails(s)
  \/ Resume

MarkNext ==
  \/ \E mode \in Modes \ {"append"}, length \in Lengths : OpenMemory(mode, length)
  \/ \E s \in DOMAIN streams : CloseMemory(s)
  \/ \E s \in DOMAIN streams \cup {current_stream}, v \in Values : Put(s, v)
  \/ \E s \in DOMAIN streams : ReadValue(s)
  \/ \E s \in DOMAIN streams, offset \in Offsets, from \in {"start", "mark", "end"} : Seek(s, offset, from)

(* A story does what it likes with its windows, files and buffers.         *)
StreamsInit == WinInit /\ FileInit

StreamsNext == \/ (TreeNext \/ LayoutNext \/ EchoNext) /\ UNCHANGED fileVars
               \/ FileNext
               \/ MarkNext

StreamsSpec == StreamsInit /\ [][StreamsNext]_<<winVars, fileVars>>

-----------------------------------------------------------------------------
(* All open streams of one file share its contents, and streams of         *)
(* different files share nothing, whatever the paths they were opened by   *)
(* lead to by now: aliases, files deleted and made again, and sessions     *)
(* that brought a copy of the contents for every stream.                   *)
OneContents ==
  \A s, t \in FileStreams :
     (streams[s].identity = streams[t].identity) <=> (streams[s].shared = streams[t].shared)

(* Contents that are not marked dirty are in their file: nothing a story   *)
(* wrote is left behind when streams share, truncate, close or fail to     *)
(* close, since only dirty contents are written.                           *)
CleanOnDisk ==
  \A s \in FileStreams :
    LET c    == contents[streams[s].shared]
        node == IF c.out = None THEN streams[s].identity ELSE c.out
    IN  (~c.dirty /\ node \in Nodes) => disk[node] = c.bytes

(* A mark never leaves what a memory stream has written or was given: the  *)
(* extent never passes the buffer, nor the mark the extent.                *)
MarksInside ==
  \A s \in DOMAIN streams : streams[s].kind = "memory" =>
     /\ streams[s].position \in 0 .. streams[s].extent
     /\ streams[s].extent <= streams[s].length

(* What streams, files and buffers hold of each other agrees.              *)
FilesAgree == OneContents /\ CleanOnDisk /\ MarksInside

(* Resuming a session keeps what every stream of it reads and where its    *)
(* mark is, and streams that shared their contents still do.               *)
ResumedAsSaved ==
  [][Resume => \A s, t \in FileStreams :
       /\ contents'[streams'[s].shared].bytes = contents[streams[s].shared].bytes
       /\ streams'[s].position = streams[s].position
       /\ (streams[s].shared = streams[t].shared /\ streams[s].path = streams[t].path)
            => streams'[s].shared = streams'[t].shared]_<<winVars, fileVars>>
=============================================================================
