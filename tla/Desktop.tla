-------------------------------- MODULE Desktop --------------------------------
(***************************************************************************)
(* The frames of the desktop application (src/src/app.rs) and the workers  *)
(* they do not wait for (src/src/app/media.rs).                            *)
(*                                                                         *)
(* A frame installs a story that was loaded, lets the machine run until it *)
(* shows something, takes the user's input, draws and publishes.  Stories  *)
(* are loaded by a worker with a mailbox for one of them, the newest;      *)
(* pictures are decoded by another, and drawing waits for it, so that what *)
(* is drawn stays in order.  Between frames the screen keeps the last one. *)
(*                                                                         *)
(* Abstracted: a story's text, by how often it changed; one window with a  *)
(* canvas, as the sequence of what was drawn.  A field that may be empty is*)
(* a set of one element or none.  A worker that cannot be started or dies  *)
(* is left out.                                                            *)
(***************************************************************************)
EXTENDS Queues, FiniteSetsExt, SequencesExt

CONSTANTS
  Pictures,               (* resources of every story; their pictures differ   *)
  BadPictures,            (* those that cannot be decoded                      *)
  ImageQueueCapacity,     (* IMAGE_QUEUE_CAPACITY: 2                           *)
  CacheSize,              (* graphics_cache_mib, in pictures                   *)
  Restyles,               (* whether the user changes fonts or colours         *)
  MaxLoads, MaxText, MaxDrawn, MaxRevision, MaxAgain   (* bounds of the model  *)

ASSUME DesktopAssumption ==
  /\ BadPictures \subseteq Pictures /\ Restyles \in BOOLEAN
  /\ ImageQueueCapacity \in Nat \ {0}
  /\ {CacheSize, MaxLoads, MaxText, MaxDrawn, MaxRevision, MaxAgain} \subseteq Nat

VARIABLES
  latest, mailbox, shut,        \* StoryLoadWorker: the atomic, and the queue under its lock
  loader, loaded,               \* its thread, and the channel of its results
  submitting, pending_story,    \* the interface: the request under way, the one it waits for
  machine,                      \* Vm
  image_tasks, image_held, image_done,   \* ImageDecodeWorker: its queue, its thread, its results
  media,                        \* PlayerApp: what is to be drawn, and the canvas
  presented,                    \* PlayerApp: what the screen shows
  frame, slice,                 \* where the frame is; the revision its slice began with
  drawn, again,                 \* bounded by MaxDrawn and MaxAgain
  meant, wholes                 \* the canvas the story means; its text where it could be shown

loadVars == <<latest, mailbox, shut, loader, loaded, submitting, pending_story>>
imageVars == <<image_tasks, image_held, image_done>>
screenVars == <<media, presented>>
ghostVars == <<meant, wholes>>
deskVars == <<loadVars, machine, imageVars, screenVars, frame, slice, drawn, again, ghostVars>>

NoStory == 0

NewMachine(story) ==
  [story |-> story, state |-> "run", revision |-> 0, pending |-> FALSE, selects |-> FALSE,
   text |-> 0, graphics |-> <<>>]

\* No canvas, no picture, no text.
NoCanvas == {}
NewMedia == [requests |-> <<>>, image |-> {}, results |-> {}, cache |-> <<>>, canvas |-> NoCanvas, dirty |-> FALSE]
NothingShown == [revision |-> 0, state |-> "run", text |-> -1, canvas |-> NoCanvas]

LoaderInit ==
  /\ latest = 0 /\ mailbox = {} /\ shut = FALSE /\ submitting = {}
  /\ loader = [phase |-> "wait"] /\ loaded = <<>>

(* The application as it is made: no story, no pictures, nothing shown. *)
DesktopInit ==
  /\ LoaderInit /\ pending_story = {}
  /\ machine = NewMachine(NoStory)
  /\ image_tasks = <<>> /\ image_held = <<>> /\ image_done = <<>>
  /\ media = NewMedia /\ presented = NothingShown
  /\ frame = "poll" /\ slice = 0 /\ drawn = 0 /\ again = 0
  /\ meant = NoCanvas /\ wholes = {}

-----------------------------------------------------------------------------
(* Loading a story *)

(* submit, before it has the lock.  Stories are numbered from one. *)
Submit ==
  /\ frame = "input" /\ submitting = {} /\ latest < MaxLoads
  /\ latest' = latest + 1 /\ submitting' = {latest + 1}
  /\ UNCHANGED <<mailbox, shut, loader, loaded, pending_story, machine, imageVars, screenVars,
                 frame, slice, drawn, again, ghostVars>>

Stopped(m) == [m EXCEPT !.state = "halt"]

(* submit, under the lock: the task replaces the one that waits. *)
Mailed == mailbox' = submitting /\ submitting' = {}

(* load_story_with_resources: the story that runs is stopped where it is.    *)
Enqueue ==
  /\ submitting # {}
  /\ Mailed /\ pending_story' = submitting
  /\ machine' = IF machine.story = NoStory THEN machine ELSE Stopped(machine)
  /\ wholes' = wholes \cup {machine.text}
  /\ UNCHANGED <<latest, shut, loader, loaded, imageVars, screenVars, frame, slice, drawn, again, meant>>

LoaderGoes(state) ==
  /\ loader' = state
  /\ UNCHANGED <<latest, shut, submitting, pending_story, machine, imageVars, screenVars,
                 frame, slice, drawn, again, ghostVars>>

LoaderTakes ==
  /\ loader.phase = "wait" /\ mailbox # {}
  /\ LoaderGoes([phase |-> "taken", id |-> CHOOSE id \in mailbox : TRUE])
  /\ mailbox' = {} /\ UNCHANGED loaded

LoaderLeaves ==
  /\ loader.phase = "wait" /\ mailbox = {} /\ shut
  /\ LoaderGoes([phase |-> "gone"]) /\ UNCHANGED <<mailbox, loaded>>

(* A request that is not the newest is dropped. *)
Wanted(id) == latest = id

LoaderOpens ==
  /\ loader.phase = "taken"
  /\ IF Wanted(loader.id)
     THEN \E ok \in BOOLEAN : LoaderGoes([phase |-> "opened", id |-> loader.id, ok |-> ok])
     ELSE LoaderGoes([phase |-> "wait"])
  /\ UNCHANGED <<mailbox, loaded>>

LoaderCompares ==
  /\ loader.phase = "opened"
  /\ LoaderGoes(IF Wanted(loader.id) THEN [loader EXCEPT !.phase = "sends"] ELSE [phase |-> "wait"])
  /\ UNCHANGED <<mailbox, loaded>>

LoaderSends ==
  /\ loader.phase = "sends"
  /\ LoaderGoes([phase |-> IF shut THEN "gone" ELSE "wait"])
  /\ loaded' = IF shut THEN loaded ELSE Append(loaded, [id |-> loader.id, ok |-> loader.ok])
  /\ UNCHANGED mailbox

Loader == LoaderTakes \/ LoaderLeaves \/ LoaderOpens \/ LoaderCompares \/ LoaderSends

(* Mutant: a story is installed whoever asked for it. *)
InstalledAny(s, result) ==
  [s EXCEPT !.pending = {}, !.story = IF result.ok THEN result.id ELSE @]

(* poll_story_loader: results nobody waits for are dropped. *)
Installed(s, result) ==
  IF s.pending # {result.id} THEN s
  ELSE [s EXCEPT !.pending = {}, !.story = IF result.ok THEN result.id ELSE @]

AllInstalled(s, results) ==
  LET upto[k \in 0 .. Len(results)] == IF k = 0 THEN s ELSE Installed(upto[k - 1], results[k])
  IN  upto[Len(results)]

(* install_story forgets the old story's canvas, screen and pictures. *)
PollLoader ==
  LET s == AllInstalled([pending |-> pending_story, story |-> machine.story], loaded) IN
  /\ frame = "poll" /\ frame' = "run"
  /\ loaded' = <<>> /\ pending_story' = s.pending
  /\ IF s.story = machine.story THEN UNCHANGED <<machine, screenVars, ghostVars>>
     ELSE /\ machine' = NewMachine(s.story)
          /\ media' = NewMedia /\ presented' = NothingShown
          /\ meant' = NoCanvas /\ wholes' = {}
  /\ UNCHANGED <<latest, mailbox, shut, loader, submitting, imageVars, slice, drawn, again>>

-----------------------------------------------------------------------------
(* run_vm: one slice of the machine *)

(* set_text_appearance and set_text_metrics count as something to show.  An  *)
(* event that came completes a select, in whatever state the machine is.     *)
BeginSlice ==
  /\ frame = "run"
  /\ IF machine.story = NoStory
     THEN frame' = "input" /\ UNCHANGED <<machine, slice>>
     ELSE \E restyled \in {FALSE, Restyles}, woken \in {FALSE, machine.selects} :
            LET revision == machine.revision + (IF restyled THEN 1 ELSE 0) IN
            /\ revision <= MaxRevision
            /\ slice' = revision /\ frame' = "slice"
            /\ machine' = [machine EXCEPT !.revision = revision, !.selects = @ /\ ~ woken,
                                          !.state = IF woken THEN "run" ELSE @]
  /\ UNCHANGED <<loadVars, imageVars, screenVars, drawn, again, ghostVars>>

(* run_vm_slice and run_presentation_steps: the story goes on while nothing  *)
(* is to be shown and the time of the slice is not over.                     *)
MayRun == machine.state = "run" /\ machine.revision = slice

StoryDoes(m) ==
  /\ frame = "slice" /\ MayRun
  /\ machine' = m
  /\ UNCHANGED <<loadVars, imageVars, screenVars, frame, slice>>

(* Output changes a window; only the next boundary shows it. *)
Prints ==
  /\ machine.text < MaxText
  /\ StoryDoes([machine EXCEPT !.text = @ + 1, !.pending = TRUE])
  /\ UNCHANGED <<drawn, again, ghostVars>>

(* What a request does to a canvas: a window opened or given a size, closed, *)
(* cleared, a rectangle filled, or a picture.                                *)
Rectangle == [resource |-> 0, story |-> NoStory]
Ensured(canvas) == IF canvas = NoCanvas THEN {<<>>} ELSE canvas
Marked(canvas, mark) == {Append(c, mark) : c \in Ensured(canvas)}

Painted(canvas, q) ==
  CASE q.kind = "resize" -> Ensured(canvas)
    [] q.kind = "close" -> NoCanvas
    [] q.kind = "clear" -> {<<>>}
    [] q.kind = "fill" -> Marked(canvas, Rectangle)

\* The picture itself; one that cannot be decoded leaves nothing.
Picture(q) == [resource |-> q.resource, story |-> q.story]
Meaning(canvas, q) ==
  IF q.kind # "draw" THEN Painted(canvas, q)
  ELSE IF q.resource \in BadPictures THEN canvas ELSE Marked(canvas, Picture(q))

\* What requests mean, one after the other.
AllMean(canvas, requests) ==
  LET upto[k \in 0 .. Len(requests)] == IF k = 0 THEN canvas ELSE Meaning(upto[k - 1], requests[k])
  IN  upto[Len(requests)]

Requests == [kind : {"resize", "close", "clear", "fill"}]
              \cup {[kind |-> "draw", resource |-> r, story |-> machine.story] : r \in Pictures}

Draws(q) ==
  /\ drawn < MaxDrawn /\ drawn' = drawn + 1
  /\ StoryDoes([machine EXCEPT !.graphics = Append(@, q), !.pending = TRUE])
  /\ meant' = Meaning(meant, q)
  /\ UNCHANGED <<again, wholes>>

Boundary == wholes' = wholes \cup {machine.text}

(* select_event; an event may be there already. *)
Selects ==
  /\ machine.revision < MaxRevision
  /\ \E waits \in BOOLEAN :
       StoryDoes([machine EXCEPT !.revision = @ + 1, !.pending = FALSE, !.selects = waits,
                                 !.state = IF waits THEN "wait" ELSE "run"])
  /\ Boundary /\ UNCHANGED <<drawn, again, meant>>

(* select_poll shows what came since the last boundary, if anything did. *)
Polls ==
  /\ machine.pending /\ machine.revision < MaxRevision
  /\ StoryDoes([machine EXCEPT !.revision = @ + 1, !.pending = FALSE])
  /\ Boundary /\ UNCHANGED <<drawn, again, meant>>

(* A file prompt, and the end of the story. *)
Prompts ==
  /\ StoryDoes([machine EXCEPT !.state = "file", !.pending = TRUE])
  /\ Boundary /\ UNCHANGED <<drawn, again, meant>>

Quits == StoryDoes(Stopped(machine)) /\ Boundary /\ UNCHANGED <<drawn, again, meant>>

(* restart forgets neither windows nor what is to be drawn in them. *)
Restarted(m) ==
  [m EXCEPT !.state = "run", !.revision = 0, !.pending = TRUE, !.selects = FALSE]

RestartsItself ==
  /\ again < MaxAgain /\ again' = again + 1
  /\ StoryDoes(Restarted(machine))
  /\ Boundary /\ UNCHANGED <<drawn, meant>>

EndSlice ==
  /\ frame = "slice" /\ frame' = "input"
  /\ UNCHANGED <<loadVars, machine, imageVars, screenVars, slice, drawn, again, ghostVars>>

-----------------------------------------------------------------------------
(* The user *)

(* provide_input, provide_key and the others. *)
Answers ==
  /\ frame = "input" /\ submitting = {} /\ machine.state \in {"wait", "file"}
  /\ machine' = [machine EXCEPT !.state = "run", !.selects = FALSE]
  /\ UNCHANGED <<loadVars, imageVars, screenVars, frame, slice, drawn, again, ghostVars>>

(* Mutant: a restart leaves the drawing of the picture that is decoded. *)
ClearedImageKept(m) == [NewMedia EXCEPT !.image = m.image]

(* clear_media and the canvases; the worker goes on with what it has. *)
Cleared(m) == NewMedia

(* restart_story *)
RestartStory ==
  /\ frame = "input" /\ submitting = {} /\ machine.story # NoStory
  /\ again < MaxAgain /\ again' = again + 1
  /\ machine' = Restarted(machine)
  /\ media' = Cleared(media) /\ presented' = NothingShown
  /\ meant' = AllMean(NoCanvas, machine.graphics)
  /\ UNCHANGED <<loadVars, imageVars, frame, slice, drawn, wholes>>

Looks ==
  /\ frame = "input" /\ submitting = {}
  /\ frame' = "view"
  /\ UNCHANGED <<loadVars, machine, imageVars, screenVars, slice, drawn, again, ghostVars>>

(* The application is closed: the worker is told, and nobody waits for it.   *)
Closes ==
  /\ frame = "input" /\ submitting = {}
  /\ frame' = "closed" /\ shut' = TRUE /\ mailbox' = {}
  /\ UNCHANGED <<latest, loader, loaded, submitting, pending_story, machine, imageVars,
                 screenVars, slice, drawn, again, ghostVars>>

-----------------------------------------------------------------------------
(* The worker that decodes pictures *)
ImageTakes ==
  /\ image_held = <<>> /\ image_tasks # <<>>
  /\ image_held' = <<Head(image_tasks)>> /\ image_tasks' = Tail(image_tasks)
  /\ UNCHANGED <<loadVars, machine, image_done, screenVars, frame, slice, drawn, again, ghostVars>>

ImageSends ==
  /\ image_held # <<>> /\ Len(image_done) < ImageQueueCapacity
  /\ image_done' = image_done \o image_held /\ image_held' = <<>>
  /\ UNCHANGED <<loadVars, machine, image_tasks, screenVars, frame, slice, drawn, again, ghostVars>>

-----------------------------------------------------------------------------
(* poll_graphics *)

(* The cache is kept in order of use; a picture is drawn even if it does not *)
(* stay in it.                                                               *)
Used(cache, picture) == Append(Retain(cache, {k \in DOMAIN cache : cache[k] # picture}), picture)
Trimmed(cache) == IF Len(cache) <= CacheSize THEN cache
                  ELSE SubSeq(cache, Len(cache) - CacheSize + 1, Len(cache))

Applied(m, picture) ==
  [m EXCEPT !.canvas = Marked(@, picture), !.dirty = TRUE, !.cache = Trimmed(Used(@, picture))]

(* apply_draw_request with what was decoded. *)
AppliedResult(m, task) ==
  IF task.resource \in BadPictures THEN m ELSE Applied(m, Picture(task))

(* One request.  "waits" once the worker has to be waited for. *)
Handled(s, q) ==
  LET cached == {k \in DOMAIN s.media.cache : s.media.cache[k].resource = q.resource}
      task == [id |-> s.next, resource |-> q.resource, story |-> q.story]
      later == [s EXCEPT !.waits = TRUE, !.media.requests = Append(@, q)]
  IN  IF s.waits THEN later
      ELSE IF q.kind # "draw"
           THEN [s EXCEPT !.media.canvas = Painted(@, q), !.media.dirty = TRUE]
      ELSE IF cached # {} THEN [s EXCEPT !.media = Applied(@, @.cache[Min(cached)])]
      ELSE IF Len(s.tasks) >= ImageQueueCapacity THEN later
      ELSE [s EXCEPT !.waits = TRUE, !.tasks = Append(@, task),
                     !.media.image = {[id |-> s.next, request |-> q]}]

\* next_image's numbers are never used again; the model's only not while a
\* task or a result has them.
NextImage(results) ==
  LET taken == {t.id : t \in results \cup ToSet(image_tasks \o image_held)}
  IN  Min(0..Cardinality(taken) \ taken)

AllHandled(s, requests) ==
  LET upto[k \in 0 .. Len(requests)] == IF k = 0 THEN s ELSE Handled(upto[k - 1], requests[k])
  IN  upto[Len(requests)]

HandledAll(m, tasks, requests) ==
  AllHandled([media |-> [m EXCEPT !.requests = <<>>], tasks |-> tasks,
              next |-> NextImage(m.results), waits |-> FALSE], requests)

Graphics(arrived) ==
  LET results == media.results \cup ToSet(arrived)
      requests == media.requests \o machine.graphics
      answers == {r \in results : \E p \in media.image : p.id = r.id}
      m == [media EXCEPT !.results = results]
  IN  IF media.image # {} /\ answers = {}
      THEN [media |-> [m EXCEPT !.requests = requests], tasks |-> image_tasks]
      ELSE LET first == IF media.image = {} THEN m
                        ELSE LET r == CHOOSE a \in answers : TRUE
                             IN  AppliedResult([m EXCEPT !.results = @ \ {r}, !.image = {}], r)
           IN  HandledAll(first, image_tasks, requests)

(* What the worker sends while the machine collects is taken, too.           *)
Collecting(arrived) ==
  /\ image_done' = <<>>
  /\ \/ arrived = image_done /\ UNCHANGED image_held
     \/ /\ image_held # <<>> /\ Len(image_done) = ImageQueueCapacity
        /\ arrived = image_done \o image_held /\ image_held' = <<>>

(* publish_story: the screen changes when the machine has got to a boundary  *)
(* since, or waits otherwise than then.                                      *)
Stale == machine.revision # presented.revision
           \/ (machine.state # "run" /\ machine.state # presented.state)

Published(m) ==
  [revision |-> machine.revision, state |-> machine.state, text |-> machine.text,
   canvas |-> IF machine.text # presented.text \/ m.dirty THEN m.canvas ELSE presented.canvas]

View ==
  /\ frame = "view" /\ frame' = "poll"
  /\ IF machine.story = NoStory
     THEN UNCHANGED <<machine, imageVars, screenVars>>
     ELSE \E arrived \in {image_done, image_done \o image_held} : Collecting(arrived) /\
            \E s \in {Graphics(arrived)} :
              /\ image_tasks' = s.tasks
              /\ machine' = [machine EXCEPT !.graphics = <<>>]
              /\ IF Stale THEN presented' = Published(s.media) /\ media' = [s.media EXCEPT !.dirty = FALSE]
                 ELSE media' = s.media /\ UNCHANGED presented
  /\ UNCHANGED <<loadVars, slice, drawn, again, ghostVars>>

-----------------------------------------------------------------------------
Story == Prints \/ (\E q \in Requests : Draws(q)) \/ Selects \/ Polls \/ Prompts \/ Quits \/ RestartsItself
Loads == Submit \/ Enqueue \/ Loader
Frames == PollLoader \/ BeginSlice \/ EndSlice \/ Looks \/ View
DesktopNext == Loads \/ Frames \/ Story \/ Answers \/ RestartStory \/ Closes \/ ImageTakes \/ ImageSends

DesktopSpec == DesktopInit /\ [][DesktopNext]_deskVars

-----------------------------------------------------------------------------
(* Properties *)

(* The story that is installed is the newest that was asked for, however     *)
(* requests, the worker's two looks at the newest one and its results        *)
(* crossed.                                                                  *)
NewestStory ==
  [][machine'.story # machine.story => machine'.story = latest /\ submitting = {}]_deskVars

(* What was drawn, is being decoded and waits to be drawn is, in this order, *)
(* what the story drew since its canvas was made: nothing is lost, drawn     *)
(* twice, overtaken by what is cached or needs no decoding, or drawn with    *)
(* another story's picture, over full queues, late results and restarts.     *)
WithImage(m) == IF m.image = {} THEN m.canvas ELSE Meaning(m.canvas, (CHOOSE p \in m.image : TRUE).request)

DrawnInOrder ==
  machine.story # NoStory => meant = AllMean(WithImage(media), media.requests \o machine.graphics)

(* "Game frames are published at Glk event boundaries" (README.md:144): the  *)
(* screen never shows a text the story was in the middle of, and when the    *)
(* story waits for an event it shows the text it wrote.                      *)
WholeFrames ==
  /\ presented.text \in wholes \cup {-1}
  /\ frame = "poll" /\ machine.state = "wait" => presented.text = machine.text

(* What is on its way to the canvas and what is on the screen are the        *)
(* story's.                                                                  *)
FramesAreTrue == DrawnInOrder /\ WholeFrames

(* "... preserving the previous complete frame while the next is composed":  *)
(* a story that waits for an event, with nothing left to draw, is shown with *)
(* its pictures.                                                             *)
CompleteFrames ==
  frame = "poll" /\ machine.state = "wait" /\ media.image = {} /\ media.requests = <<>>
    => presented.canvas = media.canvas

(* A story that was asked for is installed or fails to open, what a story    *)
(* draws gets to its canvas, and the loader ends with the application.       *)
Drawing == media.image # {} \/ media.requests # <<>>
Comes ==
  /\ (pending_story # {}) ~> (pending_story = {} \/ shut)
  /\ Drawing ~> (~ Drawing \/ shut)
  /\ shut ~> (loader.phase = "gone")
=============================================================================
