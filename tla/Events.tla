-------------------------------- MODULE Events --------------------------------
(***************************************************************************)
(* Events, input requests and waiting (src/src/vm/events.rs, with the      *)
(* parts of vm.rs, vm/windows.rs, vm/streams.rs and vm/presentation.rs     *)
(* that touch the same state).                                             *)
(*                                                                         *)
(* The story asks for input and calls select; the machine then waits.  The *)
(* host polls it, delivers keys, lines, clicks and new sizes, stops it and *)
(* restarts it.  One queue holds the events of all sources; poll_events    *)
(* gives the first one to a waiting select.                                *)
(*                                                                         *)
(* Windows are numbered as they are opened and have a kind; pairs, which   *)
(* never ask for anything, are left out.  Texts, keys and positions are    *)
(* left out too, and so is the deadline of the timer: a poll may find it   *)
(* passed or not.  A call that the code ends with a VmError is not a step. *)
(***************************************************************************)
EXTENDS Queues, FiniteSets, FiniteSetsExt, SequencesExt

CONSTANTS
  Kinds,       (* the kinds of windows the host can show                    *)
  MaxWindows,  (* bound of the model on the windows ever opened             *)
  MaxQueue     (* bound of the model: clicks and sounds come below this     *)

ASSUME EventsAssumption ==
  /\ Kinds \subseteq {"text_buffer", "text_grid", "graphics"}
  /\ MaxWindows \in Nat /\ MaxQueue \in Nat \ {0}

Window == 1 .. MaxWindows
Key == {"line", "char"}
Event == [type : Key \cup {"timer", "mouse", "arrange", "sound", "volume", "hyperlink"},
          window : Window \cup {0}]

VARIABLES
  state,               \* RunState
  pending_select,      \* whether there is one
  events,              \* the queue
  requests,            \* what line or character input each window waits for
  mouse_requests, hyperlink_requests,
  timer,               \* whether it is set
  input_window,        \* the window the host types into
  file_request,        \* whether a file prompt is open
  windows,             \* the kind of every open window
  next_window,         \* glk_next_window
  asked                \* (not in the code) windows whose input the story awaits

inputVars  == <<requests, mouse_requests, hyperlink_requests, asked>>
windowVars == <<windows, next_window>>
vars == <<state, pending_select, events, inputVars, timer, input_window, file_request, windowVars>>

Put(f, k, v) == [x \in DOMAIN f \cup {k} |-> IF x = k THEN v ELSE f[x]]
Without(f, k) == [x \in DOMAIN f \ {k} |-> f[x]]
Empty == [x \in {} |-> {}]

Of(type, window) == [type |-> type, window |-> window]
Has(q, type) == \E i \in DOMAIN q : q[i].type = type

Init ==
  /\ state = "running" /\ pending_select = FALSE
  /\ events = <<>>
  /\ requests = Empty /\ mouse_requests = {} /\ hyperlink_requests = {}
  /\ timer = FALSE /\ input_window = 0 /\ file_request = FALSE
  /\ windows = Empty /\ next_window = 1
  /\ asked = {}

-----------------------------------------------------------------------------
(* poll_events *)

\* What poll_sound may find: sounds that ended, fades that ended.
Notes(q) ==
  IF Len(q) >= MaxQueue THEN {<<>>}
  ELSE {<<>>, <<Of("sound", 0)>>, <<Of("volume", 0)>>, <<Of("volume", 0), Of("sound", 0)>>}

Polled(q, notes, due) ==
  IF due /\ ~ Has(q \o notes, "timer") THEN Append(q \o notes, Of("timer", 0)) ELSE q \o notes

\* Mutant: only a machine that waits for no input is woken.
GiveToIdle(q, waiting, before) ==
  IF waiting /\ q # <<>> /\ before = "event"
  THEN /\ events' = Tail(q)
       /\ pending_select' = FALSE /\ state' = "running"
       /\ asked' = IF Head(q).type \in Key THEN asked \ {Head(q).window} ELSE asked
  ELSE /\ events' = q
       /\ pending_select' = waiting /\ state' = before
       /\ UNCHANGED asked

\* A select that waits takes the first event, and the story goes on.
Give(q, waiting, before) ==
  IF waiting /\ q # <<>>
  THEN /\ events' = Tail(q)
       /\ pending_select' = FALSE /\ state' = "running"
       /\ asked' = IF Head(q).type \in Key THEN asked \ {Head(q).window} ELSE asked
  ELSE /\ events' = q
       /\ pending_select' = waiting /\ state' = before
       /\ UNCHANGED asked

\* poll_events of a queue q, by a machine that is in the state `before`.
PollFrom(q, waiting, before) ==
  \E notes \in Notes(q), due \in {FALSE, timer} : Give(Polled(q, notes, due), waiting, before)

-----------------------------------------------------------------------------
(* Calls of the story *)

Story == state = "running"

Select ==
  /\ Story
  /\ LET first == Min(DOMAIN requests) IN
     IF DOMAIN requests = {}
     THEN PollFrom(events, TRUE, "event") /\ UNCHANGED input_window
     ELSE PollFrom(events, TRUE, requests[first]) /\ input_window' = first
  /\ UNCHANGED <<requests, mouse_requests, hyperlink_requests, timer, file_request, windowVars>>

\* Takes the first event that does not come from the player.
SelectPoll ==
  /\ Story
  /\ \E notes \in Notes(events), due \in {FALSE, timer} :
       LET q == Polled(events, notes, due)
           internal == {i \in DOMAIN q : q[i].type \in {"timer", "arrange", "sound"}}
       IN events' = IF internal = {} THEN q ELSE RemoveAt(q, Min(internal))
  /\ UNCHANGED <<state, pending_select, inputVars, timer, input_window, file_request, windowVars>>

\* A window that waits already keeps the request it has.
RequestKey(w, key) ==
  /\ Story
  /\ w \in DOMAIN windows \ DOMAIN requests /\ windows[w] # "graphics"
  /\ requests' = Put(requests, w, key)
  /\ asked' = asked \cup {w}
  /\ UNCHANGED <<state, pending_select, events, mouse_requests, hyperlink_requests, timer,
                 input_window, file_request, windowVars>>

\* glk_cancel_line_event, glk_cancel_char_event.
CancelKey(w) ==
  /\ Story
  /\ w \in DOMAIN requests
  /\ requests' = Without(requests, w)
  /\ asked' = asked \ {w}
  /\ UNCHANGED <<state, pending_select, events, mouse_requests, hyperlink_requests, timer,
                 input_window, file_request, windowVars>>

RequestPointer(w) ==
  /\ Story
  /\ w \in DOMAIN windows
  /\ \/ /\ windows[w] # "text_buffer"
        /\ mouse_requests' = mouse_requests \cup {w} /\ UNCHANGED hyperlink_requests
     \/ hyperlink_requests' = hyperlink_requests \cup {w} /\ UNCHANGED mouse_requests
  /\ UNCHANGED <<state, pending_select, events, requests, asked, timer, input_window,
                 file_request, windowVars>>

CancelPointer(w) ==
  /\ Story
  /\ \/ mouse_requests' = mouse_requests \ {w} /\ UNCHANGED hyperlink_requests
     \/ hyperlink_requests' = hyperlink_requests \ {w} /\ UNCHANGED mouse_requests
  /\ UNCHANGED <<state, pending_select, events, requests, asked, timer, input_window,
                 file_request, windowVars>>

WithoutTicks(q) == Retain(q, {i \in DOMAIN q : q[i].type # "timer"})

RequestTimer(on) ==
  /\ Story
  /\ timer' = on
  /\ events' = WithoutTicks(events)
  /\ UNCHANGED <<state, pending_select, inputVars, input_window, file_request, windowVars>>

OpenWindow(kind) ==
  /\ Story
  /\ next_window <= MaxWindows
  /\ windows' = Put(windows, next_window, kind)
  /\ next_window' = next_window + 1
  /\ UNCHANGED <<state, pending_select, events, inputVars, timer, input_window, file_request>>

\* Mutant: events of the window stay in the queue.
CloseWindowKeeps(w) ==
  /\ Story
  /\ w \in DOMAIN windows
  /\ windows' = Without(windows, w)
  /\ requests' = Without(requests, w) /\ asked' = asked \ {w}
  /\ mouse_requests' = mouse_requests \ {w} /\ hyperlink_requests' = hyperlink_requests \ {w}
  /\ UNCHANGED <<state, pending_select, events, timer, input_window, file_request, next_window>>

\* Closing a pair closes the windows below it, one by one here.
CloseWindow(w) ==
  /\ Story
  /\ w \in DOMAIN windows
  /\ windows' = Without(windows, w)
  /\ requests' = Without(requests, w) /\ asked' = asked \ {w}
  /\ mouse_requests' = mouse_requests \ {w} /\ hyperlink_requests' = hyperlink_requests \ {w}
  /\ events' = Retain(events, {i \in DOMAIN events : events[i].window # w})
  /\ UNCHANGED <<state, pending_select, timer, input_window, file_request, next_window>>

\* glk_fileref_create_by_prompt
Prompt ==
  /\ Story
  /\ state' = "file" /\ file_request' = TRUE
  /\ UNCHANGED <<pending_select, events, inputVars, timer, input_window, windowVars>>

-----------------------------------------------------------------------------
(* Calls of the host *)

\* run_steps polls first, whatever the state.
Poll ==
  /\ PollFrom(events, pending_select, state)
  /\ UNCHANGED <<requests, mouse_requests, hyperlink_requests, timer, input_window, file_request,
                 windowVars>>

\* complete_window_input, provide_window_key: a line or a key for window w.
Provide(w) ==
  /\ pending_select /\ w \in DOMAIN requests
  /\ requests' = Without(requests, w)
  /\ PollFrom(Append(events, Of(requests[w], w)), pending_select, state)
  /\ UNCHANGED <<mouse_requests, hyperlink_requests, timer, input_window, file_request, windowVars>>

MouseInput(w) ==
  /\ w \in mouse_requests /\ Len(events) < MaxQueue
  /\ mouse_requests' = mouse_requests \ {w}
  /\ PollFrom(Append(events, Of("mouse", w)), pending_select, state)
  /\ UNCHANGED <<requests, hyperlink_requests, timer, input_window, file_request, windowVars>>

HyperlinkInput(w) ==
  /\ w \in hyperlink_requests /\ Len(events) < MaxQueue
  /\ hyperlink_requests' = hyperlink_requests \ {w}
  /\ PollFrom(Append(events, Of("hyperlink", w)), pending_select, state)
  /\ UNCHANGED <<requests, mouse_requests, timer, input_window, file_request, windowVars>>

\* Another size, other fonts: the event waits for the next poll.
Resize ==
  /\ DOMAIN windows # {} /\ ~ Has(events, "arrange")
  /\ events' = Append(events, Of("arrange", 0))
  /\ UNCHANGED <<state, pending_select, inputVars, timer, input_window, file_request, windowVars>>

SelectInputWindow(w) ==
  /\ pending_select /\ w \in DOMAIN requests
  /\ input_window' = w
  /\ state' = requests[w]
  /\ UNCHANGED <<pending_select, events, inputVars, timer, file_request, windowVars>>

\* The prompt may ask again; if not, the story goes on.
ProvideFile ==
  /\ state = "file" /\ file_request
  /\ state' = "running" /\ file_request' = FALSE
  /\ UNCHANGED <<pending_select, events, inputVars, timer, input_window, windowVars>>

\* The story ends, or the host stops it.
Stop ==
  /\ state' = "halted"
  /\ UNCHANGED <<pending_select, events, inputVars, timer, input_window, file_request, windowVars>>

\* Mutant: the select of the old run is still there.
RestartWaiting ==
  /\ state' = "running"
  /\ input_window' = 0
  /\ UNCHANGED <<pending_select, events, inputVars, timer, file_request, windowVars>>

\* By the story or by the host; requests, events and windows outlive it.
Restart ==
  /\ state' = "running"
  /\ pending_select' = FALSE
  /\ input_window' = 0
  /\ UNCHANGED <<events, inputVars, timer, file_request, windowVars>>

\* The conditions of validate_session on this state.
Valid ==
  /\ state \in {"line", "char", "event"} => pending_select
  /\ state = "file" => file_request

\* A stored machine is resumed: enable_audio, then resume_timer.
Resume ==
  /\ state # "halted" /\ Valid
  /\ \E notes \in {<<>>, <<Of("sound", 0)>>} :
       /\ Len(events \o notes) <= MaxQueue \/ notes = <<>>
       /\ events' = IF timer THEN WithoutTicks(events \o notes) ELSE events \o notes
  /\ UNCHANGED <<state, pending_select, inputVars, timer, input_window, file_request, windowVars>>

StoryCall ==
  \/ Select \/ SelectPoll \/ Prompt
  \/ \E on \in BOOLEAN : RequestTimer(on)
  \/ \E kind \in Kinds : OpenWindow(kind)
  \/ \E w \in Window :
       \/ \E key \in Key : RequestKey(w, key)
       \/ CancelKey(w) \/ RequestPointer(w) \/ CancelPointer(w) \/ CloseWindow(w)

HostCall ==
  \/ Poll \/ Resize \/ ProvideFile \/ Stop \/ Restart \/ Resume
  \/ \E w \in Window :
       Provide(w) \/ MouseInput(w) \/ HyperlinkInput(w) \/ SelectInputWindow(w)

Next == StoryCall \/ HostCall

Spec == Init /\ [][Next]_vars

\* A poll after the deadline of the timer.
PollDue ==
  /\ timer
  /\ \E notes \in Notes(events) : Give(Polled(events, notes, TRUE), pending_select, state)
  /\ UNCHANGED <<requests, mouse_requests, hyperlink_requests, timer, input_window, file_request,
                 windowVars>>

\* The hosts poll a waiting machine every few milliseconds, and time passes.
FairSpec == Spec /\ WF_vars(Poll) /\ WF_vars(PollDue)

-----------------------------------------------------------------------------
(* Properties *)

\* Every variable has a value the code can give it, and the queue is bounded by
\* the sounds and clicks of the model with at most one more event of each other
\* source: a tick, a new arrangement, a line or key.
TypeOK ==
  /\ state \in {"running", "line", "char", "event", "file", "halted"}
  /\ pending_select \in BOOLEAN /\ timer \in BOOLEAN /\ file_request \in BOOLEAN
  /\ events \in Seq(Event) /\ Len(events) <= MaxQueue + 4
  /\ requests \in [DOMAIN requests -> Key]
  /\ input_window \in Window \cup {0}
  /\ windows \in [DOMAIN windows -> Kinds] /\ DOMAIN windows \subseteq 1 .. next_window - 1
  /\ next_window \in 1 .. MaxWindows + 1

\* While a select waits, nothing but an arrangement or a sound of a resumed session
\* is in the queue; so one line or key at most is ever queued, and no source but
\* clicks and sounds can fill it, whatever the story does between its selects.
Ordered ==
  /\ pending_select => \A i \in DOMAIN events : events[i].type \in {"arrange", "sound"}
  /\ \A types \in {{"timer"}, {"arrange"}, Key} :
       Cardinality({i \in DOMAIN events : events[i].type \in types}) <= 1

\* The state the host shows and the select it would complete agree: a running
\* machine has no select whose destination an event could overwrite, a machine that
\* waits can be woken, its input goes to a window that asks for that input, and
\* any session the application stores passes validate_session.  And the queue is
\* Ordered.
Coherent ==
  /\ TypeOK /\ Ordered
  /\ state # "halted" => Valid
  /\ pending_select => state \in {"line", "char", "event", "halted"}
  /\ state \in Key => input_window \in DOMAIN requests /\ requests[input_window] = state

\* Nothing reaches the story for what is gone: no request and no queued event names
\* a closed window, and a story that cancelled its timer gets no tick of it, not
\* even one queued before.
NothingStale ==
  /\ DOMAIN requests \cup mouse_requests \cup hyperlink_requests
       \cup {events[i].window : i \in DOMAIN events} \subseteq DOMAIN windows \cup {0}
  /\ Has(events, "timer") => timer

\* A line or key the story asked for is still asked for, or typed and on its way
\* to the story, over stops, restarts, resumed sessions and other windows closed.
NothingLost ==
  \A w \in asked :
    w \in DOMAIN requests \/ \E i \in DOMAIN events : events[i].type \in Key /\ events[i].window = w

\* A select is completed once there is an event for it, or a timer that will tick.
Wakes == (pending_select /\ (timer \/ events # <<>>)) ~> (~ pending_select \/ state = "halted")

\* A story that ended or was stopped stays stopped until it is started again.
StopHolds == [][state = "halted" => state' = "halted" \/ Restart]_vars

\* What is asked for and what is queued follows the story: nothing of what is gone,
\* everything it still awaits.
NothingStaleOrLost == NothingStale /\ NothingLost
=============================================================================
