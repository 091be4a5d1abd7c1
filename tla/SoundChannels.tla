---------------------------- MODULE SoundChannels ----------------------------
(***************************************************************************)
(* Sound channels and the worker that decodes their sounds                 *)
(* (src/src/vm/sound.rs).                                                  *)
(*                                                                         *)
(* A play stops what its channel plays and hands the sound to a worker; the*)
(* machine collects decoded sounds when it polls, by when the channel may  *)
(* have been stopped, played again, paused or destroyed.  Sounds that are  *)
(* to begin together are decoded at once instead.  A stored session keeps  *)
(* the channels but neither the worker nor the device: what was active is  *)
(* played again, one channel after the other while the new worker decodes. *)
(*                                                                         *)
(* Abstracted: samples, positions and durations, of which only the end     *)
(* counts.  A field that may be empty is a set of one element or none.     *)
(***************************************************************************)
EXTENDS Queues, Functions, SequencesExt, FiniteSetsExt

CONSTANTS
  Decodable, Broken, Missing,      (* resources, by what becomes of them       *)
  Notify,                          (* notification values but zero             *)
  FullVolume,                      (* the volume of a new channel: 65536       *)
  AudioQueueCapacity,              (* AUDIO_QUEUE_CAPACITY: 2                  *)
  MaxChannels, MaxPlays, MaxResumes  (* bounds of the model                    *)

ASSUME SoundAssumption ==
  /\ Notify \subseteq Nat \ {0}
  /\ {FullVolume, AudioQueueCapacity, MaxChannels, MaxPlays} \subseteq Nat \ {0}
  /\ MaxResumes \in Nat

VARIABLES
  channels, next_channel,      \* Vm: the channels by number
  stream, awaited, next_id,    \* AudioDevice: stream and pending; next_id of the worker
  tasks, decoding, results,    \* the worker: its two queues and the task it holds
  resuming, resumes,           \* enable_audio: the channels it has yet to play again
  plays,                       \* calls that play something, bounded by MaxPlays
  expected                     \* by channel, the notifications the story still expects

soundWorker == <<tasks, decoding, results>>
soundVars == <<channels, next_channel, stream, awaited, next_id, soundWorker,
               resuming, resumes, plays, expected>>

Resources == Decodable \cup Broken \cup Missing
Forever == -1      \* repeats: u32::MAX
NoRequest == -1    \* pending: None

NewChannel(volume) ==
  [volume |-> volume, paused |-> FALSE, active |-> FALSE, resource |-> CHOOSE r \in Resources : TRUE,
   notify |-> 0, repeats |-> 0, sink |-> {}, fade |-> {}, fade_resume |-> {}, pending |-> NoRequest]

NewSink(ch) == [volume |-> ch.volume, paused |-> ch.paused, empty |-> FALSE]

SoundInit ==
  /\ channels = <<>> /\ next_channel = 1
  /\ stream \in BOOLEAN
  /\ awaited = <<>> /\ next_id = 0
  /\ tasks = <<>> /\ decoding = <<>> /\ results = <<>>
  /\ resuming = <<>> /\ resumes = 0 /\ plays = 0
  /\ expected = <<>>

-----------------------------------------------------------------------------
(* Playing and stopping *)

(* Mutant: the sound a stopped channel waits for still comes. *)
StoppedLate(s, c) ==
  [s EXCEPT !.channels[c] = [@ EXCEPT !.sink = {}, !.active = FALSE, !.notify = 0]]

(* stop_sound, on the channels with the requests under way. *)
Stopped(s, c) ==
  [channels |-> [s.channels EXCEPT ![c] = [@ EXCEPT !.sink = {}, !.active = FALSE, !.notify = 0,
                                                    !.pending = NoRequest]],
   awaited  |-> Restrict(s.awaited, DOMAIN s.awaited \ {s.channels[c].pending})]

Now == [channels |-> channels, awaited |-> awaited]
Become(s) == channels' = s.channels /\ awaited' = s.awaited
Unexpected == [sound |-> 0, fade |-> 0]

Begun(ch, resource, repeats, notify) ==
  [ch EXCEPT !.resource = resource, !.repeats = repeats, !.active = TRUE,
             !.notify = IF repeats = Forever THEN 0 ELSE notify]

(* queue_sound_at: the sound goes to the worker, if its queue has room.  The *)
(* number of the request is used up either way.                              *)
Asks(resource, repeats) == repeats # 0 /\ stream /\ resource \notin Missing
Queues(resource, repeats) == Asks(resource, repeats) /\ Len(tasks) < AudioQueueCapacity

Queued(s, c, resource, repeats, notify) ==
  LET ch == Begun(s.channels[c], resource, repeats, notify)
      request == [channel |-> c, resource |-> resource, repeats |-> repeats, notify |-> notify]
  IN  [channels |-> [s.channels EXCEPT ![c] = [ch EXCEPT !.pending = next_id]],
       awaited  |-> [id \in DOMAIN s.awaited \cup {next_id} |->
                       IF id = next_id THEN request ELSE s.awaited[id]]]

PlaySoundAt(c, resource, repeats, notify) ==
  /\ next_id' = IF Asks(resource, repeats) THEN next_id + 1 ELSE next_id
  /\ IF Queues(resource, repeats)
     THEN /\ Become(Queued(Stopped(Now, c), c, resource, repeats, notify))
          /\ tasks' = Append(tasks, [id |-> next_id, resource |-> resource])
     ELSE Become(Stopped(Now, c)) /\ UNCHANGED tasks

Play(c, resource, repeats, notify) ==
  /\ resuming = <<>> /\ plays < MaxPlays /\ plays' = plays + 1
  /\ PlaySoundAt(c, resource, repeats, notify)
  /\ expected' = [expected EXCEPT ![c].sound =
       IF Queues(resource, repeats) /\ repeats # Forever THEN notify ELSE 0]
  /\ UNCHANGED <<next_channel, stream, decoding, results, resuming, resumes>>

(* prepare_sound_at: decoded at once; outcome TRUE when there is an output. *)
Prepares(resource) == stream /\ resource \in Decodable

Prepared(s, c, resource, notify) ==
  LET quiet == Stopped(s, c)
      ch == Begun(quiet.channels[c], resource, 1, notify)
  IN  IF Prepares(resource)
      THEN [quiet EXCEPT !.channels[c] = [ch EXCEPT !.sink = {NewSink(ch)}]]
      ELSE quiet

(* play_multi: a channel may be named twice, or not exist. *)
PlayMulti(sounds, notify) ==
  LET real == Retain(sounds, {i \in DOMAIN sounds : sounds[i][1] \in DOMAIN channels})
      after[n \in 0 .. Len(real)] ==
        IF n = 0 THEN Now ELSE Prepared(after[n - 1], real[n][1], real[n][2], notify)
      told[n \in 0 .. Len(real)] ==
        IF n = 0 THEN expected
        ELSE [told[n - 1] EXCEPT ![real[n][1]].sound = IF Prepares(real[n][2]) THEN notify ELSE 0]
  IN  /\ resuming = <<>> /\ plays < MaxPlays /\ plays' = plays + 1
      /\ Become(after[Len(real)]) /\ expected' = told[Len(real)]
      /\ UNCHANGED <<next_channel, stream, next_id, soundWorker, resuming, resumes>>

StopSound(c) ==
  /\ resuming = <<>>
  /\ Become(Stopped(Now, c))
  /\ expected' = [expected EXCEPT ![c].sound = 0]
  /\ UNCHANGED <<next_channel, stream, next_id, soundWorker, resuming, resumes, plays>>

-----------------------------------------------------------------------------
(* The worker *)

Take ==
  /\ tasks # <<>> /\ decoding = <<>>
  /\ decoding' = <<Head(tasks)>> /\ tasks' = Tail(tasks)
  /\ UNCHANGED <<channels, next_channel, stream, awaited, next_id, results, resuming, resumes, plays, expected>>

(* It waits while the machine has not collected what it decoded before. *)
Send ==
  /\ decoding # <<>> /\ Len(results) < AudioQueueCapacity
  /\ results' = results \o decoding /\ decoding' = <<>>
  /\ UNCHANGED <<channels, next_channel, stream, awaited, next_id, tasks, resuming, resumes, plays, expected>>

-----------------------------------------------------------------------------
(* poll_sound *)

(* A notification is taken off what the story expects of a channel. *)
Tell(e, notify) == [e EXCEPT !.sound = @ - notify]

Playing(ch, request) ==
  LET begun == Begun(ch, request.resource, request.repeats, request.notify)
  IN  [begun EXCEPT !.sink = {NewSink(begun)}]

Failing(ch) == [ch EXCEPT !.notify = 0, !.active = FALSE, !.sink = {}]

(* One result of the worker.  A request that was dropped is not awaited. *)
Collected(s, result) ==
  IF result.id \notin DOMAIN s.awaited THEN s
  ELSE LET request == s.awaited[result.id]
           c == request.channel
           free == [s.channels[c] EXCEPT !.pending = NoRequest]
           rest == Restrict(s.awaited, DOMAIN s.awaited \ {result.id})
       IN  IF c \notin DOMAIN s.channels \/ s.channels[c].pending # result.id
           THEN [s EXCEPT !.awaited = rest]
           ELSE LET good == result.resource \in Decodable IN
                [channels |-> [s.channels EXCEPT ![c] = IF good THEN Playing(free, request) ELSE Failing(free)],
                 awaited  |-> rest,
                 expected |-> IF good THEN s.expected ELSE [s.expected EXCEPT ![c] = Tell(@, free.notify)]]

(* A fade sets the volume, and keeps what a stored session resumes it from.  *)
Between(a, b) == IF a <= b THEN a .. b ELSE b .. a

AtVolume(ch, v) == [ch EXCEPT !.volume = v, !.sink = {[x EXCEPT !.volume = v] : x \in @}]

Faded(ch, over, level) ==
  LET fade == CHOOSE f \in ch.fade : TRUE
      resume == [to |-> fade.to, notify |-> fade.notify]
  IN  IF ch.fade = {} THEN ch
      ELSE IF over THEN [AtVolume(ch, fade.to) EXCEPT !.fade = {}, !.fade_resume = {}]
      ELSE [AtVolume(ch, level) EXCEPT !.fade_resume = {resume}]

(* A sound that ran out leaves its channel.                                  *)
RanOut(ch) == \E x \in ch.sink : x.empty
Settled(ch) == IF RanOut(ch) THEN [ch EXCEPT !.sink = {}, !.active = FALSE, !.notify = 0] ELSE ch

Drained(s, arrived) ==
  LET after[n \in 0 .. Len(arrived)] ==
        IF n = 0 THEN s ELSE Collected(after[n - 1], arrived[n])
  IN  after[Len(arrived)]

(* The machine after a poll that collects what arrived; the fades in "over"  *)
(* are at their end, the others at some level of their way.  The story is    *)
(* told of the fades and sounds that ended.                                  *)
PolledSounds(arrived, over, level) ==
  LET s == Drained([channels |-> channels, awaited |-> awaited, expected |-> expected], arrived)
      Told(c) == [sound |-> IF RanOut(s.channels[c]) THEN s.channels[c].notify ELSE 0,
                  fade  |-> IF c \in over THEN (CHOOSE f \in s.channels[c].fade : TRUE).notify ELSE 0]
  IN  [channels |-> [c \in DOMAIN channels |-> Settled(Faded(s.channels[c], c \in over, level[c]))],
       awaited  |-> s.awaited,
       expected |-> [c \in DOMAIN channels |->
                       [sound |-> s.expected[c].sound - Told(c).sound,
                        fade  |-> s.expected[c].fade - Told(c).fade]]]

Levels(c) == {0} \cup UNION {Between(f.from, f.to) : f \in channels[c].fade}
Ways == {way \in [DOMAIN channels -> 0 .. FullVolume] : \A c \in DOMAIN channels : way[c] \in Levels(c)}

(* What waits in the queue is collected; the worker may finish one more      *)
(* sound while the machine is at it.                                         *)
Collecting(arrived) ==
  /\ results' = <<>>
  /\ \/ arrived = results /\ UNCHANGED decoding
     \/ /\ decoding # <<>> /\ Len(results) = AudioQueueCapacity
        /\ arrived = results \o decoding /\ decoding' = <<>>

PollAnd(Change(_)) ==
  /\ resuming = <<>>
  /\ UNCHANGED <<next_channel, stream, next_id, tasks, resuming, resumes, plays>>
  /\ \E arrived \in {results, results \o decoding} : Collecting(arrived) /\
       \E over \in SUBSET {c \in DOMAIN channels : channels[c].fade # {}}, way \in Ways :
         \E s \in {Change(PolledSounds(arrived, over, way))} : Become(s) /\ expected' = s.expected

PollSound == PollAnd(LAMBDA s : s)

-----------------------------------------------------------------------------
(* The other calls of the story *)

Create(volume) ==
  /\ resuming = <<>> /\ stream /\ next_channel <= MaxChannels
  /\ channels' = [c \in DOMAIN channels \cup {next_channel} |->
                    IF c = next_channel THEN NewChannel(volume) ELSE channels[c]]
  /\ expected' = [c \in DOMAIN expected \cup {next_channel} |->
                    IF c = next_channel THEN Unexpected ELSE expected[c]]
  /\ next_channel' = next_channel + 1
  /\ UNCHANGED <<stream, awaited, next_id, soundWorker, resuming, resumes, plays>>

Destroy(c) ==
  /\ resuming = <<>>
  /\ awaited' = Stopped(Now, c).awaited
  /\ channels' = Restrict(channels, DOMAIN channels \ {c})
  /\ expected' = Restrict(expected, DOMAIN expected \ {c})
  /\ UNCHANGED <<next_channel, stream, next_id, soundWorker, resuming, resumes, plays>>

(* A fade that is replaced before its end tells nothing, one that is over    *)
(* tells first.  A volume set at once tells at once.                         *)
SetVolume(c, volume) ==
  PollAnd(LAMBDA s : [s EXCEPT !.channels[c] = [AtVolume(@, volume) EXCEPT !.fade = {}, !.fade_resume = {}],
                               !.expected[c].fade = 0])

SetVolumeSlowly(c, volume, notify) ==
  PollAnd(LAMBDA s : [s EXCEPT
    !.channels[c] = [@ EXCEPT !.fade = {[from |-> s.channels[c].volume, to |-> volume, notify |-> notify]},
                              !.fade_resume = {}],
    !.expected[c].fade = notify])

SetPaused(c, paused) ==
  /\ resuming = <<>>
  /\ channels' = [channels EXCEPT ![c].paused = paused,
                                  ![c].sink = {[x EXCEPT !.paused = paused] : x \in @}]
  /\ UNCHANGED <<next_channel, stream, awaited, next_id, soundWorker, resuming, resumes, plays, expected>>

(* The device plays a sound to its end. *)
RunsOut(c) ==
  /\ channels[c].repeats # Forever
  /\ \E x \in channels[c].sink : ~ x.paused /\ ~ x.empty
  /\ channels' = [channels EXCEPT ![c].sink = {[x EXCEPT !.empty = TRUE] : x \in @}]
  /\ UNCHANGED <<next_channel, stream, awaited, next_id, soundWorker, resuming, resumes, plays, expected>>

-----------------------------------------------------------------------------
(* A stored session is resumed: enable_audio plays the channels that were    *)
(* active again, then goes on with the fades.  0 stands for that last step.  *)
Fade == 0

(* A fade no poll has seen since it began has nothing to be resumed from.    *)
ResumeSession ==
  /\ resuming = <<>> /\ resumes < MaxResumes
  /\ resumes' = resumes + 1
  /\ stream' \in BOOLEAN
  /\ channels' = [c \in DOMAIN channels |->
       [channels[c] EXCEPT !.sink = {}, !.fade = {}, !.pending = NoRequest]]
  /\ awaited' = <<>> /\ next_id' = 0 /\ tasks' = <<>> /\ decoding' = <<>> /\ results' = <<>>
  /\ resuming' = Ascending({c \in DOMAIN channels : channels[c].active}) \o <<Fade>>
  /\ expected' = [c \in DOMAIN channels |->
       IF channels[c].fade_resume = {} THEN [expected[c] EXCEPT !.fade = 0] ELSE expected[c]]
  /\ UNCHANGED <<next_channel, plays>>

(* A sound that cannot be played again is over.                              *)
ResumeSound ==
  LET c == Head(resuming)
      ch == channels[c]
  IN  /\ resuming # <<>> /\ c # Fade
      /\ PlaySoundAt(c, ch.resource, ch.repeats, ch.notify)
      /\ expected' = IF Queues(ch.resource, ch.repeats) THEN expected
                     ELSE [expected EXCEPT ![c].sound = @ - ch.notify]
      /\ resuming' = Tail(resuming)
      /\ UNCHANGED <<next_channel, stream, decoding, results, resumes, plays>>

ResumeFades ==
  /\ resuming = <<Fade>> /\ resuming' = <<>>
  /\ channels' = [c \in DOMAIN channels |->
       [channels[c] EXCEPT !.fade_resume = {},
          !.fade = {[from |-> channels[c].volume, to |-> f.to, notify |-> f.notify] :
                      f \in channels[c].fade_resume}]]
  /\ UNCHANGED <<next_channel, stream, awaited, next_id, soundWorker, resumes, plays, expected>>

-----------------------------------------------------------------------------
SoundPlays ==
  /\ resuming = <<>>
  /\ \/ Create(FullVolume)
     \/ \E c \in DOMAIN channels :
          \/ \E r \in Resources, repeats \in {0, 1, Forever}, n \in Notify : Play(c, r, repeats, n)
          \/ StopSound(c) \/ Destroy(c)
          \/ \E paused \in BOOLEAN : SetPaused(c, paused)
     \/ \E n \in Notify, sounds \in [1 .. 2 -> (1 .. MaxChannels) \X Resources] : PlayMulti(sounds, n)

SoundVolumes ==
  \E c \in DOMAIN channels, v \in {0, FullVolume} :
    SetVolume(c, v) \/ \E n \in Notify : SetVolumeSlowly(c, v, n)

SoundHost == PollSound \/ ResumeSession \/ ResumeSound \/ ResumeFades

SoundDevice == \E c \in DOMAIN channels : RunsOut(c)

SoundNext == SoundPlays \/ SoundVolumes \/ SoundHost \/ Take \/ Send \/ SoundDevice

SoundSpec == SoundInit /\ [][SoundNext]_soundVars

(* Mutant: only a channel that is heard is polled. *)
NeededHeard == \E c \in DOMAIN channels : channels[c].sink # {} \/ channels[c].fade # {}

(* audio_needs_poll: the hosts poll as long as it holds. *)
Needed == \E c \in DOMAIN channels : channels[c].active \/ channels[c].fade # {}

-----------------------------------------------------------------------------
(* Properties *)

RequestsOf(queue) == {queue[i].id : i \in DOMAIN queue}

(* The channels, the device and the worker agree, however many sounds were   *)
(* stopped, replaced or destroyed while they were decoded: a channel waits   *)
(* for a sound exactly when the device awaits it for this channel and the    *)
(* worker still has it; it is active exactly when it waits or has a sound to *)
(* play; and what plays has the volume and the pause of its channel.         *)
Sounding ==
  /\ DOMAIN awaited = {channels[c].pending : c \in DOMAIN channels} \ {NoRequest}
  /\ \A id \in DOMAIN awaited : channels[awaited[id].channel].pending = id
  /\ DOMAIN awaited \subseteq RequestsOf(tasks) \cup RequestsOf(decoding) \cup RequestsOf(results)
  /\ IsInjective(tasks \o decoding \o results)
  /\ \A c \in DOMAIN channels :
       LET ch == channels[c] IN
       /\ c \notin Range(resuming) => (ch.active <=> ch.sink # {} \/ ch.pending # NoRequest)
       /\ ch.sink = {} \/ ch.pending = NoRequest
       /\ \A x \in ch.sink : x.volume = ch.volume /\ x.paused = ch.paused

(* The story is told of each sound and each fade it asked to be told of, once,*)
(* unless it stopped or replaced it: what a channel will tell is what the    *)
(* story expects, over late results, failures and resumed sessions.          *)
ToldOnce ==
  \A c \in DOMAIN channels :
    LET fade == IF resuming = <<>> THEN channels[c].fade ELSE channels[c].fade_resume
    IN  /\ channels[c].notify = expected[c].sound
        /\ expected[c].fade = IF fade = {} THEN 0 ELSE (CHOOSE f \in fade : TRUE).notify
        /\ expected[c].sound # 0 => channels[c].active

(* A sound the story waits for is decoded and played to its end, and the     *)
(* story told, unless the channel is paused.                                 *)
Tells ==
  \A c \in 1 .. MaxChannels :
    (c \in DOMAIN channels /\ expected[c].sound # 0) ~>
      (c \notin DOMAIN channels \/ expected[c].sound = 0 \/ channels[c].paused)

(* What sounds, and what the story is told of it.                            *)
SoundsAreTold == Sounding /\ ToldOnce
=============================================================================
