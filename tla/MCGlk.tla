-------------------------------- MODULE MCGlk --------------------------------
(* Windows, streams and sound channels of one story.  The variable focus     *)
(* chooses what the story is busy with, and with it the bounds: the layout of*)
(* up to four windows, echo streams among three, files or marks, two channels*)
(* that play, or one whose volume changes.                                   *)
EXTENDS Streams, SoundChannels

VARIABLE focus

MCViewports == {<<90, 60>>, <<30, 1>>}
MCCell == <<3, 4>>
MCTextCell == <<4, 5>>

MCOffsets == {-1, 1}
CONSTANTS p, q, n1, n2   \* paths and nodes
MCLinks == {[x \in {p, q} |-> n1]}

glkVars == <<winVars, fileVars>>
vars == <<glkVars, soundVars, focus>>

Init == /\ WinInit /\ FileInit /\ SoundInit
        /\ focus \in {"tree", "layout", "echo", "marks", "files", "sounds", "fades"}
        /\ focus = "layout" \/ viewport = <<90, 60>>
        /\ focus \in {"sounds", "fades"} \/ ~ stream

\* Windows for echo streams: all alike, the newest one split.
PlainNext == \/ next_window = 1 /\ OpenFirst("buffer")
             \/ next_window < 6 /\ OpenBeside(next_window - 1, 18, 40, "buffer")
             \/ \E id \in Leaves : CloseWindow(id)

\* One channel that fades, and what disturbs it.
FadeNext == \/ next_channel = 1 /\ SoundPlays
            \/ next_channel = 2 /\ \E c \in DOMAIN channels, r \in Decodable, n \in Notify :
                 Play(c, r, 1, n) \/ StopSound(c) \/ Destroy(c) \/ SetPaused(c, TRUE)
            \/ SoundVolumes

\* Of three streams of files the last has one of the names.
ThirdByOneName == 3 \in DOMAIN streams' => streams'[3].path = p

GlkNext ==
  \/ focus = "tree" /\ TreeNext /\ UNCHANGED fileVars
  \/ focus = "layout" /\ (TreeNext \/ LayoutNext) /\ next_window' <= 6 /\ UNCHANGED fileVars
  \/ focus = "echo" /\ (PlainNext \/ EchoNext) /\ UNCHANGED fileVars
  \/ focus = "echo" /\ ((next_stream = 1 /\ OpenMemory("write", 1)) \/ \E s \in DOMAIN streams : CloseMemory(s) \/ Put(s, 2))
  \/ focus = "marks" /\ MarkNext
  \/ focus = "files" /\ FileNext /\ ThirdByOneName
  \/ focus = "files" /\ \E s \in FileStreams, v \in Values : Put(s, v)

Next ==
  /\ \/ GlkNext /\ UNCHANGED soundVars
     \/ focus = "sounds" /\ SoundPlays /\ UNCHANGED glkVars
     \/ focus = "fades" /\ FadeNext /\ UNCHANGED glkVars
     \/ focus \in {"sounds", "fades"} /\ (SoundHost \/ SoundDevice \/ Take \/ Send) /\ UNCHANGED glkVars
  /\ UNCHANGED focus

(* The worker and the device go on by themselves, the hosts poll while a     *)
(* channel is active, and nothing holds enable_audio up.                     *)
Fairness ==
  /\ WF_soundVars(focus = "sounds" /\ Take) /\ WF_soundVars(focus = "sounds" /\ Send)
  /\ WF_soundVars(focus = "sounds" /\ Needed /\ PollSound)
  /\ WF_soundVars(focus = "sounds" /\ ResumeSound) /\ WF_soundVars(focus = "sounds" /\ ResumeFades)
  /\ \A c \in 1 .. MaxChannels : WF_soundVars(focus = "sounds" /\ c \in DOMAIN channels /\ RunsOut(c))

Spec == Init /\ [][Next]_vars /\ Fairness

\* See Tells: two channels that play.
TellsPlayed == focus = "sounds" => Tells
=============================================================================
