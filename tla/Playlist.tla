------------------------------- MODULE Playlist -------------------------------
(***************************************************************************)
(* A run of a stream that plays a list of files                            *)
(* (src/src/stream/streams/relay/playlist_relay_stream.cpp and             *)
(* encoding/playlist_encoding_stream.cpp, which differ only in the         *)
(* configuration they read), and how its end travels to the main loop.     *)
(*                                                                         *)
(* The thread of appsrc asks for data (need-data) and pushes what it gets  *)
(* through the pad the input probe watches; every output has a sink of its *)
(* own, with an output probe; when all sinks have seen the end of stream   *)
(* GStreamer posts it on the bus, which only a running main loop reads.    *)
(*                                                                         *)
(* A file is the number of buffers in it, or Missing. The pipeline between *)
(* the pads is external: for every output a queue that keeps the order.    *)
(***************************************************************************)
EXTENDS Integers, FiniteSets, Sequences

CONSTANTS
    Lists,     \* playlists considered
    Sinks,     \* the sinks of the outputs of the stream
    MaxQueued, \* items between appsrc and a sink
    MaxPushed  \* bound: buffers a run pushes

Missing == -1

\* A playlist is a stream with several inputs (streams_factory.cpp).
ASSUME PlaylistAssumption ==
    /\ \A l \in Lists : l \in Seq(Nat \cup {Missing}) /\ Len(l) > 0
    /\ MaxQueued \in Nat /\ MaxPushed \in Nat

NoFile == [pos |-> 0, left |-> 0]
NoExit == "none"

\* What travels through the pipeline: the buffers of a file, numbered, and events.
Event(kind)     == [kind |-> kind, pos |-> 0, nr |-> 0]
Buffer(pos, nr) == [kind |-> "buffer", pos |-> pos, nr |-> nr]
Nothing         == Event("none")

VARIABLES
    input, loop, vod, \* GetInput(), GetLoop(), IsVod()
    exec,             \* where Exec is
    exit_status,      \* last_exit_status_, NoExit before the main loop is quit
    curent_pos_,      \* files opened in this round of the list
    current_file_,    \* the open file: its position and the buffers left
    source_pc,        \* what the thread of appsrc does
    item,             \* what it is to push through its pad
    pipe,             \* the items on their way to each sink
    probe_in,         \* Consistency of the input probe
    probe_out,        \* and of the output probe of each sink
    eos_posted,       \* the end of stream is on the bus
    pushed,           \* history: buffers pushed
    arrived,          \* history: the buffers that reached each sink
    told              \* history: somebody else quit the stream

list_vars == <<input, loop, vod>>
file_vars == <<curent_pos_, current_file_>>
main_vars == <<exec, exit_status, told>>
play_vars == <<list_vars, main_vars, file_vars, source_pc, item, pipe, probe_in, probe_out,
               eos_posted, pushed, arrived>>

-----------------------------------------------------------------------------
(* Probes.                                                                 *)

\* A probe that is not on a pad (ClearInner), with a Consistency as constructed:
\* a pad counts as ended until its first segment.
Unlinked == [linked |-> FALSE, segment |-> FALSE, eos |-> TRUE,
             saw_stream_start |-> FALSE, saw_serialized_event |-> FALSE]

\* Probe::Link, and Probe::Clear with the callback it causes.
Link(probe)  == [probe EXCEPT !.linked = TRUE]
Clear(probe) == [probe EXCEPT !.linked = FALSE]

\* Both callbacks treat segments and the end of stream alike. Flushes and seeks
\* are not among the events these probes are registered for.
SeesEvent(probe, x) ==
    CASE x.kind = "segment" -> [probe EXCEPT !.segment = TRUE, !.eos = FALSE]
      [] x.kind = "eos"     -> [probe EXCEPT !.segment = FALSE, !.eos = TRUE]
      [] OTHER              -> probe

\* InputProbe::source_callback_probe_buffer. Every event of appsrc is serialized.
InputSees(probe, x) ==
    [SeesEvent(probe, x) EXCEPT
        !.saw_stream_start = @ \/ x.kind = "stream_start",
        !.saw_serialized_event = @ \/ x.kind # "buffer"]

\* Inputs and outputs whose probes have all seen the end, per id of the channel:
\* here every channel has one probe.
CountInputEOS == IF probe_in.eos THEN 1 ELSE 0
CountOutEOS   == Cardinality({o \in Sinks : probe_out[o].eos})

-----------------------------------------------------------------------------
InitPlaylist ==
    /\ input \in Lists
    /\ loop \in BOOLEAN
    /\ vod \in BOOLEAN
    /\ exec = "new"
    /\ exit_status = NoExit
    /\ curent_pos_ = 0
    /\ current_file_ = NoFile
    /\ source_pc = "stopped"
    /\ item = Nothing
    /\ pipe = [o \in Sinks |-> <<>>]
    /\ probe_in = Unlinked
    /\ probe_out = [o \in Sinks |-> Unlinked]
    /\ eos_posted = FALSE
    /\ pushed = 0
    /\ arrived = [o \in Sinks |-> <<>>]
    /\ told = FALSE

-----------------------------------------------------------------------------
(* The main thread: Exec of the stream, and its end.                       *)

LinkInputPad  == probe_in' = Link(probe_in)
LinkOutputPad == probe_out' = [o \in Sinks |-> Link(probe_out[o])]

\* The builder links a probe to the source and to every sink.
InitPipeLine ==
    /\ exec = "new"
    /\ exec' = "built"
    /\ LinkInputPad
    /\ LinkOutputPad
    /\ UNCHANGED <<list_vars, exit_status, told, file_vars, source_pc, item, pipe,
                   eos_posted, pushed, arrived>>

\* From here the thread of appsrc runs.
Play ==
    /\ exec = "built"
    /\ exec' = "playing"
    /\ source_pc' = "push"
    /\ item' = Event("stream_start")
    /\ UNCHANGED <<list_vars, exit_status, told, file_vars, pipe, probe_in, probe_out,
                   eos_posted, pushed, arrived>>

RunMainLoop ==
    /\ exec = "playing"
    /\ exec' = "looping"
    /\ UNCHANGED <<list_vars, exit_status, told, file_vars, source_pc, item, pipe,
                   probe_in, probe_out, eos_posted, pushed, arrived>>

\* Quit, as far as a running main loop is concerned.
Quit(status) ==
    /\ exec = "looping"
    /\ exec' = "left"
    /\ exit_status' = status

Mutant_EndIsFailure == Quit("EXIT_INNER")

\* The end of stream of a vod is its success, that of a channel a failure.
OnPipelineEOS == Quit(IF vod THEN "EXIT_SELF" ELSE "EXIT_INNER")

\* HandleAsyncBusMessageReceived, GST_MESSAGE_EOS.
HandleEOS ==
    /\ eos_posted
    /\ eos_posted' = FALSE
    /\ OnPipelineEOS
    /\ UNCHANGED <<list_vars, told, file_vars, source_pc, item, pipe, probe_in,
                   probe_out, pushed, arrived>>

\* A command or the watchdog quits the stream.
OtherQuit(status) ==
    /\ Quit(status)
    /\ told' = TRUE
    /\ UNCHANGED <<list_vars, file_vars, source_pc, item, pipe, probe_in, probe_out,
                   eos_posted, pushed, arrived>>

\* Stop sets the pipeline to the NULL state, which throws away what is on its way
\* and then waits for the streaming threads. The statuses of the probes stay.
Stop ==
    /\ exec = "left"
    /\ exec' = "stopping"
    /\ pipe' = [o \in Sinks |-> <<>>]
    /\ eos_posted' = FALSE
    /\ UNCHANGED <<list_vars, exit_status, told, file_vars, source_pc, item, probe_in,
                   probe_out, pushed, arrived>>

Stopped ==
    /\ exec = "stopping"
    /\ source_pc = "stopped"
    /\ exec' = "returned"
    /\ UNCHANGED <<list_vars, exit_status, told, file_vars, source_pc, item, pipe,
                   probe_in, probe_out, eos_posted, pushed, arrived>>

\* ~PlaylistRelayStream closes the file, ~IBaseStream deletes the probes while
\* the pads still exist.
Destroy ==
    /\ exec = "returned"
    /\ exec' = "destroyed"
    /\ current_file_' = NoFile
    /\ probe_in' = Clear(probe_in)
    /\ probe_out' = [o \in Sinks |-> Clear(probe_out[o])]
    /\ UNCHANGED <<list_vars, exit_status, told, curent_pos_, source_pc, item, pipe,
                   eos_posted, pushed, arrived>>

-----------------------------------------------------------------------------
(* The thread of appsrc.                                                   *)

\* HandleNeedData ends by giving appsrc an item, which it pushes before it asks
\* again.
Give(x) ==
    /\ source_pc' = "push"
    /\ item' = x

\* SendEOS.
SendEOS == Give(Event("eos"))

\* appsrc has nothing queued and asks for data.
NeedData ==
    /\ source_pc = "idle"
    /\ pushed < MaxPushed
    /\ exec # "stopping"
    /\ source_pc' = "need_data"
    /\ UNCHANGED <<list_vars, main_vars, file_vars, item, pipe, probe_in, probe_out,
                   eos_posted, pushed, arrived>>

Mutant_AlwaysLoops == FALSE

\* OpenNextFile finds that a list which is not looped is at its end.
NoMoreFiles == ~loop /\ curent_pos_ >= Len(input)

\* OpenNextFile otherwise: the next position, from 1.
NextPos == IF curent_pos_ >= Len(input) THEN 1 ELSE curent_pos_ + 1

Mutant_MissingIsSkipped ==
    /\ curent_pos_' = NextPos
    /\ IF input[NextPos] = Missing
       THEN UNCHANGED <<current_file_, source_pc, item>>
       ELSE /\ current_file_' = [pos |-> NextPos, left |-> input[NextPos]]
            /\ UNCHANGED <<source_pc, item>>

\* fopen of that file: one that cannot be opened ends the stream, whatever
\* follows it in the list.
OpenFile ==
    /\ curent_pos_' = NextPos
    /\ IF input[NextPos] = Missing
       THEN SendEOS /\ UNCHANGED current_file_
       ELSE /\ current_file_' = [pos |-> NextPos, left |-> input[NextPos]]
            /\ UNCHANGED <<source_pc, item>>

OpenNextFile ==
    /\ source_pc = "need_data"
    /\ current_file_ = NoFile
    /\ IF NoMoreFiles THEN SendEOS /\ UNCHANGED file_vars ELSE OpenFile
    /\ UNCHANGED <<list_vars, main_vars, pipe, probe_in, probe_out, eos_posted, pushed,
                   arrived>>

\* fread: a buffer, or the end of the file, after which the loop of
\* HandleNeedData goes on. PushBuffer to a pipeline that is being stopped fails,
\* and the Quit that follows finds no main loop running.
ReadFile ==
    /\ source_pc = "need_data"
    /\ current_file_ # NoFile
    /\ IF current_file_.left = 0
       THEN current_file_' = NoFile /\ UNCHANGED <<source_pc, item, pushed>>
       ELSE /\ current_file_' = [current_file_ EXCEPT !.left = @ - 1]
            /\ IF exec = "stopping"
               THEN source_pc' = "stopped" /\ UNCHANGED <<item, pushed>>
               ELSE /\ Give(Buffer(current_file_.pos,
                                   input[current_file_.pos] - current_file_.left + 1))
                    /\ pushed' = pushed + 1
    /\ UNCHANGED <<list_vars, main_vars, curent_pos_, pipe, probe_in, probe_out,
                   eos_posted, arrived>>

\* The item passes the source pad with its probe, after the segment if it is the
\* first buffer.
PushItem ==
    LET x == IF item.kind = "buffer" /\ ~probe_in.segment THEN Event("segment") ELSE item
    IN /\ source_pc = "push"
       /\ exec # "stopping"
       /\ \A o \in Sinks : Len(pipe[o]) < MaxQueued
       /\ probe_in' = InputSees(probe_in, x)
       /\ pipe' = [o \in Sinks |-> Append(pipe[o], x)]
       /\ source_pc' = CASE x # item -> "push" [] x.kind = "eos" -> "stopped" [] OTHER -> "idle"
       /\ item' = IF x # item THEN item ELSE Nothing
       /\ UNCHANGED <<list_vars, main_vars, file_vars, probe_out, eos_posted, pushed,
                      arrived>>

\* The thread ends when the pipeline is being stopped, unless it is in the callback.
SourceStops ==
    /\ source_pc \in {"push", "idle"}
    /\ exec = "stopping"
    /\ source_pc' = "stopped"
    /\ item' = Nothing
    /\ UNCHANGED <<list_vars, main_vars, file_vars, pipe, probe_in, probe_out,
                   eos_posted, pushed, arrived>>

-----------------------------------------------------------------------------
\* An item reaches a sink: OutputProbe::sink_callback_probe_buffer, then the sink.
\* The pipeline posts the end of stream when its last sink has seen it.
SinkReceives(o) ==
    /\ pipe[o] # <<>>
    /\ pipe' = [pipe EXCEPT ![o] = Tail(@)]
    /\ LET x == Head(pipe[o]) IN
       /\ probe_out' = [probe_out EXCEPT ![o] = SeesEvent(@, x)]
       /\ arrived' = IF x.kind = "buffer" THEN [arrived EXCEPT ![o] = Append(@, x)]
                     ELSE arrived
       /\ eos_posted' = \/ eos_posted
                        \/ x.kind = "eos" /\ \A p \in Sinks \ {o} : pipe[p] = <<>>
    /\ UNCHANGED <<list_vars, main_vars, file_vars, source_pc, item, probe_in, pushed>>

-----------------------------------------------------------------------------
Main   == InitPipeLine \/ Play \/ RunMainLoop \/ HandleEOS \/ Stop \/ Stopped \/ Destroy
Source == NeedData \/ OpenNextFile \/ ReadFile \/ PushItem \/ SourceStops

NextPlaylist ==
    \/ Main
    \/ Source
    \/ \E status \in {"EXIT_SELF", "EXIT_INNER"} : OtherQuit(status)
    \/ \E o \in Sinks : SinkReceives(o)

\* Every thread goes on while it can.
PlaylistFairness ==
    /\ WF_play_vars(Main)
    /\ WF_play_vars(Source)
    /\ \A o \in Sinks : WF_play_vars(SinkReceives(o))

SpecPlaylist == InitPlaylist /\ [][NextPlaylist]_play_vars /\ PlaylistFairness

-----------------------------------------------------------------------------
(* Properties.                                                             *)

\* The list comes to an end.
Ends == ~loop \/ \E i \in DOMAIN input : input[i] = Missing

\* The thread of appsrc looks for data in empty files for ever.
Spins == ~Ends /\ \A i \in DOMAIN input : input[i] = 0

\* The files of a range of positions are empty.
Empty(from, to) == \A i \in from..to : input[i] = 0

\* Buffer x is the first of a file.
BeginsFile(x) == x.pos \in DOMAIN input /\ x.nr = 1 /\ input[x.pos] > 0

\* Buffer x is the first of the list.
BeginsList(x) == BeginsFile(x) /\ Empty(1, x.pos - 1)

\* Buffer x is the last of its file.
EndsFile(x) == x.nr = input[x.pos]

\* Buffer y is the next one after x in the order of the list, round after round.
Follows(x, y) ==
    \/ y.pos = x.pos /\ y.nr = x.nr + 1 /\ y.nr <= input[x.pos]
    \/ /\ EndsFile(x) /\ BeginsFile(y)
       /\ \/ x.pos < y.pos /\ Empty(x.pos + 1, y.pos - 1)
          \/ loop /\ Empty(x.pos + 1, Len(input)) /\ Empty(1, y.pos - 1)

\* Behind position i comes no buffer but the end of the list, or a file that
\* cannot be opened.
EndsAfter(i) ==
    \E k \in (i + 1)..(Len(input) + 1) :
        /\ Empty(i + 1, k - 1)
        /\ IF k = Len(input) + 1 THEN ~loop ELSE input[k] = Missing

\* Sink o has got everything.
IsComplete(o) ==
    IF arrived[o] = <<>> THEN EndsAfter(0)
    ELSE LET x == arrived[o][Len(arrived[o])] IN EndsFile(x) /\ EndsAfter(x.pos)

\* Every output gets the buffers of the files in the order of the list, without
\* a gap and round after round if it is looped, and sees the end of stream only
\* after the last of them (HandleNeedData, OpenNextFile).
PlaysTheList ==
    \A o \in Sinks :
        /\ \A k \in DOMAIN arrived[o] :
               IF k = 1 THEN BeginsList(arrived[o][k]) ELSE Follows(arrived[o][k - 1], arrived[o][k])
        /\ arrived[o] # <<>> /\ probe_out[o].eos => IsComplete(o)

\* A run that nobody quit ends only when the whole list has reached every output
\* and all probes have seen the end, with the status that tells the controller
\* whether to play it again (OnPipelineEOS).
EndIsComplete ==
    exit_status # NoExit /\ ~told =>
        /\ \A o \in Sinks : IsComplete(o)
        /\ CountOutEOS = Cardinality(Sinks)
        /\ CountInputEOS = 1
        /\ exit_status = IF vod THEN "EXIT_SELF" ELSE "EXIT_INNER"

\* A list that ends is played to its end and the stream is destroyed, and so is
\* every stream that is quit from elsewhere, unless it spins: then the pipeline
\* cannot be stopped.
ListEnds ==
    []<>(exec = "destroyed" \/ (~Ends /\ (Spins \/ ~told)))
===============================================================================
