# A TLA+ verification project for fastocloud

fastocloud is a media service. One daemon (`src/src/server`) is driven by a
control panel over TCP (JSON-RPC). For every stream it forks a process that runs
a GStreamer pipeline (`src/src/stream`). Between daemon and process there are two
pipes: commands go down (stop, restart), statistics come up. Three HTTP servers
serve files; two of them start streams on demand.

This directory holds TLA+ modules for the parts of that system, TLC
configurations for small instances, and TLAPS proofs for all instances. Line
numbers below are those of `src/`. The posix build is modelled.

## 1. Inventory

| part (source) | state | operations | interacts with |
|---|---|---|---|
| **stream controller** (`stream/stream_controller.cpp`) | `stop_`, `origin_`, `restart_attempts_`, the shared `StreamStruct` | `Exec` (one thread), `Stop`, `Restart`, command, end-of-file and timer handlers (libev thread) | daemon's pipe, the stream |
| **stream** (`stream/ibase_stream.cpp`, `stream/streams/`) | pipeline, main loop, `last_exit_status_`, status, watchdog deadlines | `Exec`, `Quit`, bus handlers, `HandleMainTimerTick` | controller, GStreamer's streaming threads |
| **data watchdog** (`ibase_stream.cpp`, `base/channel_stats.cpp`, `probes.cpp`) | byte counters, checkpoints, `no_data_panic_tick_`, `status_tick_` | probe callbacks, the tick of the main loop | streaming threads count, the main loop compares |
| **pipeline builders** (`stream/streams/builders/`, `stream/elements/`, `streams_factory.cpp`) | the elements, their links and probes, the connector of each medium | `CreatePipeLine` for every class of stream, pad-added and autoplug handlers | GStreamer, decodebin threads |
| **playlist streams** (`streams/*/playlist_*`) | the open file, the position in the list | need-data callback, end of stream | appsrc's thread, main loop |
| **timeshift** (`stream/timeshift.cpp`, `streams/timeshift/`) | a directory of numbered chunks, `chunk_.index`, `chunks_` of a catchup | `FindLastChunk`, `CalcNextIndex`, `FindChunkToPlay`, clean-up, the playlist of a catchup | recorder, player and daemon share the directory only |
| **configuration** (`server/options/`, `base/stream_config_parse.cpp`, `stream/configs_factory.cpp`, `streams/configs/`) | records of options | `ValidateConfig`, `MakeStreamInfo`, `make_config`, `make_config_copy` | daemon and stream process read the same options |
| **daemon main loop** (`server/process_slave_wrapper*.cpp`) | clients, children, pipe clients, five timers | service and stream requests, timers, child exits, pipe input | clients, stream processes, http threads (closures) |
| **child handle** (`server/child*.cpp`, `pipe/client.cpp`) | `client_`, `last_update_` | `Stop`, `Restart`, `SetClient`, `CleanUp` | the pipe |
| **protocol** (`server/daemon/`, `stream_commands/`) | open requests per connection | requests, answers, notifications, pings | panel, daemon, processes |
| **node statistics** (`commands_info/service/`, `MakeServiceStats`) | the previous shots of cpu and network | the report of the timer and of an activation | clients |
| **on-demand links** (`server/links_holder_ts.cpp`) | directory to configuration, under a mutex | `Find`, `Insert`, `Clear`, `Copy` | main loop (`Sync`, timer), http threads |
| **http file servers** (`server/http/`, `server/vods/`) | `http_root_`, connections, `online_clients_` | `DataReceived`, `OnHttpRequest`, `SetHttpRoot` | main loop, directories that streams fill |
| **m3u8** (`utils/m3u8_*.cpp`) | lines of a file | `Parse`, `WriteHeader`, `WriteLine`, `WriteFooter` | vods, catchups |
| **threads of the daemon** (`daemon_slave.cpp`, `Exec`, `gpu_stats/`) | pid file, ports, http, gpu and main threads | start, stop and join | other daemons of the host |

What makes them hard, and what makes them correct:

* *Stream controller.* Two threads, a condition variable whose notification is
  lost when nobody waits, a raw pointer (`origin_`) read without a lock, a
  return code stored after the loop was told to quit. Correct when a stop ends
  the process (except in the start-up window, where the code relies on the next
  end-of-file), pauses between restarts stay within their limits, and a vod is
  not produced twice.
* *Watchdog.* Racing, wrapping counters; a timer that is late; windows. Correct
  when every stall ends the run in bounded time and a healthy run goes on.
* *Pipelines.* A large space of configurations, `CHECK`s that end the process,
  pads that come in any order from several threads. Correct when a process ends
  on the configurations that cannot work and, as far as the code decides it, on
  no other, and data reaches every output.
* *Playlist streams.* Missing and empty files, several outputs that end at
  different times, a stop during a callback. Correct when the list is played in
  order and its end, and nothing else, ends the run.
* *Timeshift.* Crashes between any two steps, files removed by another process
  during a search. Correct when numbers follow time, nothing of the running
  recorder is overwritten, what was recorded is found, and a playlist that was
  cut off loses only its end.
* *Configuration.* Three checks in two processes over a hundred options. Correct
  when what the daemon accepts runs, both processes agree, and no option gets
  lost unseen.
* *Daemon.* The exit of a process and the end of its pipe arrive in either
  order; commands written to a pipe may never be read; forked processes inherit
  each other's pipe ends, so the end of a file does not come when the daemon
  closes its end. Correct when a stream has at most one process, no live process
  is forgotten, no dead object is used, and the service stops.
* *Protocol and broadcasts.* Answers cross pings with the same numbers,
  statistics are encoded twice and may be read after the exit they precede.
  Correct when every answer is to an open request and clients can tell the runs
  of a stream apart.
* *On demand and http.* A synchronisation replaces the links one by one while
  http threads look them up; a looked-up configuration is used later on another
  thread; directories and files change in the middle of a request. Correct when
  the links after a synchronisation are exactly those that were sent, idle
  channels end, requested ones run, and every request is answered once, from a
  directory the server has.
* *Threads.* Joins of threads nobody stopped, a pid file removed by name.
  Forked streams inherit the listening sockets. Correct when there is one daemon
  and it ends when told to or when it cannot start.

The hazards these modules are aimed at, with their lines, are the `hazards` of
`PROJECT.json`.

## 2. Modules

| module | models | actions |
|---|---|---|
| `StreamController` | both threads of a stream process | one per step between two synchronisation points of `Exec`, `StopStream`, the handlers, plus what the pipeline and the daemon do |
| `StreamWatchdog` | counters, checkpoints, decision to quit, status reports | load and store of a counter by a streaming thread and, for a changed duration, by the main loop; the two readings and the decision of a tick |
| `Elements`, `Pipeline` | the element factories; `streams_factory` and every builder it can reach | one per `Build*` stage of a class |
| `PadLinking` | decodebins and rtsp sources at work on a built pipeline | one per pad-added handler |
| `Playlist` | a run of a playlist stream, its probes and its end of stream | steps of the main thread, of appsrc's thread and of the sinks |
| `Timeshift` | numbering, clean-up and search of chunks | one per access to the directory |
| `M3u8`, `Catchup` | writer and reader of playlists; the runs of a catchup over its playlist | one per start and end of a run, per chunk named or opened; a write that stops anywhere |
| `StreamOptions`, `StreamConfig` | validators and readers of options; the way of a configuration from the request to the runs | one per hand-over between request, daemon, process and run |
| `SlaveDaemon` | the main loop as the parent of stream processes | one per request, timer, loop event; a stream process is reduced to reads, end of file, exit |
| `StreamRegistry` | abstract specification of the daemon: at most one instance per stream, none after the shutdown | `Start`, `Finish`, `Shutdown` |
| `Messages` | every message class: what is written, what is read back | operators only |
| `Requests` | requests, answers and pings of the clients | one per handler, and what connections do |
| `Reports` | statistics, source changes and exits on their way to clients | one per hand-over between process, pipe, daemon and connection |
| `NodeStats` | shots of the machine, `MakeServiceStats` | a report of the timer, an activation; a tick, a jiffy, a byte received; interfaces and shots that fail |
| `OnDemand` | `Sync`, both http threads, closures, the timers for idle cods and old files | one per lookup or update under the mutex, one per handler |
| `HttpFiles` | the three file servers | one per call a handler makes into file system or library |
| `DaemonThreads` | daemons of one host from `main` to its return | one per start, stop and join |
| `*Proofs` | theorems about the module of that name; `DaemonProofs` about `DaemonThreads`, `Reports` and `NodeStats`, `OnDemandProofs` about `OnDemand` and `StreamConfig`, `StreamWatchdogProofs` about `StreamWatchdog`, `Pipeline` and `PadLinking`, `TimeshiftProofs` about `Timeshift`, `Catchup` and `Playlist` | |
| `MC*` | instances for TLC: sets of streams, lists, symmetries | |

The modules meet at interfaces that one of them details and the other leaves
nondeterministic: `SlaveDaemon!ProcessReads(p, lost)` allows a command to be
lost, which is what `StreamController` does to a `Stop` that falls into the
start-up of a stream; `OnDemand`'s `lost` and `started` are outcomes of
`SlaveDaemon`; `StreamController!PipelineQuit` covers the `Quit` of
`StreamWatchdog!CheckData` and of `Playlist!OnPipelineEOS`;
`StreamController!FindChunkToPlay(found)` is the search that `Timeshift` details;
`HttpFiles` posts the closures `OnDemand` executes; the streams `Requests` calls
registered and writable are those of `SlaveDaemon`; that a pipeline is built, an
input of `StreamController`, is what `Pipeline` decides, from a configuration
`StreamConfig` delivers.

### How state and actions correspond to the code

*StreamController.* `exec_pc` names the position of `StreamController::Exec`
(138-242) and of `IBaseStream::Exec`; a step runs to the next point where the
other thread can be observed: the lock, the wait, the write of `origin_`, the
start or end of the main loop. `loop_pc` is the libev thread; `StopStream` reads
`origin_` in one step (`quit_target`) and calls `Quit` in the next, because the
pointer is read without a lock. When the object is gone by then the call is
undefined behaviour: the model lets it do nothing, reach the next stream or
crash the process. `idle_time` and `clock` are in milliseconds; `clock` is a
lower bound of the real time. `restart_attempts`, `wait_time` follow 197-216.

*StreamWatchdog.* One channel per direction stands for all: the code only sums
them. `loaded[t]` is the value a streaming thread has read and not yet
written back (`ibase_stream.cpp` 834-846), counters are taken modulo `size_t`.
`timer_pc` splits the tick at the two readings, since streaming threads count in
between. The main loop writes to the counters as well: when the bus tells of a
changed duration, `segment.duration`, -1 if it is not known, is added to the
counter of each http(s) input (663-673), by the same unlocked load
(`LoadForDuration`) and store (`AddDuration`). Which of several inputs it is added
to does not matter to the sum. `moved`, `added`, `seen`, `seen_added`, `silent`,
`unreported` and `raced` are history variables; `silent` is reset by anything that
moves a counter, a duration too.

*Elements, Pipeline, PadLinking.* An element is its name (a pattern and the number
put into it) and its plug-in; `elements`, `links`, `probes` and `conn` are what
the builder has collected. `stage` is the next `Build*` call; a name that exists
already, a refused link and a null element take it to "aborted", as the `CHECK`s
of `ElementAdd` and `ElementLink` do. A url is its scheme, or one whose scheme is
known and whose rest is of no use (`SchemeOf`): a udp or tcp host that does not
parse, an http path without the name of a playlist; encoders and parsers are known
or not, since the validators only warn (`options.cpp` 568). Only the links whose two
templates exclude each other are known to be refused (`CanLink`). Everything else is
GStreamer's: a plug-in may be missing, and a link may be refused for caps that a
queue or a tee passes on from further away. So any addition may end the process
(`GstDeclines`, stage "declined"). `emitted[b]` counts the pads decodebin
`b` has added, `fed` the links made by the handlers, `inited` the flags
`SetVideoInited` and `SetAudioInited` set, `meters` the channels a mosaic draws.

*Playlist.* A file is the number of its buffers or `Missing`; a buffer is the
position of its file in the list and its number in the file, which is how the
properties tell what follows what (`Follows`). `source_pc` is the
thread of appsrc, which is in the need-data callback while it is "need_data";
`OpenNextFile` and `ReadFile` are the two halves of its loop. `probe_in` and
`probe_out` are the `Consistency` records. `Quit` has an effect only while the
main loop runs (`HandleSyncBusMessageReceived`, 518-528). The race on the exit
status is in `StreamController`.

*Timeshift.* `files` and `mtime` are the directory; 0 stands for the time of a
file that does not exist. A recorder can be stopped or killed after each of its
steps. A clean-up removes any set of old files (the code goes on after a failed
removal; the daemon and the recorder both clean). Each run starts again at the
low numbers, because the index that was found is passed in the place of a
duration (`timeshift_recorder_stream.cpp` 76-82). The search is two steps: the
scan, and the reading of the times, which for a file removed in between uses a
variable that was never set (`timeshift.cpp` 85-86), any value of `UnsetTimes`.

*M3u8, Catchup.* A file is the sequence of its non-empty lines, a line a record
with its kind, and the lines that belong to an entry are found by their position.
A write can stop behind any line or inside one (`Cut`). Durations are rounded to
hundredths of a second when written (`Hundredths`); the reader multiplies a double
and cuts it to an integer (`m3u8_reader.cpp` 180), which may lose a nanosecond
(`Deviation`, any table of small errors) and is undefined when the product does not
fit (`TooLarge`).

*StreamOptions, StreamConfig.* A value is its kind; every option of
`ValidateConfig` has its validator, every field of a `Config` its reader. `stage`
follows the request: received, linked or forked, running, or how it ended.

*SlaveDaemon.* Handlers run one at a time, so an action is a whole handler with
every call it makes. `childs`, `pipes` and `client_` are three different lives
of a process in the daemon (registered child, registered pipe client, the
child's pointer to it). `holders[p]` are the processes that inherited the
write end of p's command pipe in `fork` (`process_slave_wrapper_posix.cpp`
46-152).

*Messages, Requests, Reports, NodeStats.* A JSON object is a record with the names
of its fields; decoding yields a set, empty on an error, so that optional and
mistyped fields are visible. `inbox[c]` is what client `c` has received, `wire[c]`
what it has sent, `pipe[p]` what process `p` has written and the daemon not read.
Numbers that pass through a narrower type are cut to its width. In `NodeStats` the
sum over the interfaces is the number of bytes they have counted, as a set
(`Counted`); `moved`, `broken` and what `report` holds besides its figures (the bytes
really received in its interval, the time, whether a fault touched the interval) are
history. The clock of `Reports` may stand still between two statistics, and the
resident set of a process exceeds an int.

*OnDemand.* `vods_links_` and `cods_links_` map a directory to a stream; every
`Clear`, `Insert` and `Find` is one step (one lock). `http[t]` is what a handler
remembers between the lookup and the closure it posts, `pending` the closures
queued at the main loop. `age` is the time since `last_update_`. `files` tells
apart what `CheckIsFullVod` and the file server see of a stream on disk.

*HttpFiles.* `thread[s]` is the request server `s` works on, with the directory it
has read, the file, what it saw and the answer. A place is a root and one of two
directories, the root itself or one below it; a url names one of them. Where no path
can be made of its directory, the handler falls back to the root, for which it reads
`http_root_` a second time (`vods/handler.cpp` 133-137). `http_root` and `next_root` are the two halves
of an unlocked write; what is read between them may be the old, the new or some
further directory (`Torn`), which may hold files like any other. That such a read can
also crash the daemon is `Killed` in `DaemonThreads`. `Changed` are the files
that streams and clean-ups touch.

*DaemonThreads.* `path` is the file the name of the pid file stands for, `inode`
and `lock` the open and locked ones; `exclusive` leaves open whether `FLAG_CREATE`
refuses an existing file, which the library decides. `port[r]` is who listens: nobody,
a foreign program, a daemon, or the streams a daemon has left behind, which inherited
its sockets in `fork` (`process_slave_wrapper_posix.cpp` 82-148 closes the pipes only)
and give them up when the last of them ends.

## 3. Runs

One run per part; two small models that share no state are joined in one run,
where a behaviour is one of the first or one of the second (variable `part`).

| run | checks | bounds | shows |
|---|---|---|---|
| `controller` | `Bookkeeping`, `RunsAreLimited`, `PeerCloseTerminates`, `CommandsTakeEffect` | every kind of stream, 2 attempts, run times of 0 and 20,001 ms, 1 fault, 1 command | 141,000 states: every placement of a command, a time to live and an end of file among the steps of `Exec` |
| `daemon` | `OneProcessPerStream`, `ProcessesAreKnown`, `ProcessesEnd`, `ImplementsRegistry` | 2 streams, 1 client, 2 processes, an undecodable message | shutdown with lost stops, inherited pipes, and refinement of `StreamRegistry` with its liveness |
| `ondemand` | `LinksFollowSync`, `UnlinkedOnlyBySync`, `IdleCodStops`, `RequestedCodRuns` | a vod, a cod with two directories, an invalid stream, one of another type; 2 synchronisations | leftovers, a link looked up before and used after a synchronisation, lost stops and requests that meet a dying process |
| `watchdog` | `StallEndsRun`, `QuitIsJustified`, `ReportsAreRegular` | windows of 1 s, lag of 1 s, 8 s, 2+1 threads, counters modulo 3, a duration of -1, 5 kinds of streams: with and without srt or udp outputs, with an http input | several windows, races on the input counter among threads and with the main loop, a wrap-around within a window, by bytes or by a duration |
| `pipeline` | `AbortsAreForeseen`, `GraphIsSound`, `DataFindsItsWay`, `PlaysTheList`, `EndIsComplete`, `PlaylistEnds` | 434 configurations, 5 sources; 22 lists, 2 outputs, 5 buffers | every class of stream, encoder, parser and kind of output, unknown encoders and parsers, urls of no use; pads in every order; every order of ends and quits. `GraphIsSound` is about pads, probes and which pads are linked, `DataFindsItsWay` about the ways through the graph |
| `recordings` | `ChunksAreOrdered`, `OwnChunksStay`, `SearchSucceeds`, `PlaylistIsFaithful` | 8 s, 3 runs; 2 runs of a catchup with up to 3 entries, times of 4 bits, hundredths of 4 ns | 2,292,000 states: restarts after gaps longer and shorter than a chunk, files expiring under recorder and player, a write cut off behind or inside any line |
| `config` | `AcceptedConfigurationRuns`, `ConfigIsAgreed`, `RequestReachesRun` | 12,598 requests, 3 runs each | every option missing, mistyped, at a boundary or right |
| `broadcasts` | `StatisticsArrive`, `ExitsAreTold`, `FiguresAreTrue` | 1 stream with 2 processes, 1 client, 3 statistics, a resident set beyond an int; 1 interface, counters up to 2, clock up to 3, 3 reports, 1 fault | 2,810,000 states: exits that overtake statistics, a client that comes late, figures that are cut to a width; a fault in the first, the second or the third interval, activations between two reports |
| `requests` | `AnswersAreMatched`, `ServedAreReported`, `RequestsAreAnswered` | 2 clients, every method right or malformed | crossing pings, two clients that prepare and stop in turn |
| `http` | `RequestsAreSettled`, `ServedFromCurrentRoot`, `PlaylistIsBacked` | a connection per server, 2 requests, 1 change of a root, 1 of a file; 2 roots and a torn one, each with a sub-directory | a root, read before, between and after its halves are written, or a file that changes between any two steps of a request; files beside those of the url |
| `threads` | `InstancesAreSeparate`, `StopEnds`, `FailedStartEnds` | 2 daemons, 3 ports, 4 configuration files | starts, kills and ends around one pid file, lost notifications, ports taken by a foreign program, another daemon or streams left behind: all of a daemon's ports, so that its failed start ends, or only the main one, so that it hangs |
| `recordings_overwrite` | `ExistingIsSkipped` (violated) | as `recordings` | the finding of section 5 |

Why the bounds are enough to meet the cases: two attempts let the counter pass
through "below", "at" and "reset", and the longer run time is above every limit
it is compared with; two processes of a stream allow a dying and a new one with an
inherited pipe at once; two synchronisations are needed for anything stale; the
watchdog's 8 seconds hold more than the longest silence
(`LongestSilence` = 6); the 8 seconds of a recorder hold two lives of a chunk; two
runs of a catchup are enough for one to read what another left; five buffers are a
list and a second round of it. The constants that bound a run (`MaxFaults`,
`MaxCommands`, `MaxForks`, `MaxSyncs`, `MaxPending`, `MaxTime`, `MaxPushed`, ...)
are in the guards, and the proofs hold for every value of them. Deadlock is
checked except in runs that end when a bound is reached or a stream is done. Symmetry
is used in `watchdog` (threads of a direction), where only invariants are checked.

Every property has a mutant in `PROJECT.json`: a definition of the model changed
the way a plausible mistake in the code would change it, under which TLC finds
the property violated.

## 4. Fairness

* `StreamController`: weak fairness of both threads (the operating system
  schedules them). Strong fairness of `LoopStopped`: libev leaves its iteration
  after `Stop` although the descriptor stays readable. Strong fairness of
  `ChunkWaitNotified` and `EofReachesWait`: the end of file is reported again in
  every iteration of the loop, so among infinitely many notifications some meet
  the exec thread in its wait. The pipeline and the daemon have no fairness:
  a stream may run for ever.
* `SlaveDaemon`: the loop delivers the quit timer, exits and ends of files;
  processes read their pipes, notice the end of the file and finish an exit they
  have begun (`StreamController!PeerCloseTerminates` is the reason). No fairness
  for clients, nor for a running stream to end.
* `OnDemand`: threads run and time passes. What the main loop does between two
  synchronisations (closures, timer, exits) has strong fairness, because a
  synchronisation disables it while it runs and the loop's queue is served
  afterwards. The exit of a process is only assumed for cods.
* `Playlist`: the main thread, appsrc's thread and the sinks go on while they can.
  Nobody is assumed to quit a stream.
* `Requests`: the daemon reads what has arrived. `DaemonThreads`: threads and
  loops run and the quit timer fires. `StopPerf` has strong fairness: the main
  thread gets the lock that the measuring thread takes and releases in turn. Nobody
  is assumed to stop a daemon.
* The others have none: "in time" is stated as a bound.

## 5. Findings

`recordings_overwrite`: `CalcNextIndex` carries the comment `if chunk exist move to
next` (`timeshift_recorder_stream.cpp`), but a second run names chunks that exist
and writes over them: the index found in the directory ends up as the duration of
the current chunk, so that every run begins with the low numbers.

Observed while modelling. Each of these is what the model does, and the properties
above describe what remains true:

*Stream process*

* A `Stop` in the start-up window of a stream (between the test of `stop_` and
  the start of the main loop) does not end that stream.
* A failed run resets the attempts and is repeated without a pause if it took any
  time at all, although the comment on the branch says `if longer work`
  (`stream_controller.cpp` 207); `is_longer_work` (197) is not used there.
* A stream with an srt or udp output whose output bytes are not counted keeps its
  first checkpoint for ever, although the comment says `Restart if no data, set
  new checkpoint` (`ibase_stream.cpp` 555, 824): a later stall of its input is not
  noticed. `StallEndsRun` leaves these streams out.
* A looped playlist of empty files never leaves the need-data callback, and the
  pipeline cannot be stopped (`playlist_relay_stream.cpp` 75). A file that cannot
  be opened ends the stream even when others follow.
* `timeshift_chunk_life_time` is read from the directory option
  (`stream_controller.cpp` 57), so it always has its default. With a delay of 0
  the search finds no chunk while the recorder writes.
* A udp output with mpeg audio ends in the `CHECK` of `ElementAdd`
  (`ibase_builder.cpp` 55), since both payloaders get one name; a mosaic with a udp
  output ends in that of `ElementLink` (74), the parser being behind the payloader, or
  without a payloader. Hosts that do not parse, an http output without the name
  of a playlist (`build_output.cpp` 42, 51, 64, `build_input.cpp` 68, 79) and encoders
  and parsers nobody knows (`video.cpp` 210) yield a null element, which is
  dereferenced. `Unbuildable` lists them. A udp output with nvh265enc, eavcenc or
  msdkh264enc passes `NOTREACHED` (`encoding_stream_builder.cpp` 83) and gets the
  payloader of h264, which is no matter of the list: whether the link fits is
  GStreamer's to say.
* A changed duration counts as bytes (`ibase_stream.cpp` 670). It hides a stall of an
  http input as long as durations keep changing; and one of -1, with one byte too few
  above the minimum, makes a healthy window look empty (`MisledByDurations`).
* The place of the probe in `probe_in_` is that of the input in the configuration, and
  the source is taken for an element with a segment (664-670): for streams whose
  probes are not one per input this is undefined, and not modelled.
* A catchup passes the number of its next chunk in the place of a duration
  (`catchup_stream.cpp`), so the first buffer of a second run, at time 0, ends the
  last entry of the first run with a duration just below 2^64. It is written as
  18446744073.71, which does not fit any more when it is read
  (`m3u8_reader.cpp` 180). Other durations may lose a nanosecond when they are read
  (2.01 s is 2009999999 ns) but do not drift from run to run.
* `SetAudioInited(false)` would keep exactly the audio flag (`ibase_stream.cpp`
  445); it is never called so.

*Configuration*

* A chunk duration of 0 passes validation and ends the process in a `CHECK`
  (`configs_factory.cpp` 440); so do restart attempts that are no integer (194).
  A recorder with several inputs and no outputs terminates it
  (`stream_controller.cpp` 149).
* The validators of `x264enc.pass`, `vaapih264enc.tune` and
  `vaapih264enc.rate-control` are inverted; `x264enc.cabac` is validated and never
  read; encoder options that look boolean are only read as integers.

*Daemon*

* When `fork` fails, `Failed to start children!` is logged
  (`process_slave_wrapper_posix.cpp` 150) and success is answered.
* The resident set size is cut to an int (`statistic_info.cpp` 174), the total of
  the bytes is the previous one (`channel_stats_info.cpp` 47).
* If the main server cannot bind while http servers run, the process hangs
  (`process_slave_wrapper.cpp` 250). `FailedStartEnds` says exactly when. Streams that
  outlive their daemon keep its ports, so that a restart right after a kill may meet
  this.
* Network interfaces whose name starts with "lo" are not counted; a rate over a
  time just below two seconds is almost doubled (`RateIsReal`). A network shot that
  cannot be read, or an interface that goes away, makes the rate of its interval, and
  of the next when the shot comes back, some 2^64 or the whole counter
  (`process_slave_wrapper.cpp` 1309); `FiguresAreTrue` says that no later report is
  spoilt.
* Timers of half the time to live of a cod, or a tenth of that of files, may be
  timers of 0 seconds. Until the service is prepared the servers serve the home
  directory.
* An interrupted vod whose playlist has no end tag is served as complete
  (`m3u8_reader.cpp` 145), and its descriptor is never closed (73).

## 6. Proofs

All theorems are proved for every value of the constants that satisfies the
`ASSUME` of the module. An invariant the runs check is seldom inductive by
itself; the strengthening of each:

* `StreamControllerProofs`. `TypeCorrect`. `StopLimitsRuns` (`OneRunAfterStop`)
  from `StopInv`: between the test of `stop_` and the creation of the stream
  nothing has been created since the stop, so one run can be added and no more.
  `PausesAreBounded` from `PauseInv`: the attempts counted so far leave room for
  one more (`PauseUnit` and `PauseAfterBounded` are the
  arithmetic of `attempts * (frozen / max)`). `VodIsNotRepeated`,
  `IdleTimeIsBounded` and `PlayingIsLooping` from `RunInv`: a vod whose exec
  thread still has a run ahead of it has not run yet. `BookkeepingHolds` and
  `RunsHaveLimits` put them together as the run states them.
* `SlaveDaemonProofs`. `SafeInv` is the conjunction of "process ids are new"
  (`PidsAreNew`), "a stream has one child" (`OneChildPerStream`) and the three
  invariants `NoDanglingClient`, `ProcessesAreTracked`, `HoldersAreYounger`;
  `OneProcessPerStream` and `ProcessesAreAccounted` follow. It needs
  `OneChildPerStream`, since the start of a stream looks at children, not at
  processes. `RegistryIsImplemented`: each step maps to a step or a stutter of
  `StreamRegistry` under the mapping of `ImplementsRegistry` (safety part; its
  liveness is checked by the run `daemon`).
* `OnDemandProofs`. `LinksAreOfTheList` from `SyncInv`: while
  line `sync_i`, output `sync_j` is being added, each directory holds the last
  stream that offered it among those already processed. `UnlinkedBySyncOnly` from
  `LookupInv`: a cod that an http thread remembers, a queued closure names or a child
  runs is on the list of the synchronisation it was looked up in, as long as that
  is the last one.
  The second half is about `StreamConfig`. `ConfigInv` says for each holder what it
  has of the request: `DaemonInv` (what was validated), `LineInv` (the link),
  `ProcessInv` (what the process read), `CopyInv` (what a run was given). It rests
  on lemmas about the tables of options: `TablesAgree` and `ValidatedArg` (an
  option of an encoder that its validator lets through has the kind it is read
  with, but for the inverted and the unvalidated ones), `DurationRead` and `CleanupRead` (which checked values survive the
  reading). `AcceptedConfigurationsRun`, `ConfigStaysAgreed` and
  `RequestsReachRuns` follow.
* `StreamWatchdogProofs`. `StallsAreNoticed` from `TimerInv` and `StallInv`
  (the age of a checkpoint is bounded by a late window; what moved since the
  checkpoint moved recently). `ReportsKeepComing` from `ReportInv`.
  `QuitsAreJustified` and `QuitsHaveReasons` from `QuitInv`: unless a counter was
  raced, it is its checkpoint plus the bytes and durations counted since, less
  `Modulus` once or twice (`Exact`); a store by a thread and one by the main loop keep
  that (`StoreIsExact`, `DurationIsExact`), so the difference a tick computes is that
  sum modulo `Modulus` (`DiffIsExact`), which without durations is the number of bytes
  that moved.
* `TimeshiftProofs`. `OrderIsKept` (`NumbersFollowTime`, `LaterRunsAreLower`) and
  `OwnStay`: the chunks of the running recorder are the lowest but for number 0,
  and the next number is free or belongs to an earlier run. `SearchesSucceed` from
  `SearchInv`: every second of steady writing is covered by a chunk that no
  clean-up may take yet (`CoverInv`), and by one in the list of a search
  that has scanned the directory (`ListInv`). `FindChunkResult` says what the search
  returns. The proof showed that `PlaysNearDesired` needs
  `Delay + MaxLength <= LifeTime + 1`: otherwise a clean-up may take the chunk of
  the desired time and the search begins later. The run is on that boundary.
  About `Catchup`: `PlaylistsAreFaithful` from `CatchupInv`: the file is a beginning
  of the lines of `written` (`FileInv`), the durations a run has loaded are
  hundredths as the reader makes them (`LoadedInv`), and a run keeps the entries it
  loaded but for the duration of the last (`RunInv`). `ParseWritten` computes what the reader makes of every cut of
  every list, `RoundTrip` and `NoDrift` are the arithmetic of rounding to hundredths
  and back with an inexact product; the counts of leading lines in the reader are
  shown to be the positions where the writing stopped.
* `DaemonProofs`, about `DaemonThreads`. `DaemonIsAlone` and `NothingIsLeft`, together
  `InstancesStaySeparate`: a daemon holds the lock of the file it opened exactly
  between `LockPidFile` and `UnlockPidFile` (`LocksAreHeld`), with exclusive creation
  only one of them is between opening and removing (`FileIsExclusive`), and threads,
  timers and ports are those of a daemon inside `Exec` (`ThreadsAreOfExec`).
  About `Reports`: `StatisticsDoArrive` and `ExitsAreToldOnce` from `ReportsInv`: a
  process starts when the earlier ones of its stream are gone (`RunsInv`); what is in
  a pipe was sent and is in order (`PipeInv`), and so is what a client has got
  (`NotesInv`), where the pipe holds only later statistics (`OrderInv`); a client
  knows of every exit but those it could not be told, and of each one before it
  hears of the next process (`ToldInv`).
  `StatEncoded` and `StatDecoded` carry a statistic through its two encodings.
  About `NodeStats`: `FiguresStayTrue` from `NodeInv`: the previous cpu shot, or the zero
  of one that was not read, is not above the counters (`CpuShotInv`), and in an
  interval that no fault has touched what the interfaces have counted is the previous
  shot plus what came since (`NetShotInv`), which the first good shot after a fault
  establishes again; the last report is encoded as its receiver expects (`ReportInv`). `OneMoreCounted` and `CountedFits` replace
  the sum over the interfaces by the size of a set; `LoadBound` and `RateBound` are
  the arithmetic of the divisions, `ReportDecoded` carries the figures through JSON.
* `HttpFilesProofs`. `RequestsSettle`, `FilesAreOfTheRoot` and `PlaylistsAreBacked` from
  `IndInv`: for the request a server works on, its position fixes the number of
  answers, whether a descriptor is open and whether a start was posted (`Stage`);
  the root it read is one of those the server had meanwhile or, if there were several,
  the torn one, and its directory is that of the url unless there were several
  (`Noted`, `RootIsNoted`);
  the chunks named are those found plus those still to look at (`VodIsChecked`).
* `RequestsProofs`. `AnswersStayMatched` and `ServedStayReported` from `IndInv`: per
  client, requests are numbered (`AskedInv`) and read and answered in that order, so
  the answers written are below the requests still on the wire (`WireInv`,
  `InboxInv`), and the daemon waits for the pings that were not answered or whose
  answer it has not read (`PendingInv`); `StopInv` ties the one successful stop to the
  timer that is running, `RootsInv` the directories to the last preparation.
* `TimeshiftProofs`, about `Playlist`. `ListIsPlayed` and `EndsAreComplete` from
  `PlaylistInv`: what is on its way to a sink follows, item by item, what the sink
  has got and then each other (`QueuesInv`); the item pushed last is the same for
  all sinks, and the reader stands right behind it, with nothing but empty files
  in between (`SourceInv`); once the end was posted nothing is on its way
  (`EndInv`), and the threads run only between `Play` and the end of `Stop`
  (`PhaseInv`). `ReadsNext`, `ReadsEnd`, `NoMore` and `OpensNext` say what the loop
  of the need-data callback does over missing and empty files and round after round.
* `StreamWatchdogProofs`, about `Pipeline` and `PadLinking`. `GraphStaysSound` from
  `SoundInv`, the conjunction of `GraphInv`, about the builder, and `PadInv`, about
  the pads. `GraphInv`: every link joins elements of the pipeline and none has a
  second peer on a side with one pad (`LinkInv`); a probe stands at the element whose
  number it reports (`ProbeInv`); behind every decodebin are the connections its pads
  will be linked to (`BinInv`); the connector of a medium is an element with a
  free source pad, or a tee (`ConnInv`), and which parts exist follows from `stage`
  (`StageInv`). `PadInv`: a decodebin has added as many pads as it counted
  (`CountInv`), a linked pad is one of those and was the first that fitted (`FedInv`,
  `InitedInv`), and the meters of a cell count every channel that was linked
  (`CellInv`). A stage is a concatenation of lines of optional elements: `Concat`,
  `JoinedGraph`, `AddLinks` and `TwoLines` say once what adding such lines does to the
  graph, `OutputKeeps` and `SinksKeep` what an output does, and every builder is an
  instance of them.
  `AbortsStayForeseen` from `ExactSound`, which adds to `SoundInv` what was not bad so far
  and why the building ended as it did (`ExactInv`): nothing that makes a
  configuration unbuildable has been met by the parts that are built (`FineInv`); an
  ended building ended for its reason (`OutcomeInv`); which elements exist
  at a stage, by the names the code composes for them, so that an element that is added
  is new (`NameInv`); and in front of the encoders no element offers a fixed format,
  so that a link there is never refused (`SoftInv`). `UnbuildableIs` splits
  `Unbuildable` into what each part contributes, unknown encoders and parsers
  (`NamesUnknown`) and outputs (`BadOutput`, `BadMosaicOutput`) apart;
  `UnknownParserEnds` and `UnknownEncoderEnds` show that a null element is met where
  the line it belongs to is added, and `DeclinesExact` that nothing is claimed where
  GStreamer declines. For every part two lemmas then say
  that it is added without a failed `CHECK` when its share of the condition is false
  and aborts when it is true: `AddGood` and `AddBad` for lines of elements, `TwoGood`
  for the two media of a stage, `OutputGood` and `OutputBad` for the muxer and sink of
  an output, `MosaicVideoGood`, `MosaicVideoBad` and `MosaicAudioIs` for the mixers.

The assumptions: bounds are natural numbers, durations positive, sets of
connections, servers and daemons finite (`Cardinality` is used), and requests of
`StreamConfig` are records whose fields hold values of a JSON kind
(`RequestsAssumption`); a playlist has at least one file, as `streams_factory` makes
one only of several inputs (`PlaylistAssumption`); configurations and tracks have
values of their types (`ConfigsAssumption`, `SourcesAssumption`); a product read from
a playlist is off by less than half a hundredth (`M3u8Assumption`), chunk numbers are
below the invalid one (`CatchupAssumption`), and the machine's counters and their sum
stay below the limit of their type (`NodeStatsAssumption`). TLC evaluates them in the
runs.

Only model-checked:

* what depends on fairness or `ENABLED`, which the prover does not handle:
  `PeerCloseTerminates`, `CommandsTakeEffect`, `ProcessesEnd`, `IdleCodStops`,
  `RequestedCodRuns`, `RequestsAreAnswered`, `StopEnds`, `FailedStartEnds`,
  `PlaylistEnds` and the liveness of `ImplementsRegistry`;
* `DataFindsItsWay`: the elements data can reach are a recursive function over the
  number of links passed, and what it computes for a graph of any size would need an
  induction.

## 7. Abstractions

* Spurious wake-ups of condition variables and a clock set back are left out.
* JSON, log messages and file names appear as the cases they lead to; numbers that
  change on the way are converted as the code does.
* A GStreamer pipeline is what it may do to the controller: reach a state, end,
  fail, or run on. In `Playlist` it is a queue per output that keeps the order.
* `splitmuxsink` creates a file when it has the name, closes a chunk at the first
  key frame after its duration and at most `MaxLength` seconds after its start.
* Writes to a pipe of a live process succeed; what is written to a dead one is
  lost. `Stop` of a loop that has not started is remembered.
* Whether `FLAG_CREATE` refuses an existing file is decided by a library: both are
  modelled in `DaemonThreads`; in `Catchup` an exclusive open loses the run's list
  and the other one truncates.
* Which plug-ins are installed and which caps are negotiated is GStreamer's; of the
  caps only what makes a link certain to be refused is in the model.
* What the setters write into elements (addresses, sizes, bit rates) decides no
  link and is left out.

## 8. Not modelled

* Option records for machine learning and Kinesis plugins, and the parts compiled
  in with them; the Windows port; the vendor libraries behind `gpu_stats`.
* `FakeStream`, `ScreenStream` and the depay elements, which nothing constructs;
  `PostHttpFile` and the log requests that use it, which only send files.
* Dumps of pipelines, drawing of logos and meters, formatting of file names.

What could follow: a composition of `SlaveDaemon` and `OnDemand` over one set of
processes.
