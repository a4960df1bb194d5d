------------------------------- MODULE OnDemand -------------------------------
(***************************************************************************)
(* Streams on demand: vods and channels (cods) that the daemon starts when *)
(* an http client asks for their playlist                                  *)
(* (src/src/server/process_slave_wrapper.cpp, links_holder_ts.cpp and the  *)
(* http handlers).                                                         *)
(*                                                                         *)
(* Three threads: the main loop owns the children and replaces the links   *)
(* when the control panel synchronises; the vods and the cods thread look  *)
(* links up, each lookup and update under the mutex of one LinksHolderTS,  *)
(* and post closures to the main loop (ExecInLoopThread).                  *)
(*                                                                         *)
(* Streams started and stopped by the panel are module SlaveDaemon.        *)
(***************************************************************************)
EXTENDS Integers, Sequences, FiniteSets

CONSTANTS
    Vods, Cods,   \* streams of types VOD_* and COD_*
    Others,       \* streams of other types, which Sync ignores
    Invalid,      \* streams whose configuration ValidateConfig refuses
    NoStream,     \* no link
    Roots,        \* http directories
    HttpRoots,    \* the http directories of the outputs of each stream
    SyncLists,    \* what the panel may send: lists of streams
    cods_ttl,     \* Config::cods_ttl, in ticks of the clock
    MaxSyncs,     \* bound: synchronisations
    MaxPending,   \* bound: closures waiting for the main loop
    MaxFaults     \* bound: starts that fail, stops that are lost, and ends of
                  \* streams by themselves

Streams == Vods \cup Cods \cup Others

ASSUME OnDemandAssumption ==
    /\ Vods \cap Cods = {}
    /\ Others \cap (Vods \cup Cods) = {}
    /\ NoStream \notin Streams
    /\ IsFiniteSet(Streams)
    /\ HttpRoots \in [Streams -> Seq(Roots)]
    /\ SyncLists \subseteq Seq(Streams)
    /\ <<>> \in SyncLists
    /\ cods_ttl \in Nat
    /\ MaxSyncs \in Nat
    /\ MaxPending \in Nat
    /\ MaxFaults \in Nat

VARIABLES
    vods_links_, \* LinksHolderTS of the vods: directory to stream
    cods_links_, \* and of the cods
    sync_pc,     \* where the main loop is in a synchronisation
    sync_list,   \* the streams of the last synchronisation
    sync_i,      \* the stream of sync_list that is added next
    sync_j,      \* the output of that stream that is linked next
    syncs,       \* history: times the cods were cleared
    http,        \* what each http thread is doing
    pending,     \* closures posted to the main loop
    child,       \* the process of each stream
    age,         \* time since last_update_ of the Child of each cod
    born,        \* history: syncs when the cod's link was looked up
    files,       \* playlist and chunks of each stream on disk
    monitored,   \* folders_for_monitor_ holds the directories
    faults       \* failures so far

link_vars  == <<vods_links_, cods_links_, sync_pc, sync_list, sync_i, sync_j,
                syncs>>
child_vars == <<child, age, born, files, monitored, faults>>
vars       == <<link_vars, http, pending, child_vars>>

Idle        == [pc |-> "idle", stream |-> NoStream, m3u8 |-> FALSE, at |-> 0]
ChildStates == {"none", "running", "ending"}
FileStates  == {"absent", "partial", "complete", "damaged"}

MainLoopFree == sync_pc = "idle"
NoLinks      == [r \in Roots |-> NoStream]
Linked(s)    == \E r \in Roots : cods_links_[r] = s

Init ==
    /\ vods_links_ = NoLinks
    /\ cods_links_ = NoLinks
    /\ sync_pc = "idle"
    /\ sync_list = <<>>
    /\ sync_i = 1
    /\ sync_j = 1
    /\ syncs = 0
    /\ http = [t \in {"vods", "cods"} |-> Idle]
    /\ pending = <<>>
    /\ child = [s \in Streams |-> "none"]
    /\ age = [s \in Cods |-> 0]
    /\ born = [s \in Cods |-> 0]
    /\ files = [s \in Streams |-> "absent"]
    /\ monitored = FALSE
    /\ faults = 0

-----------------------------------------------------------------------------
(* HandleRequestClientSyncService on the main loop. Every step is a section *)
(* under a mutex; the http threads may look a link up between two of them.  *)

ClearVods(list) ==
    /\ MainLoopFree
    /\ syncs < MaxSyncs
    /\ vods_links_' = NoLinks
    /\ sync_list' = list
    /\ sync_pc' = "clear_cods"
    /\ UNCHANGED <<cods_links_, sync_i, sync_j, syncs, http, pending,
                   child_vars>>

Mutant_CodsNotCleared ==
    /\ sync_pc = "clear_cods"
    /\ syncs' = syncs + 1
    /\ sync_pc' = "add"
    /\ sync_i' = 1
    /\ sync_j' = 1
    /\ UNCHANGED <<vods_links_, cods_links_, sync_list, http, pending,
                   child_vars>>

ClearCods ==
    /\ sync_pc = "clear_cods"
    /\ cods_links_' = NoLinks
    /\ syncs' = syncs + 1
    /\ sync_pc' = "add"
    /\ sync_i' = 1
    /\ sync_j' = 1
    /\ UNCHANGED <<vods_links_, sync_list, http, pending, child_vars>>

\* AddStreamLine returns early for a configuration that is not valid, and does
\* nothing for a stream that is not on demand.
OutputsToLink(s) ==
    IF s \in (Vods \cup Cods) \ Invalid THEN HttpRoots[s] ELSE <<>>

\* Insert of the next output of the stream in turn.
InsertLink ==
    /\ sync_pc = "add"
    /\ sync_i <= Len(sync_list)
    /\ LET s == sync_list[sync_i] IN
        /\ sync_j <= Len(OutputsToLink(s))
        /\ IF s \in Vods
           THEN /\ vods_links_' = [vods_links_ EXCEPT ![HttpRoots[s][sync_j]] = s]
                /\ UNCHANGED cods_links_
           ELSE /\ cods_links_' = [cods_links_ EXCEPT ![HttpRoots[s][sync_j]] = s]
                /\ UNCHANGED vods_links_
    /\ sync_j' = sync_j + 1
    /\ UNCHANGED <<sync_pc, sync_list, sync_i, syncs, http, pending, child_vars>>

NextStreamLine ==
    /\ sync_pc = "add"
    /\ sync_i <= Len(sync_list)
    /\ sync_j > Len(OutputsToLink(sync_list[sync_i]))
    /\ sync_i' = sync_i + 1
    /\ sync_j' = 1
    /\ UNCHANGED <<vods_links_, cods_links_, sync_pc, sync_list, syncs, http,
                   pending, child_vars>>

Mutant_ClearedLast ==
    /\ sync_pc = "add"
    /\ sync_i > Len(sync_list)
    /\ sync_pc' = "idle"
    /\ cods_links_' = NoLinks
    /\ UNCHANGED <<vods_links_, sync_list, sync_i, sync_j, syncs, http, pending,
                   child_vars>>

SyncDone ==
    /\ sync_pc = "add"
    /\ sync_i > Len(sync_list)
    /\ sync_pc' = "idle"
    /\ UNCHANGED <<vods_links_, cods_links_, sync_list, sync_i, sync_j, syncs,
                   http, pending, child_vars>>

-----------------------------------------------------------------------------
(* OnHttpRequest on the http threads.                                      *)

\* LinksHolderTS::Find without a result: the answer is FORBIDDEN, nothing else.
Forbid(t, links, r) ==
    /\ http[t].pc = "idle"
    /\ links[r] = NoStream
    /\ UNCHANGED vars

\* LinksHolderTS::Find with a result.
Find(t, links, r, m3u8) ==
    /\ http[t].pc = "idle"
    /\ links[r] # NoStream
    /\ http' = [http EXCEPT ![t] =
                   [pc |-> "found", stream |-> links[r], m3u8 |-> m3u8,
                    at |-> syncs]]
    /\ UNCHANGED <<link_vars, pending, child_vars>>

FindVod(r)       == Find("vods", vods_links_, r, TRUE)
FindCod(r, m3u8) == Find("cods", cods_links_, r, m3u8)

\* CheckIsFullVod: a playlist with at least one chunk counts as full when all
\* the chunks it lists exist, whether or not it has been ended.
CheckIsFullVod(s) == files[s] \in {"partial", "complete"}

\* The closure of a request: m3u8 starts the stream, a cod is also touched.
Post(t) ==
    /\ Len(pending) < MaxPending
    /\ pending' = Append(pending, [stream |-> http[t].stream,
                                   create |-> http[t].m3u8,
                                   touch |-> t = "cods",
                                   at |-> http[t].at])

\* The vods thread: a vod that is there is only sent; otherwise, or when its
\* playlist cannot be opened, it is started.
PostVod(opened) ==
    /\ http["vods"].pc = "found"
    /\ IF opened /\ CheckIsFullVod(http["vods"].stream)
       THEN pending' = pending
       ELSE Post("vods")
    /\ http' = [http EXCEPT !["vods"] = Idle]
    /\ UNCHANGED <<link_vars, child_vars>>

PostCod ==
    /\ http["cods"].pc = "found"
    /\ Post("cods")
    /\ http' = [http EXCEPT !["cods"] = Idle]
    /\ UNCHANGED <<link_vars, child_vars>>

-----------------------------------------------------------------------------
(* The main loop.                                                          *)

\* The closure: CreateChildStream, unless the stream has a child, dead or
\* alive, and then UpdateTimestamp of the child if there is one. A new child
\* has the current time as its last update, which is read for cods only.
\* Nobody looks at the result.
RunClosure(started) ==
    /\ MainLoopFree
    /\ pending # <<>>
    /\ pending' = Tail(pending)
    /\ LET c == Head(pending)
           s == c.stream
           starts == c.create /\ started /\ child[s] = "none" IN
        /\ IF starts
           THEN /\ child' = [child EXCEPT ![s] = "running"]
                /\ born' = [r \in Cods |-> IF r = s THEN c.at ELSE born[r]]
           ELSE UNCHANGED <<child, born>>
        /\ age' = [r \in Cods |->
                     IF r = s /\ (starts \/ (c.touch /\ child[s] # "none"))
                     THEN 0 ELSE age[r]]
        /\ faults' = IF c.create /\ child[s] = "none" /\ ~started
                     THEN faults + 1 ELSE faults
        /\ faults' <= MaxFaults
    /\ UNCHANGED <<link_vars, http, files, monitored>>

Mutant_ChecksVods ==
    {s \in Vods : Linked(s) /\ child[s] # "none" /\ age[s] > cods_ttl}

\* Cods that are linked and nobody asked for within cods_ttl.
Expired == {s \in Cods : Linked(s) /\ child[s] # "none" /\ age[s] > cods_ttl}

\* check_cods_vods_timer_: a Stop for every one of them, which reaches the
\* stream or is lost.
CodsTimer(lost) ==
    /\ MainLoopFree
    /\ Expired # {}
    /\ lost \subseteq Expired
    /\ faults + Cardinality(lost) <= MaxFaults
    /\ faults' = faults + Cardinality(lost)
    /\ child' = [s \in Streams |-> IF s \in Expired \ lost THEN "ending"
                                   ELSE child[s]]
    /\ UNCHANGED <<link_vars, http, pending, age, born, files, monitored>>

Mutant_ChildNotDeleted(s) ==
    /\ MainLoopFree
    /\ child[s] = "ending"
    /\ files' = IF s \in Cods THEN [files EXCEPT ![s] = "absent"] ELSE files
    /\ UNCHANGED <<link_vars, http, pending, child, age, born, monitored,
                   faults>>

\* ChildStatusChanged: the child is forgotten; CleanUp removes the directories
\* of a cod, those of a vod stay.
ChildStatusChanged(s) ==
    /\ MainLoopFree
    /\ child[s] = "ending"
    /\ child' = [child EXCEPT ![s] = "none"]
    /\ files' = IF s \in Cods THEN [files EXCEPT ![s] = "absent"] ELSE files
    /\ age' = [r \in Cods |-> IF r = s THEN 0 ELSE age[r]]
    /\ UNCHANGED <<link_vars, http, pending, born, monitored, faults>>

\* HandleRequestClientPrepareService: from now on old files are removed. The
\* handlers get their http directories too; before, they serve the home
\* directory, so a request for any path can arrive at any time.
PrepareService ==
    /\ MainLoopFree
    /\ monitored' = TRUE
    /\ UNCHANGED <<link_vars, http, pending, child, age, born, files, faults>>

\* check_old_files_timer_ removes old chunks; playlists stay.
RemoveOldFiles(s) ==
    /\ MainLoopFree
    /\ monitored
    /\ files[s] \in {"partial", "complete"}
    /\ files' = [files EXCEPT ![s] = "damaged"]
    /\ UNCHANGED <<link_vars, http, pending, child, age, born, monitored,
                   faults>>

-----------------------------------------------------------------------------
(* The stream processes and the clock.                                     *)

ChildWrites(s) ==
    /\ child[s] = "running"
    /\ files[s] # "partial"
    /\ files' = [files EXCEPT ![s] = "partial"]
    /\ UNCHANGED <<link_vars, http, pending, child, age, born, monitored,
                   faults>>

\* A stream ends by itself: a vod when it is complete, any stream by failing.
ChildEnds(s, complete) ==
    /\ child[s] = "running"
    /\ complete => s \in Vods /\ files[s] = "partial"
    /\ faults < MaxFaults
    /\ faults' = faults + 1
    /\ child' = [child EXCEPT ![s] = "ending"]
    /\ files' = IF complete THEN [files EXCEPT ![s] = "complete"] ELSE files
    /\ UNCHANGED <<link_vars, http, pending, age, born, monitored>>

\* Time passes; beyond cods_ttl its amount does not matter.
Tick ==
    /\ age' = [s \in Cods |-> IF child[s] # "none" /\ age[s] <= cods_ttl
                                 THEN age[s] + 1 ELSE age[s]]
    /\ age' # age
    /\ UNCHANGED <<link_vars, http, pending, child, born, files, monitored, faults>>

-----------------------------------------------------------------------------
SyncNext ==
    \/ \E list \in SyncLists : ClearVods(list)
    \/ ClearCods
    \/ InsertLink
    \/ NextStreamLine
    \/ SyncDone

HttpNext ==
    \/ \E r \in Roots : \/ Forbid("vods", vods_links_, r)
                       \/ Forbid("cods", cods_links_, r)
    \/ \E r \in Roots : FindVod(r)
    \/ \E r \in Roots, m3u8 \in BOOLEAN : FindCod(r, m3u8)
    \/ \E opened \in BOOLEAN : PostVod(opened)
    \/ PostCod

LoopNext ==
    \/ \E started \in BOOLEAN : RunClosure(started)
    \/ \E lost \in SUBSET Expired : CodsTimer(lost)
    \/ \E s \in Streams : ChildStatusChanged(s) \/ RemoveOldFiles(s)
    \/ PrepareService

ProcessNext ==
    \E s \in Streams :
        \/ ChildWrites(s)
        \/ \E complete \in BOOLEAN : ChildEnds(s, complete)

Next == SyncNext \/ HttpNext \/ LoopNext \/ ProcessNext \/ Tick

\* All threads run and time passes. A closure may have to wait while the main
\* loop synchronises, hence strong fairness of what the loop does in between.
Fairness ==
    /\ WF_vars(ClearCods \/ InsertLink \/ NextStreamLine \/ SyncDone)
    /\ WF_vars(\E opened \in BOOLEAN : PostVod(opened))
    /\ WF_vars(PostCod)
    /\ WF_vars(Tick)
    /\ SF_vars(\E started \in BOOLEAN : RunClosure(started))
    /\ SF_vars(\E lost \in SUBSET Expired : CodsTimer(lost))
    /\ \A s \in Cods : SF_vars(ChildStatusChanged(s))

Spec == Init /\ [][Next]_vars /\ Fairness

-----------------------------------------------------------------------------
(* Properties.                                                             *)

HttpStates == {Idle} \cup [pc : {"found"}, stream : Streams, m3u8 : BOOLEAN,
                           at : Nat]
Closures   == [stream : Streams, create : BOOLEAN, touch : BOOLEAN, at : Nat]

\* Every variable keeps its type.
TypeOK ==
    /\ vods_links_ \in [Roots -> Vods \cup {NoStream}]
    /\ cods_links_ \in [Roots -> Cods \cup {NoStream}]
    /\ sync_pc \in {"idle", "clear_cods", "add"}
    /\ sync_list \in SyncLists
    /\ sync_i \in Nat \ {0}
    /\ sync_j \in Nat \ {0}
    /\ syncs \in Nat
    /\ http \in [{"vods", "cods"} -> HttpStates]
    /\ pending \in Seq(Closures)
    /\ child \in [Streams -> ChildStates]
    /\ age \in [Cods -> Nat]
    /\ born \in [Cods -> Nat]
    /\ files \in [Streams -> FileStates]
    /\ monitored \in BOOLEAN
    /\ faults \in 0..MaxFaults

\* Stream number a of the synchronised list has an output in directory r.
Offers(kind, a, r) ==
    /\ sync_list[a] \in kind \ Invalid
    /\ \E b \in 1..Len(HttpRoots[sync_list[a]]) : HttpRoots[sync_list[a]][b] = r

\* A directory is linked to the last stream of the list that offers it, and to
\* none if no stream does.
LinkedToLast(links, kind) ==
    \A r \in Roots :
        LET offering == {a \in 1..Len(sync_list) : Offers(kind, a, r)} IN
        \/ offering = {} /\ links[r] = NoStream
        \/ \E a \in offering :
            /\ links[r] = sync_list[a]
            /\ \A b \in offering : b <= a

\* After a synchronisation the links are exactly those of the list: what was
\* offered before and is no longer, is gone, although the holders are cleared
\* and filled link by link.
SyncInstallsLinks ==
    MainLoopFree => LinkedToLast(vods_links_, Vods) /\ LinkedToLast(cods_links_, Cods)

\* The timer cannot see a cod that is not linked, and so never stops it. Such a
\* cod exists only if a synchronisation overtook the request that started it or
\* came later, or if all its directories now belong to other cods.
UnlinkedOnlyBySync ==
    \A s \in Cods :
        MainLoopFree /\ child[s] # "none" /\ ~Linked(s) =>
            \/ born[s] < syncs
            \/ \A b \in 1..Len(HttpRoots[s]) :
                cods_links_[HttpRoots[s][b]] # NoStream

Quiet(s) ==
    /\ http["cods"].stream # s
    /\ \A i \in 1..Len(pending) : pending[i].stream # s

\* A linked cod that nobody asks for any more ends, even if a Stop is lost.
IdleCodStops ==
    \A s \in Cods : <>[](Linked(s) /\ Quiet(s)) => <>[](child[s] = "none")

Requested(s) ==
    \E i \in 1..Len(pending) : pending[i].stream = s /\ pending[i].create

\* A cod whose playlist is asked for again and again runs again and again: a
\* request that meets its dying process is ignored, a later one is not.
RequestedCodRuns ==
    \A s \in Cods : []<>Requested(s) => []<>(child[s] = "running")

\* The holders hold streams of their own kind only, and after a synchronisation
\* exactly those of its list.
LinksFollowSync == TypeOK /\ SyncInstallsLinks
=============================================================================
