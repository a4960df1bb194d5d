------------------------------- MODULE HttpFiles -------------------------------
(***************************************************************************)
(* The http servers of the daemon: HttpHandler (src/src/server/http) for   *)
(* hls files, VodsHandler (src/src/server/vods) for vods and for cods.     *)
(*                                                                         *)
(* Each server has a thread and serves one request at a time. Meanwhile    *)
(* the main loop changes the directory of a server without a lock, and     *)
(* streams and clean-ups change files between any two calls a handler      *)
(* makes. The library's HttpClient answers and closes connections.         *)
(*                                                                         *)
(* A directory of a server and a directory below it hold one playlist each *)
(* and the chunks it may name. What becomes of the closures a request      *)
(* posts is module OnDemand.                                               *)
(***************************************************************************)
EXTENDS Integers, FiniteSets

CONSTANTS
    Connections,  \* the servers' connections
    ServerOf,     \* the server of each connection: "http", "vods" or "cods"
    Home,         \* the first http_root_ of every server
    Roots,        \* directories; a directory never prepared is Home
    Torn,         \* some further directory, read of http_root_ while it is written
    Linked,       \* places that have a link
    AtFirst,      \* what the files of a place are at first
    Written,      \* places whose files change
    Changed,      \* what a file may be changed to
    MaxRequests,  \* bound: requests
    MaxPrepares,  \* bound: changes of a directory
    MaxChanges    \* bound: changes of a file

\* Where files are: below a root, or what was read for one, directly or in a
\* sub-directory.
Dirs   == {"top", "sub"}
Places == (Roots \cup {Torn}) \X Dirs

\* A playlist names no chunk yet, one, or two.
Names     == {"playlist", "chunk0", "chunk1"}
Kinds     == {"none", "dir", "protected", "0", "1", "2"}
Chunks(f) == CASE f = "1" -> {"chunk0"} [] f = "2" -> {"chunk0", "chunk1"} [] OTHER -> {}

ASSUME HttpFilesAssumption ==
    /\ ServerOf \in [Connections -> {"http", "vods", "cods"}]
    /\ IsFiniteSet(Connections)
    /\ Home \in Roots /\ Torn \notin Roots
    /\ Linked \subseteq Places /\ Written \subseteq Places
    /\ AtFirst \in [Places -> Kinds] /\ Changed \subseteq Kinds
    /\ MaxRequests \in Nat /\ MaxPrepares \in Nat /\ MaxChanges \in Nat

VARIABLES
    conn,      \* state of each connection
    online,    \* online_clients_ of each handler
    http_root, \* http_root_ of each handler
    next_root, \* what the main loop is writing to http_root_
    files,     \* what is on disk
    thread,    \* what each server's thread is doing
    leaked,    \* files of M3u8Reader that stay open
    fds,       \* open descriptors of regular files
    posted,    \* closures posted to the main loop by the present request
    current,   \* history: roots of each server since its request began
    requests, prepares, changes  \* counts for the bounds

vars == <<conn, online, http_root, next_root, files, thread, leaked, fds, posted,
          current, requests, prepares, changes>>

Servers == {ServerOf[c] : c \in Connections}

\* A thread and its request. url is the directory the url names, dir the one
\* that is used. todo and found are chunks CheckIsFullVod has yet to look for
\* and has found.
Idle == [pc |-> "idle", conn |-> "", keep |-> FALSE, url |-> "top", name |-> "",
         root |-> Home, dir |-> "top", status |-> 0, todo |-> {}, found |-> {}, named |-> {},
         answers |-> 0, full |-> FALSE]

Init ==
    /\ conn = [c \in Connections |-> "new"]
    /\ online = [s \in Servers |-> 0]
    /\ http_root = [s \in Servers |-> Home]
    /\ next_root = [s \in Servers |-> Home]
    /\ files = [p \in Places |-> [n \in Names |-> AtFirst[p]]]
    /\ thread = [s \in Servers |-> Idle]
    /\ leaked = 0 /\ fds = 0
    /\ posted = [s \in Servers |-> 0]
    /\ current = [s \in Servers |-> {}]
    /\ requests = 0 /\ prepares = 0 /\ changes = 0

env_vars == <<http_root, next_root, files, current, prepares, changes>>

\* Where the request looks for its files, and what is there.
Place(s)      == <<thread[s].root, thread[s].dir>>
Content(s, n) == files[Place(s)][n]

-----------------------------------------------------------------------------
(* Connections.                                                            *)

\* Accepted: a new client of the server.
Accepted(c) ==
    /\ conn[c] = "new"
    /\ conn' = [conn EXCEPT ![c] = "open"]
    /\ online' = [online EXCEPT ![ServerOf[c]] = @ + 1]
    /\ UNCHANGED <<thread, leaked, fds, posted, requests, env_vars>>

\* Close and delete, with what the library calls (Closed).
Close(c) ==
    /\ conn' = [conn EXCEPT ![c] = "closed"]
    /\ online' = [online EXCEPT ![ServerOf[c]] = @ - 1]

\* A connection has something to read.
Readable(c) ==
    /\ conn[c] = "open"
    /\ thread[ServerOf[c]].pc = "idle"
    /\ requests < MaxRequests
    /\ requests' = requests + 1
    /\ UNCHANGED <<leaked, fds, env_vars>>

\* DataReceived: a failed or an empty read ends the connection. So does text
\* that is no request, after an answer.
NoRequest(c) ==
    /\ Readable(c)
    /\ Close(c)
    /\ UNCHANGED <<thread, posted>>

\* The end of ProcessReceived: without Keep-Alive the connection is closed.
Finish(s) ==
    /\ thread[s].pc = "finish"
    /\ IF thread[s].keep THEN UNCHANGED <<conn, online>> ELSE Close(thread[s].conn)
    /\ thread' = [thread EXCEPT ![s] = Idle]
    /\ posted' = [posted EXCEPT ![s] = 0]
    /\ UNCHANGED <<leaked, fds, requests, env_vars>>

\* SendError: whether it can be sent makes no difference.
Answer(s, status) ==
    thread' = [thread EXCEPT ![s] = [@ EXCEPT !.pc = "finish", !.status = status,
                                              !.answers = thread[s].answers + 1]]

\* A request that is neither GET nor HEAD has no answer.
OtherMethod(c, keep) ==
    /\ Readable(c)
    /\ thread' = [thread EXCEPT ![ServerOf[c]] =
                      [Idle EXCEPT !.pc = "finish", !.conn = c, !.keep = keep]]
    /\ UNCHANGED <<conn, online, posted>>

\* GET or HEAD of the root or of something that is no path.
BadPath(c, keep) ==
    /\ Readable(c)
    /\ thread' = [thread EXCEPT ![ServerOf[c]] =
                      [Idle EXCEPT !.pc = "finish", !.conn = c, !.keep = keep,
                                   !.status = 404, !.answers = 1]]
    /\ UNCHANGED <<conn, online, posted>>

\* GET or HEAD of a file.
Request(c, keep, url, name) ==
    /\ conn[c] = "open"
    /\ thread[ServerOf[c]].pc = "idle"
    /\ requests < MaxRequests
    /\ requests' = requests + 1
    /\ thread' = [thread EXCEPT ![ServerOf[c]] =
                      [Idle EXCEPT !.pc = "path", !.conn = c, !.keep = keep,
                                   !.url = url, !.name = name]]
    /\ current' = [current EXCEPT ![ServerOf[c]] =
                       {http_root[ServerOf[c]], next_root[ServerOf[c]]}]
    /\ UNCHANGED <<conn, online, leaked, fds, posted, http_root, next_root, files,
                   prepares, changes>>

\* http_root_ as the thread sees it: neither copy is locked.
Seen(s) == {http_root[s], next_root[s]} \cup (IF http_root[s] # next_root[s] THEN {Torn} ELSE {})

\* The file is looked for in directory d of root r.
LookIn(s, r, d) ==
    thread' = [thread EXCEPT ![s] = [@ EXCEPT !.pc = "observer", !.root = r, !.dir = d]]

\* MakeDirectoryStringPath and MakeFileStringPath refuse what is no path: the
\* url of a file without a directory, and perhaps what was read torn.
MakePath(s) ==
    /\ thread[s].pc = "path"
    /\ \E r \in Seen(s) :
           \/ thread[s].url = "sub" /\ LookIn(s, r, "sub")
           \/ r = Torn /\ Answer(s, 404)
           \/ /\ thread[s].url = "top" \/ r = Torn
              /\ thread' = [thread EXCEPT ![s] = [@ EXCEPT !.pc = "fallback"]]
    /\ UNCHANGED <<conn, online, leaked, fds, posted, requests, env_vars>>

Mutant_FirstRoot(s) ==
    /\ thread[s].pc = "fallback"
    /\ LookIn(s, Home, "top")
    /\ UNCHANGED <<conn, online, leaked, fds, posted, requests, env_vars>>

\* Without a directory below it, http_root_ itself: it is read again.
MakeRootPath(s) ==
    /\ thread[s].pc = "fallback"
    /\ \E r \in Seen(s) : LookIn(s, r, "top") \/ (r = Torn /\ Answer(s, 404))
    /\ UNCHANGED <<conn, online, leaked, fds, posted, requests, env_vars>>

-----------------------------------------------------------------------------
(* OnHttpRequest. 0 stands for the initial value of recommend_status.      *)

Post(s) == posted' = [posted EXCEPT ![s] = @ + 1]

Recommend(s, status) ==
    thread' = [thread EXCEPT ![s] = [@ EXCEPT !.pc = "stat", !.status = status, !.todo = {}]]

\* Files no link is needed for.
OnOtherFile(s) ==
    /\ thread[s].pc = "observer"
    /\ \/ s = "http"
       \/ s = "vods" /\ thread[s].name # "playlist"
    /\ Recommend(s, 200)
    /\ UNCHANGED <<conn, online, leaked, fds, posted, requests, env_vars>>

\* A channel: asking for the playlist starts it, asking for a chunk only says
\* that somebody watches.
OnCod(s) ==
    /\ thread[s].pc = "observer" /\ s = "cods"
    /\ IF Place(s) \notin Linked
       THEN Recommend(s, 403) /\ UNCHANGED posted
       ELSE /\ Recommend(s, IF thread[s].name = "playlist" THEN 202 ELSE 0)
            /\ Post(s)
    /\ UNCHANGED <<conn, online, leaked, fds, requests, env_vars>>

\* A vod: CheckIsFullVod opens and parses the playlist and never closes it.
OnVod(s) ==
    /\ thread[s].pc = "observer" /\ s = "vods" /\ thread[s].name = "playlist"
    /\ LET list == Content(s, "playlist")
           opened == list \in {"0", "1", "2"}
       IN  IF Place(s) \notin Linked
           THEN Recommend(s, 403) /\ UNCHANGED <<posted, fds, leaked>>
           ELSE /\ fds' = fds + (IF opened THEN 1 ELSE 0)
                /\ leaked' = leaked + (IF opened THEN 1 ELSE 0)
                /\ IF Chunks(list) = {}
                   THEN Recommend(s, 202) /\ Post(s)
                   ELSE /\ thread' = [thread EXCEPT ![s] =
                                [@ EXCEPT !.pc = "check",
                                          !.todo = Chunks(list), !.named = Chunks(list)]]
                        /\ UNCHANGED posted
    /\ UNCHANGED <<conn, online, requests, env_vars>>

Mutant_FirstChunkOnly(s) ==
    /\ thread[s].pc = "check"
    /\ IF Content(s, "chunk0") # "none"
       THEN /\ thread' = [thread EXCEPT ![s] =
                    [@ EXCEPT !.pc = "stat", !.status = 200,
                              !.full = TRUE, !.found = {"chunk0"}, !.todo = {}]]
            /\ UNCHANGED posted
       ELSE Recommend(s, 202) /\ Post(s)
    /\ UNCHANGED <<conn, online, leaked, fds, requests, env_vars>>

\* CheckIsFullVod looks for the chunks of the playlist one after the other.
CheckIsFullVod(s) ==
    /\ thread[s].pc = "check"
    /\ \/ /\ thread[s].todo = {}
          /\ thread' = [thread EXCEPT ![s] =
                  [@ EXCEPT !.pc = "stat", !.status = 200, !.full = TRUE]]
          /\ UNCHANGED posted
       \/ \E n \in thread[s].todo :
             /\ n = "chunk1" => "chunk0" \notin thread[s].todo
             /\ IF Content(s, n) = "none"
                THEN Recommend(s, 202) /\ Post(s)
                ELSE /\ thread' = [thread EXCEPT ![s] =
                             [@ EXCEPT !.todo = thread[s].todo \ {n},
                                       !.found = thread[s].found \cup {n}]]
                     /\ UNCHANGED posted
    /\ UNCHANGED <<conn, online, leaked, fds, requests, env_vars>>

-----------------------------------------------------------------------------
(* The file.                                                               *)

\* HttpHandler does not look at the recommendation.
HttpStat(s) ==
    /\ thread[s].pc = "stat" /\ s = "http"
    /\ LET f == Content(s, thread[s].name) IN
       \/ f = "none" /\ Answer(s, 404)
       \/ f = "dir" /\ Answer(s, 400)
       \/ /\ f \notin {"none", "dir"}
          /\ thread' = [thread EXCEPT ![s] = [@ EXCEPT !.pc = "open"]]
    /\ UNCHANGED <<conn, online, leaked, fds, posted, requests, env_vars>>

\* VodsHandler refuses what has no link, and says that the stream was started
\* if the file is not there yet.
VodsStat(s) ==
    /\ thread[s].pc = "stat" /\ s # "http"
    /\ LET f == Content(s, thread[s].name) IN
       \/ thread[s].status = 403 /\ Answer(s, 403)
       \/ /\ thread[s].status # 403 /\ f = "none"
          /\ Answer(s, IF thread[s].status = 202 THEN 202 ELSE 404)
       \/ thread[s].status # 403 /\ f = "dir" /\ Answer(s, 400)
       \/ /\ thread[s].status # 403 /\ f \notin {"none", "dir"}
          /\ thread' = [thread EXCEPT ![s] = [@ EXCEPT !.pc = "open"]]
    /\ UNCHANGED <<conn, online, leaked, fds, posted, requests, env_vars>>

\* open: the file may have been removed since.
Open(s) ==
    /\ thread[s].pc = "open"
    /\ IF Content(s, thread[s].name) \in {"none", "protected"}
       THEN Answer(s, 403) /\ UNCHANGED fds
       ELSE /\ fds' = fds + 1
            /\ thread' = [thread EXCEPT ![s] = [@ EXCEPT !.pc = "headers"]]
    /\ UNCHANGED <<conn, online, leaked, posted, requests, env_vars>>

Mutant_NotClosed(s, sent) ==
    /\ thread[s].pc = "headers"
    /\ IF sent THEN thread' = [thread EXCEPT ![s] = [@ EXCEPT !.pc = "file"]] ELSE Answer(s, 200)
    /\ UNCHANGED <<fds, conn, online, leaked, posted, requests, env_vars>>

\* The headers; the size in them is the one stat has seen. A failure ends the request.
SendHeaders(s, sent) ==
    /\ thread[s].pc = "headers"
    /\ IF sent
       THEN thread' = [thread EXCEPT ![s] = [@ EXCEPT !.pc = "file"]] /\ UNCHANGED fds
       ELSE Answer(s, 200) /\ fds' = fds - 1
    /\ UNCHANGED <<conn, online, leaked, posted, requests, env_vars>>

\* The file, if it is a GET; a failure makes no difference.
SendFile(s) ==
    /\ thread[s].pc = "file"
    /\ Answer(s, 200)
    /\ fds' = fds - 1
    /\ UNCHANGED <<conn, online, leaked, posted, requests, env_vars>>

ServeFile(s) == Open(s) \/ (\E sent \in BOOLEAN : SendHeaders(s, sent)) \/ SendFile(s)

\* HttpHandler::ProcessReceived after the request was read.
HttpProcessReceived(s) ==
    s = "http" /\ (MakePath(s) \/ MakeRootPath(s) \/ OnOtherFile(s) \/ HttpStat(s)
                       \/ ServeFile(s) \/ Finish(s))

\* VodsHandler::ProcessReceived after the request was read.
VodsProcessReceived(s) ==
    s # "http" /\ (MakePath(s) \/ MakeRootPath(s) \/ OnOtherFile(s) \/ OnCod(s) \/ OnVod(s)
                       \/ CheckIsFullVod(s) \/ VodsStat(s) \/ ServeFile(s) \/ Finish(s))

-----------------------------------------------------------------------------
(* The main loop and the rest of the system.                               *)

other_vars == <<conn, online, thread, leaked, fds, posted, requests>>

\* SetHttpRoot begins to write another directory.
SetHttpRoot(s, r) ==
    /\ next_root[s] = http_root[s]
    /\ r # http_root[s]
    /\ prepares < MaxPrepares
    /\ prepares' = prepares + 1
    /\ next_root' = [next_root EXCEPT ![s] = r]
    /\ current' = [current EXCEPT ![s] = @ \cup {r}]
    /\ UNCHANGED <<http_root, files, changes, other_vars>>

\* And ends.
HttpRootSet(s) ==
    /\ next_root[s] # http_root[s]
    /\ http_root' = [http_root EXCEPT ![s] = next_root[s]]
    /\ UNCHANGED <<next_root, files, current, prepares, changes, other_vars>>

\* A stream writes a file, a clean-up or a user removes or replaces one.
ChangeFile(p, n, f) ==
    /\ files[p][n] # f
    /\ changes < MaxChanges
    /\ changes' = changes + 1
    /\ files' = [files EXCEPT ![p][n] = f]
    /\ UNCHANGED <<http_root, next_root, current, prepares, other_vars>>

Next ==
    \/ \E c \in Connections : Accepted(c) \/ NoRequest(c)
    \/ \E c \in Connections, keep \in BOOLEAN :
           \/ OtherMethod(c, keep) \/ BadPath(c, keep)
           \/ \E url \in Dirs, name \in Names : Request(c, keep, url, name)
    \/ \E s \in Servers : HttpProcessReceived(s) \/ VodsProcessReceived(s)
    \/ \E s \in Servers, r \in Roots : SetHttpRoot(s, r)
    \/ \E s \in Servers : HttpRootSet(s)
    \/ \E p \in Written, n \in Names, f \in Changed : ChangeFile(p, n, f)

Spec == Init /\ [][Next]_vars

-----------------------------------------------------------------------------
(* Properties.                                                             *)

\* Every variable keeps its type; a chunk of a playlist is looked for once.
TypeOK ==
    /\ conn \in [Connections -> {"new", "open", "closed"}]
    /\ online \in [Servers -> 0..Cardinality(Connections)]
    /\ http_root \in [Servers -> Roots] /\ next_root \in [Servers -> Roots]
    /\ \A p \in Places, n \in Names : files[p][n] \in Kinds
    /\ \A s \in Servers :
           /\ thread[s].root \in Roots \cup {Torn}
           /\ thread[s].status \in {0, 200, 202, 400, 403, 404}
           /\ thread[s].todo \cap thread[s].found = {}
    /\ posted \in [Servers -> 0..1]
    /\ fds \in Nat /\ leaked \in Nat

Serving == {s \in Servers : thread[s].pc \in {"headers", "file"}}

\* However requests end, the descriptors that stay open are the playlists
\* CheckIsFullVod has read, one for each.
DescriptorsAccounted == fds = Cardinality(Serving) + leaked

\* online_clients_, which the node's statistics report, is the number of open
\* connections, whichever way each one was ended.
OnlineIsOpen ==
    \A s \in Servers :
        online[s] = Cardinality({c \in Connections : ServerOf[c] = s /\ conn[c] = "open"})

\* http_root_ is read without a lock, and twice. A file that is sent lies in
\* the directory of its url below a root the server had during the request;
\* another place, which a torn read may name, is looked at only if the main
\* loop changed the root meanwhile.
ServedFromCurrentRoot ==
    \A s \in Serving :
        /\ thread[s].root \in current[s] \cup {Torn}
        /\ thread[s].root = Torn \/ thread[s].dir # thread[s].url =>
               \E r1, r2 \in current[s] : r1 # r2

\* A file request has one answer, and a connection only ends with a request.
AnsweredOnce ==
    \A s \in Servers :
        /\ thread[s].pc = "finish" /\ thread[s].name # "" => thread[s].answers = 1
        /\ thread[s].pc # "idle" => conn[thread[s].conn] = "open"

\* A playlist sent by the vods server is one whose chunks were all seen while
\* the request was served, or one whose stream was asked to start; "in
\* progress" is never answered without that.
PlaylistIsBacked ==
    \A s \in Servers :
        s = "vods" /\ thread[s].name = "playlist" /\ (s \in Serving \/ thread[s].status = 202) =>
            \/ posted[s] = 1
            \/ thread[s].full /\ thread[s].found = thread[s].named

\* However a request ends: its descriptors are closed but for the leaked
\* playlists, the online clients are the open connections, and it is answered
\* once.
RequestsAreSettled ==
    /\ TypeOK
    /\ DescriptorsAccounted
    /\ OnlineIsOpen
    /\ AnsweredOnce
================================================================================
