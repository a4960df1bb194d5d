---------------------------- MODULE HttpFilesProofs ----------------------------
(***************************************************************************)
(* Proofs about HttpFiles for any number of connections, requests, changes *)
(* of a directory and changes of a file.                                   *)
(***************************************************************************)
EXTENDS HttpFiles, FiniteSetTheorems, TLAPS

-----------------------------------------------------------------------------
(* The inductive invariant.                                                *)

\* A thread has a file request and has not answered it.
Working == {"path", "fallback", "observer", "check", "stat", "open", "headers", "file"}
Pcs     == {"idle", "finish"} \cup Working

\* And its path is made.
Located == Working \ {"path", "fallback"}

Statuses == {0, 200, 202, 400, 403, 404}

ThreadStates ==
    [pc : Pcs, conn : Connections \cup {""}, keep : BOOLEAN,
     url : Dirs, name : Names \cup {""}, root : Roots \cup {Torn}, dir : Dirs,
     status : Statuses,
     todo : SUBSET Names, found : SUBSET Names, named : SUBSET Names,
     answers : Nat, full : BOOLEAN]

\* Types, without the bounds that follow from the counts below.
Types ==
    /\ conn \in [Connections -> {"new", "open", "closed"}]
    /\ online \in [Servers -> Int]
    /\ http_root \in [Servers -> Roots] /\ next_root \in [Servers -> Roots]
    /\ files \in [Places -> [Names -> Kinds]]
    /\ thread \in [Servers -> ThreadStates]
    /\ posted \in [Servers -> Nat]
    /\ current \in [Servers -> SUBSET Roots]
    /\ fds \in Int /\ leaked \in Nat

\* A thread t of server s serves an open connection of that server.
ServesOwn(s, t) ==
    t.pc # "idle" =>
        /\ t.conn \in Connections
        /\ ServerOf[t.conn] = s
        /\ conn[t.conn] = "open"

\* What has been answered, and that n closures were posted, at each stage of a
\* request.
Stage(t, n) ==
    /\ t.pc \in Working => t.answers = 0 /\ t.name # ""
    /\ t.pc = "finish" /\ t.name # "" => t.answers = 1
    /\ t.pc \in {"idle", "path", "fallback", "observer", "check"} => n = 0
    /\ n \in 0..1
    /\ t.status = 202 => n = 1

\* The root was changed: there are two.
Several(rs) == \E r1, r2 \in rs : r1 # r2

\* A thread t of a server whose roots are h and n sees one of the roots rs, or
\* a torn one if there were several; only then does it leave the directory of
\* the url.
Noted(t, h, n, rs) ==
    /\ t.pc \in Working => {h, n} \subseteq rs
    /\ t.pc \in Located => t.root \in rs \cup {Torn}
    /\ t.pc \in Located /\ (t.root = Torn \/ t.dir # t.url) => Several(rs)
    /\ t.pc = "fallback" /\ t.url # "top" => Several(rs)

\* The roots a request may see are those noted since it began.
RootIsNoted(s, t) == Noted(t, http_root[s], next_root[s], current[s])

\* How far CheckIsFullVod is, and what its outcome says of a vod's playlist.
VodIsChecked(s, t) ==
    /\ t.todo \cap t.found = {}
    /\ t.pc \in {"path", "fallback", "observer"} => t.found = {}
    /\ t.pc = "check" => t.named = t.todo \cup t.found
    /\ s = "vods" /\ t.name = "playlist" /\ t.pc \in {"stat", "open", "headers", "file"} =>
           \/ t.status = 202
           \/ t.full /\ t.found = t.named
           \/ t.status = 403 /\ t.pc = "stat"

ThreadInv(s, t, n) ==
    ServesOwn(s, t) /\ Stage(t, n) /\ RootIsNoted(s, t) /\ VodIsChecked(s, t)

PerServer == \A s \in Servers : ThreadInv(s, thread[s], posted[s])

IndInv == Types /\ PerServer /\ DescriptorsAccounted /\ OnlineIsOpen

-----------------------------------------------------------------------------
(* The states of a thread.                                                 *)

\* The state of a thread without a request.
LEMMA IdleState == Idle \in ThreadStates
BY HttpFilesAssumption DEF Idle, ThreadStates, Statuses, Pcs, Working, Names, Dirs

\* What CheckIsFullVod looks for are names of chunks.
LEMMA ChunksType == \A f : Chunks(f) \in SUBSET Names
BY DEF Chunks, Names

\* A new position of the thread and nothing else: from the headers to the file.
AtPc(t, p) == [t EXCEPT !.pc = p]

\* The fields of the new state.
LEMMA PcState ==
    ASSUME NEW t \in ThreadStates, NEW p \in Pcs
    PROVE  LET u == AtPc(t, p)
           IN  /\ u \in ThreadStates /\ u.pc = p
               /\ u.conn = t.conn /\ u.url = t.url /\ u.name = t.name /\ u.answers = t.answers
               /\ u.root = t.root /\ u.dir = t.dir /\ u.status = t.status /\ u.full = t.full
               /\ u.todo = t.todo /\ u.found = t.found /\ u.named = t.named
<1>1. AtPc(t, p) \in ThreadStates
  BY DEF ThreadStates, AtPc
<1> QED
  BY <1>1 DEF ThreadStates, AtPc

\* The path is made.
AtPlace(t, p, r, d) == [t EXCEPT !.pc = p, !.root = r, !.dir = d]

\* The fields of the new state.
LEMMA PlaceState ==
    ASSUME NEW t \in ThreadStates, NEW p \in Pcs, NEW r \in Roots \cup {Torn}, NEW d \in Dirs
    PROVE  LET u == AtPlace(t, p, r, d)
           IN  /\ u \in ThreadStates /\ u.pc = p /\ u.root = r /\ u.dir = d
               /\ u.conn = t.conn /\ u.url = t.url /\ u.name = t.name /\ u.answers = t.answers
               /\ u.status = t.status /\ u.full = t.full
               /\ u.todo = t.todo /\ u.found = t.found /\ u.named = t.named
<1>1. AtPlace(t, p, r, d) \in ThreadStates
  BY DEF ThreadStates, AtPlace
<1> QED
  BY <1>1 DEF ThreadStates, AtPlace

\* A recommendation.
Recommended(t, p, c, todo) == [t EXCEPT !.pc = p, !.status = c, !.todo = todo]

\* The fields of the new state.
LEMMA RecommendState ==
    ASSUME NEW t \in ThreadStates, NEW p \in Pcs,
           NEW c \in Statuses, NEW todo \in SUBSET Names
    PROVE  LET u == Recommended(t, p, c, todo)
           IN  /\ u \in ThreadStates /\ u.pc = p /\ u.status = c /\ u.todo = todo
               /\ u.conn = t.conn /\ u.url = t.url /\ u.name = t.name /\ u.answers = t.answers
               /\ u.root = t.root /\ u.dir = t.dir /\ u.full = t.full
               /\ u.found = t.found /\ u.named = t.named
<1>1. Recommended(t, p, c, todo) \in ThreadStates
  BY DEF ThreadStates, Recommended
<1> QED
  BY <1>1 DEF ThreadStates, Recommended

\* The playlist was read.
Listed(t, p, cs) == [t EXCEPT !.pc = p, !.todo = cs, !.named = cs]

\* The fields of the new state.
LEMMA ListState ==
    ASSUME NEW t \in ThreadStates, NEW p \in Pcs, NEW cs \in SUBSET Names
    PROVE  LET u == Listed(t, p, cs)
           IN  /\ u \in ThreadStates /\ u.pc = p /\ u.todo = cs /\ u.named = cs
               /\ u.conn = t.conn /\ u.url = t.url /\ u.name = t.name /\ u.answers = t.answers
               /\ u.root = t.root /\ u.dir = t.dir /\ u.status = t.status /\ u.found = t.found
<1>1. Listed(t, p, cs) \in ThreadStates
  BY DEF ThreadStates, Listed
<1> QED
  BY <1>1 DEF ThreadStates, Listed

\* A chunk was found.
Found(t, todo, found) == [t EXCEPT !.todo = todo, !.found = found]

\* The fields of the new state.
LEMMA FoundState ==
    ASSUME NEW t \in ThreadStates, NEW todo \in SUBSET Names, NEW found \in SUBSET Names
    PROVE  LET u == Found(t, todo, found)
           IN  /\ u \in ThreadStates /\ u.pc = t.pc /\ u.todo = todo /\ u.found = found
               /\ u.conn = t.conn /\ u.url = t.url /\ u.name = t.name /\ u.answers = t.answers
               /\ u.root = t.root /\ u.dir = t.dir /\ u.status = t.status /\ u.named = t.named
<1>1. Found(t, todo, found) \in ThreadStates
  BY DEF ThreadStates, Found
<1> QED
  BY <1>1 DEF ThreadStates, Found

\* All chunks were found.
FoundAll(t, p, c) == [t EXCEPT !.pc = p, !.status = c, !.full = TRUE]

\* The fields of the new state.
LEMMA FullState ==
    ASSUME NEW t \in ThreadStates, NEW p \in Pcs, NEW c \in Statuses
    PROVE  LET u == FoundAll(t, p, c)
           IN  /\ u \in ThreadStates /\ u.pc = p /\ u.status = c /\ u.full
               /\ u.conn = t.conn /\ u.url = t.url /\ u.name = t.name /\ u.answers = t.answers
               /\ u.root = t.root /\ u.dir = t.dir /\ u.todo = t.todo /\ u.found = t.found
               /\ u.named = t.named
<1>1. FoundAll(t, p, c) \in ThreadStates
  BY DEF ThreadStates, FoundAll
<1> QED
  BY <1>1 DEF ThreadStates, FoundAll

\* An answer.
Answered(t, p, c, n) == [t EXCEPT !.pc = p, !.status = c, !.answers = n]

\* The fields of the new state.
LEMMA AnswerState ==
    ASSUME NEW t \in ThreadStates, NEW p \in Pcs, NEW c \in Statuses, NEW n \in Nat
    PROVE  LET u == Answered(t, p, c, n)
           IN  /\ u \in ThreadStates /\ u.pc = p /\ u.status = c /\ u.answers = n
               /\ u.conn = t.conn /\ u.url = t.url /\ u.name = t.name /\ u.root = t.root
               /\ u.todo = t.todo /\ u.found = t.found
<1>1. Answered(t, p, c, n) \in ThreadStates
  BY DEF ThreadStates, Answered
<1> QED
  BY <1>1 DEF ThreadStates, Answered

-----------------------------------------------------------------------------
(* Steps of a thread.                                                      *)

\* There are finitely many servers.
LEMMA FiniteServers == IsFiniteSet(Servers)
<1>1. IsFiniteSet({"http"} \cup {"vods"})
  BY FS_Singleton, FS_AddElement
<1>2. IsFiniteSet({"http", "vods", "cods"})
  <2>1. IsFiniteSet(({"http"} \cup {"vods"}) \cup {"cods"})
    BY <1>1, FS_AddElement
  <2>2. ({"http"} \cup {"vods"}) \cup {"cods"} = {"http", "vods", "cods"}
    OBVIOUS
  <2> QED
    BY <2>1, <2>2
<1>3. Servers \subseteq {"http", "vods", "cods"}
  BY HttpFilesAssumption DEF Servers
<1> QED
  BY <1>2, <1>3, FS_Subset

\* If one thread moves to a state that satisfies the invariant, all do.
LEMMA MovedInv ==
    ASSUME Types, PerServer, NEW s \in Servers, NEW u \in ThreadStates, NEW n \in Nat,
           thread' = [thread EXCEPT ![s] = u], posted' = [posted EXCEPT ![s] = n],
           UNCHANGED <<conn, http_root, next_root, current>>,
           ThreadInv(s, u, n)
    PROVE  /\ thread' \in [Servers -> ThreadStates] /\ posted' \in [Servers -> Nat]
           /\ PerServer'
<1>1. thread' \in [Servers -> ThreadStates] /\ posted' \in [Servers -> Nat]
  BY DEF Types
<1>2. thread'[s] = u /\ posted'[s] = n
  BY DEF Types
<1>3. \A e \in Servers : e # s => thread'[e] = thread[e] /\ posted'[e] = posted[e]
  BY DEF Types
<1>4. ASSUME NEW e \in Servers PROVE ThreadInv(e, thread[e], posted[e])'
  <2> DEFINE t == thread'[e]
             k == posted'[e]
  <2>1. ThreadInv(e, t, k)
    BY <1>2, <1>3 DEF PerServer
  <2> HIDE DEF t, k
  <2>2. ServesOwn(e, t) => (t.pc # "idle" =>
            t.conn \in Connections /\ ServerOf[t.conn] = e /\ conn'[t.conn] = "open")
    BY DEF ServesOwn
  <2>3. RootIsNoted(e, t) =>
            Noted(t, http_root'[e], next_root'[e], current'[e])
    BY DEF RootIsNoted, Noted
  <2>4. Stage(t, k) /\ VodIsChecked(e, t)
    BY <2>1 DEF ThreadInv
  <2> QED
    BY <2>1, <2>2, <2>3, <2>4 DEF ThreadInv, ServesOwn, RootIsNoted, Noted, Stage, VodIsChecked, t, k
<1> QED
  BY <1>1, <1>4 DEF PerServer

\* By how many the files being sent change when a thread moves from t to u.
Sending(t)  == t.pc \in {"headers", "file"}
Opened(t, u) == IF Sending(t) = Sending(u) THEN 0 ELSE IF Sending(u) THEN 1 ELSE -1

\* What one thread does changes the number of files being sent by one, or not.
LEMMA MovedServing ==
    ASSUME Types, NEW s \in Servers, NEW u \in ThreadStates,
           thread' = [thread EXCEPT ![s] = u]
    PROVE  /\ Cardinality(Serving) \in Nat /\ Opened(thread[s], u) \in Int
           /\ Cardinality(Serving') = Cardinality(Serving) + Opened(thread[s], u)
<1> DEFINE old == Sending(thread[s])
           new == Sending(u)
<1>1. IsFiniteSet(Serving) /\ Cardinality(Serving) \in Nat
  BY FiniteServers, FS_Subset, FS_CardinalityType DEF Serving
<1>2. thread'[s] = u /\ \A e \in Servers : e # s => thread'[e] = thread[e]
  BY DEF Types
<1>3. s \in Serving <=> old
  BY DEF Serving, Sending
<1>4. CASE old = new
  <2>1. Serving' = Serving
    BY <1>2, <1>4 DEF Serving, Sending
  <2> QED
    BY <1>1, <1>4, <2>1 DEF Opened
<1>5. CASE new /\ ~old
  <2>1. Serving' = Serving \cup {s}
    BY <1>2, <1>5 DEF Serving, Sending
  <2>2. Cardinality(Serving') = Cardinality(Serving) + 1
    BY <1>1, <1>3, <1>5, <2>1, FS_AddElement
  <2>3. Opened(thread[s], u) = 1
    BY <1>5 DEF Opened, Sending
  <2> QED
    BY <1>1, <2>2, <2>3
<1>6. CASE old /\ ~new
  <2>1. Serving' = Serving \ {s}
    BY <1>2, <1>6 DEF Serving, Sending
  <2>2. Cardinality(Serving') = Cardinality(Serving) - 1
    BY <1>1, <1>3, <1>6, <2>1, FS_RemoveElement
  <2>3. Opened(thread[s], u) = -1
    BY <1>6 DEF Opened, Sending
  <2> QED
    BY <1>1, <2>2, <2>3
<1> QED
  BY <1>4, <1>5, <1>6 DEF Sending

\* A step of a thread that moves it to u, and makes n the number of closures
\* posted, keeps the invariant if u satisfies it and the descriptors are right.
LEMMA MovedKeeps ==
    ASSUME IndInv, NEW s \in Servers, NEW u \in ThreadStates, NEW n \in Nat,
           thread' = [thread EXCEPT ![s] = u], posted' = [posted EXCEPT ![s] = n],
           UNCHANGED <<conn, online, env_vars>>,
           ThreadInv(s, u, n),
           leaked' \in Nat,
           fds' = fds + (leaked' - leaked) + Opened(thread[s], u)
    PROVE  IndInv'
<1>0. Types /\ PerServer /\ DescriptorsAccounted /\ OnlineIsOpen
  BY DEF IndInv
<1>1. /\ thread' \in [Servers -> ThreadStates] /\ posted' \in [Servers -> Nat]
      /\ PerServer'
  BY <1>0, MovedInv DEF env_vars
<1>2. OnlineIsOpen'
  BY <1>0 DEF OnlineIsOpen
<1>3. DescriptorsAccounted' /\ fds' \in Int
  <2>1. /\ Cardinality(Serving) \in Nat /\ Opened(thread[s], u) \in Int
        /\ Cardinality(Serving') = Cardinality(Serving) + Opened(thread[s], u)
    BY <1>0, MovedServing
  <2>2. fds = Cardinality(Serving) + leaked /\ fds \in Int /\ leaked \in Nat
    BY <1>0 DEF DescriptorsAccounted, Types
  <2>3. fds' = Cardinality(Serving') + leaked' /\ fds' \in Int
    BY <2>1, <2>2
  <2> QED
    BY <2>3 DEF DescriptorsAccounted
<1>4. Types'
  BY <1>0, <1>1, <1>3 DEF Types, env_vars
<1> QED
  BY <1>1, <1>2, <1>3, <1>4 DEF IndInv

\* The path is made from a root the server has, or from a torn one.
LEMMA LookInStep ==
    ASSUME IndInv, NEW s \in Servers, NEW r \in Seen(s), NEW d \in Dirs, LookIn(s, r, d),
           thread[s].pc \in {"path", "fallback"},
           thread[s].url = d \/ (thread[s].pc = "fallback" /\ d = "top"),
           UNCHANGED <<conn, online, env_vars, posted, leaked, fds>>
    PROVE  IndInv'
<1> DEFINE t == thread[s]
           u == AtPlace(t, "observer", r, d)
<1>1. thread' = [thread EXCEPT ![s] = u]
  BY Zenon DEF LookIn, AtPlace
<1>2. Types /\ t \in ThreadStates /\ ThreadInv(s, t, posted[s])
  BY DEF IndInv, Types, PerServer
<1>3. r \in Roots \cup {Torn} /\ "observer" \in Pcs
  BY <1>2 DEF Types, Pcs, Working, Seen
<1>4. /\ u \in ThreadStates /\ u.pc = "observer" /\ u.root = r /\ u.dir = d
      /\ u.conn = t.conn /\ u.url = t.url /\ u.name = t.name /\ u.answers = t.answers
      /\ u.status = t.status /\ u.full = t.full
      /\ u.todo = t.todo /\ u.found = t.found /\ u.named = t.named
  BY <1>2, <1>3, PlaceState
<1>5. /\ t.pc \in {"path", "fallback"}
      /\ t.url = d \/ (t.pc = "fallback" /\ d = "top")
  OBVIOUS
<1> HIDE DEF t, u
<1>6. ServesOwn(s, u) /\ Stage(u, posted[s]) /\ VodIsChecked(s, u)
  BY <1>2, <1>4, <1>5 DEF ThreadInv, ServesOwn, Stage, VodIsChecked, Working
<1>7. RootIsNoted(s, u)
  <2>1. {http_root[s], next_root[s]} \subseteq current[s]
    BY <1>2, <1>5 DEF ThreadInv, RootIsNoted, Noted, Working, Located
  <2>2. r = Torn => Several(current[s])
    BY <1>2, <2>1, HttpFilesAssumption DEF Seen, Several, Types
  <2>3. d # t.url => Several(current[s])
    BY <1>2, <1>5 DEF ThreadInv, RootIsNoted, Noted
  <2>4. r \in current[s] \cup {Torn}
    BY <2>1 DEF Seen
  <2> QED
    BY <1>4, <2>1, <2>2, <2>3, <2>4, Zenon DEF RootIsNoted, Noted
<1>8. ThreadInv(s, u, posted[s])
  BY <1>6, <1>7 DEF ThreadInv
<1>9. Opened(thread[s], u) = 0
  BY <1>4, <1>5 DEF Opened, Sending, t
<1>10. posted' = [posted EXCEPT ![s] = posted[s]] /\ posted[s] \in Nat
  BY <1>2 DEF Types
<1>11. leaked' \in Nat /\ fds' = fds + (leaked' - leaked) + Opened(thread[s], u)
  BY <1>2, <1>9 DEF Types
<1> QED
  BY <1>1, <1>4, <1>8, <1>10, <1>11, MovedKeeps, Zenon

\* http_root_ is to be read again: the url names no directory, or what was
\* read was torn.
LEMMA FallBackStep ==
    ASSUME IndInv, NEW s \in Servers, NEW r \in Seen(s),
           thread' = [thread EXCEPT ![s] = [@ EXCEPT !.pc = "fallback"]],
           thread[s].pc = "path", thread[s].url = "top" \/ r = Torn,
           UNCHANGED <<conn, online, env_vars, posted, leaked, fds>>
    PROVE  IndInv'
<1> DEFINE t == thread[s]
           u == AtPc(t, "fallback")
<1>1. thread' = [thread EXCEPT ![s] = u]
  BY Zenon DEF AtPc
<1>2. Types /\ t \in ThreadStates /\ ThreadInv(s, t, posted[s])
  BY DEF IndInv, Types, PerServer
<1>3. "fallback" \in Pcs
  BY DEF Pcs, Working
<1>4. /\ u \in ThreadStates /\ u.pc = "fallback"
      /\ u.conn = t.conn /\ u.url = t.url /\ u.name = t.name /\ u.answers = t.answers
      /\ u.root = t.root /\ u.dir = t.dir /\ u.status = t.status /\ u.full = t.full
      /\ u.todo = t.todo /\ u.found = t.found /\ u.named = t.named
  BY <1>2, <1>3, PcState
<1>5. t.pc = "path" /\ (t.url = "top" \/ r = Torn)
  OBVIOUS
<1> HIDE DEF t, u
<1>6. ServesOwn(s, u) /\ Stage(u, posted[s]) /\ VodIsChecked(s, u)
  BY <1>2, <1>4, <1>5 DEF ThreadInv, ServesOwn, Stage, VodIsChecked, Working
<1>7. RootIsNoted(s, u)
  <2>1. {http_root[s], next_root[s]} \subseteq current[s]
    BY <1>2, <1>5 DEF ThreadInv, RootIsNoted, Noted, Working, Located
  <2>2. r = Torn => Several(current[s])
    BY <1>2, <2>1, HttpFilesAssumption DEF Seen, Several, Types
  <2>3. u.pc \notin Located
    BY <1>4 DEF Located
  <2> QED
    BY <1>4, <1>5, <2>1, <2>2, <2>3, Zenon DEF RootIsNoted, Noted
<1>8. ThreadInv(s, u, posted[s])
  BY <1>6, <1>7 DEF ThreadInv
<1>9. Opened(thread[s], u) = 0
  BY <1>4, <1>5 DEF Opened, Sending, t
<1>10. posted' = [posted EXCEPT ![s] = posted[s]] /\ posted[s] \in Nat
  BY <1>2 DEF Types
<1>11. leaked' \in Nat /\ fds' = fds + (leaked' - leaked) + Opened(thread[s], u)
  BY <1>2, <1>9 DEF Types
<1> QED
  BY <1>1, <1>4, <1>8, <1>10, <1>11, MovedKeeps, Zenon

\* How many files an answer closes.
Closing(t) == IF Sending(t) THEN 1 ELSE 0

\* An answer ends the work on a request; a file that was open is closed.
LEMMA AnswerStep ==
    ASSUME IndInv, NEW s \in Servers, NEW c \in Statuses, Answer(s, c),
           thread[s].pc \in Working, c # 202 \/ thread[s].status = 202,
           UNCHANGED <<conn, online, env_vars, posted, leaked>>,
           fds' = fds - Closing(thread[s])
    PROVE  IndInv'
<1> DEFINE t == thread[s]
           u == Answered(t, "finish", c, t.answers + 1)
<1>1. Types /\ t \in ThreadStates /\ ThreadInv(s, t, posted[s])
  BY DEF IndInv, Types, PerServer
<1>2. thread' = [thread EXCEPT ![s] = u]
  BY Zenon DEF Answer, Answered
<1>3. t.answers + 1 \in Nat /\ "finish" \in Pcs
  <2>1. t.answers \in Nat
    BY <1>1 DEF ThreadStates
  <2> QED
    BY <2>1 DEF Pcs
<1>4. /\ u \in ThreadStates /\ u.pc = "finish" /\ u.status = c /\ u.answers = t.answers + 1
      /\ u.conn = t.conn /\ u.url = t.url /\ u.name = t.name /\ u.todo = t.todo /\ u.found = t.found
  BY <1>1, <1>3, AnswerState
<1>5. t.pc \in Working /\ (c # 202 \/ t.status = 202)
  OBVIOUS
<1> HIDE DEF t, u
<1>6. ThreadInv(s, u, posted[s])
  <2>1. ServesOwn(s, u)
    BY <1>1, <1>4, <1>5 DEF ThreadInv, ServesOwn, Working
  <2>2. Stage(u, posted[s])
    <3>1. t.answers = 0 /\ posted[s] \in 0..1 /\ (t.status = 202 => posted[s] = 1)
      BY <1>1, <1>5 DEF ThreadInv, Stage
    <3>2. u.pc \notin Working /\ u.pc \notin {"idle", "path", "fallback", "observer", "check"}
      BY <1>4 DEF Working
    <3>3. u.answers = 1 /\ (u.status = 202 => posted[s] = 1)
      BY <1>4, <1>5, <3>1
    <3> QED
      BY <3>1, <3>2, <3>3 DEF Stage
  <2>3. RootIsNoted(s, u) /\ VodIsChecked(s, u)
    BY <1>1, <1>4, <1>5 DEF ThreadInv, RootIsNoted, Noted, VodIsChecked, Working, Located
  <2> QED
    BY <2>1, <2>2, <2>3 DEF ThreadInv
<1>7. posted' = [posted EXCEPT ![s] = posted[s]] /\ posted[s] \in Nat
  BY <1>1 DEF Types
<1>8. Opened(thread[s], u) = IF Sending(thread[s]) THEN -1 ELSE 0
  BY <1>4 DEF Opened, Sending
<1>9. leaked' \in Nat /\ fds' = fds + (leaked' - leaked) + Opened(thread[s], u)
  BY <1>1, <1>8 DEF Types, Closing
<1> QED
  BY <1>2, <1>4, <1>6, <1>7, <1>9, MovedKeeps, Zenon

\* A path that cannot be made is answered.
LEMMA NotFoundStep ==
    ASSUME IndInv, NEW s \in Servers, Answer(s, 404), thread[s].pc \in {"path", "fallback"},
           UNCHANGED <<conn, online, env_vars, posted, leaked, fds>>
    PROVE  IndInv'
<1>1. thread[s].pc \in Working /\ ~Sending(thread[s]) /\ fds \in Int
  BY DEF Working, Sending, IndInv, Types
<1>2. fds' = fds - Closing(thread[s])
  BY <1>1 DEF Closing
<1>3. 404 \in Statuses /\ 404 # 202
  BY DEF Statuses
<1> QED
  BY <1>1, <1>2, <1>3, AnswerStep

\* The first reading of http_root_.
LEMMA MakePathStep == ASSUME IndInv, NEW s \in Servers, MakePath(s) PROVE IndInv'
<1>1. /\ thread[s].pc = "path" /\ thread[s].pc \in {"path", "fallback"}
      /\ UNCHANGED <<conn, online, env_vars, posted, leaked, fds>>
  BY DEF MakePath
<1>2. PICK r \in Seen(s) :
          \/ thread[s].url = "sub" /\ LookIn(s, r, "sub")
          \/ r = Torn /\ Answer(s, 404)
          \/ /\ thread[s].url = "top" \/ r = Torn
             /\ thread' = [thread EXCEPT ![s] = [@ EXCEPT !.pc = "fallback"]]
  BY Zenon DEF MakePath
<1>3. CASE thread[s].url = "sub" /\ LookIn(s, r, "sub")
  <2>1. "sub" \in Dirs
    BY DEF Dirs
  <2> QED
    BY <1>1, <1>3, <2>1, LookInStep, Zenon
<1>4. CASE Answer(s, 404)
  BY <1>1, <1>4, NotFoundStep, Zenon
<1>5. CASE /\ thread[s].url = "top" \/ r = Torn
           /\ thread' = [thread EXCEPT ![s] = [@ EXCEPT !.pc = "fallback"]]
  BY <1>1, <1>5, FallBackStep, Zenon
<1> QED
  BY <1>2, <1>3, <1>4, <1>5

\* The second.
LEMMA MakeRootPathStep == ASSUME IndInv, NEW s \in Servers, MakeRootPath(s) PROVE IndInv'
<1>1. /\ thread[s].pc = "fallback" /\ thread[s].pc \in {"path", "fallback"}
      /\ UNCHANGED <<conn, online, env_vars, posted, leaked, fds>>
  BY DEF MakeRootPath
<1>2. PICK r \in Seen(s) : LookIn(s, r, "top") \/ (r = Torn /\ Answer(s, 404))
  BY Zenon DEF MakeRootPath
<1>3. CASE LookIn(s, r, "top")
  <2>1. "top" \in Dirs
    BY DEF Dirs
  <2> QED
    BY <1>1, <1>3, <2>1, LookInStep, Zenon
<1>4. CASE Answer(s, 404)
  BY <1>1, <1>4, NotFoundStep, Zenon
<1> QED
  BY <1>2, <1>3, <1>4

\* A recommendation. A vod's playlist is recommended only after CheckIsFullVod,
\* unless it is refused or its stream was started.
LEMMA RecommendStep ==
    ASSUME IndInv, NEW s \in Servers, NEW c \in Statuses, Recommend(s, c),
           thread[s].pc \in {"observer", "check"},
           posted' = [posted EXCEPT ![s] = posted'[s]], posted'[s] \in 0..1,
           c = 202 => posted'[s] = 1,
           s = "vods" /\ thread[s].name = "playlist" => c \in {202, 403},
           UNCHANGED <<conn, online, env_vars>>,
           leaked' \in Nat, fds' = fds + (leaked' - leaked)
    PROVE  IndInv'
<1> DEFINE t == thread[s]
           n == posted'[s]
           u == Recommended(t, "stat", c, {})
<1>1. Types /\ t \in ThreadStates /\ ThreadInv(s, t, posted[s])
  BY DEF IndInv, Types, PerServer
<1>2. thread' = [thread EXCEPT ![s] = u]
  BY <1>1 DEF Recommend, Recommended, Types
<1>3. {} \in SUBSET Names /\ "stat" \in Pcs
  BY DEF Pcs, Working
<1>4. /\ u \in ThreadStates /\ u.pc = "stat" /\ u.status = c /\ u.todo = {}
      /\ u.conn = t.conn /\ u.url = t.url /\ u.name = t.name /\ u.answers = t.answers
      /\ u.root = t.root /\ u.dir = t.dir /\ u.full = t.full /\ u.found = t.found /\ u.named = t.named
  BY <1>1, <1>3, RecommendState
<1>5. /\ t.pc \in {"observer", "check"}
      /\ s = "vods" /\ t.name = "playlist" => c \in {202, 403}
  OBVIOUS
<1>a. n \in 0..1 /\ (c = 202 => n = 1) /\ posted' = [posted EXCEPT ![s] = n]
  OBVIOUS
<1> HIDE DEF t, u, n
<1>6. ThreadInv(s, u, n)
  <2>1. ServesOwn(s, u)
    BY <1>1, <1>4, <1>5 DEF ThreadInv, ServesOwn
  <2>2. Stage(u, n)
    BY <1>1, <1>4, <1>5, <1>a DEF ThreadInv, Stage, Working
  <2>3. RootIsNoted(s, u)
    BY <1>1, <1>4, <1>5 DEF ThreadInv, RootIsNoted, Noted, Working, Located
  <2>4. VodIsChecked(s, u)
    BY <1>1, <1>4, <1>5 DEF ThreadInv, VodIsChecked
  <2> QED
    BY <2>1, <2>2, <2>3, <2>4 DEF ThreadInv
<1>7. Opened(thread[s], u) = 0
  BY <1>4, <1>5 DEF Opened, Sending, t
<1>8. n \in Nat /\ fds' = fds + (leaked' - leaked) + Opened(thread[s], u)
  BY <1>1, <1>7, <1>a DEF Types
<1> QED
  BY <1>2, <1>4, <1>6, <1>8, <1>a, MovedKeeps, Zenon

\* A file no link is needed for.
LEMMA OnOtherFileStep == ASSUME IndInv, NEW s \in Servers, OnOtherFile(s) PROVE IndInv'
<1>1. posted[s] = 0 /\ posted \in [Servers -> Nat] /\ leaked \in Nat /\ fds \in Int
  BY DEF IndInv, Types, PerServer, ThreadInv, Stage, OnOtherFile
<1>2. /\ fds' = fds + (leaked' - leaked) /\ leaked' \in Nat
      /\ posted' = [posted EXCEPT ![s] = posted'[s]] /\ posted'[s] = 0
  BY <1>1 DEF OnOtherFile
<1>3. /\ Recommend(s, 200) /\ thread[s].pc \in {"observer", "check"}
      /\ ~(s = "vods" /\ thread[s].name = "playlist")
      /\ UNCHANGED <<conn, online, env_vars>>
  BY DEF OnOtherFile
<1>4. /\ 200 \in Statuses /\ posted'[s] \in 0..1
      /\ 200 = 202 => posted'[s] = 1
      /\ s = "vods" /\ thread[s].name = "playlist" => 200 \in {202, 403}
  BY <1>2, <1>3 DEF Statuses
<1> QED
  BY <1>2, <1>3, <1>4, RecommendStep, Zenon

\* A channel: what is posted is what the main loop is asked for.
LEMMA OnCodStep == ASSUME IndInv, NEW s \in Servers, OnCod(s) PROVE IndInv'
<1>1. posted[s] = 0 /\ posted \in [Servers -> Nat] /\ leaked \in Nat /\ fds \in Int
  BY DEF IndInv, Types, PerServer, ThreadInv, Stage, OnCod
<1>2. fds' = fds + (leaked' - leaked) /\ leaked' \in Nat
  BY <1>1 DEF OnCod
<1>3. /\ thread[s].pc \in {"observer", "check"} /\ s # "vods"
      /\ UNCHANGED <<conn, online, env_vars>>
  BY DEF OnCod
<1>4. 0 \in Statuses /\ 202 \in Statuses /\ 403 \in Statuses
  BY DEF Statuses
<1>5. CASE Place(s) \notin Linked
  <2>1. posted' = [posted EXCEPT ![s] = posted'[s]] /\ posted'[s] = 0 /\ Recommend(s, 403)
    BY <1>1, <1>5 DEF OnCod
  <2>2. posted'[s] \in 0..1 /\ (403 = 202 => posted'[s] = 1)
    BY <2>1
  <2> QED
    BY <1>2, <1>3, <1>4, <2>1, <2>2, RecommendStep, Zenon
<1>6. CASE Place(s) \in Linked
  <2>1. posted' = [posted EXCEPT ![s] = posted'[s]] /\ posted'[s] = 1
    BY <1>1, <1>6 DEF OnCod, Post
  <2>2. posted'[s] \in 0..1 /\ (202 = 202 => posted'[s] = 1) /\ (0 = 202 => posted'[s] = 1)
    BY <2>1
  <2>3. Recommend(s, 202) \/ Recommend(s, 0)
    BY <1>6 DEF OnCod
  <2> QED
    BY <1>2, <1>3, <1>4, <2>1, <2>2, <2>3, RecommendStep, Zenon
<1> QED
  BY <1>5, <1>6

\* CheckIsFullVod reads the playlist, and one more descriptor stays open.
LEMMA OnVodStep == ASSUME IndInv, NEW s \in Servers, OnVod(s) PROVE IndInv'
<1> DEFINE t  == thread[s]
           cs == Chunks(Content(s, "playlist"))
           u  == Listed(t, "check", cs)
<1>1. Types /\ t \in ThreadStates /\ ThreadInv(s, t, posted[s])
  BY DEF IndInv, Types, PerServer
<1>2. posted[s] = 0 /\ posted \in [Servers -> Nat] /\ leaked \in Nat /\ fds \in Int
  BY <1>1 DEF Types, ThreadInv, Stage, OnVod
<1>3. fds' = fds + (leaked' - leaked) /\ leaked' \in Nat
  BY <1>2 DEF OnVod
<1>4. t.pc = "observer" /\ t.pc \in {"observer", "check"} /\ UNCHANGED <<conn, online, env_vars>>
  BY DEF OnVod
<1>5. 202 \in Statuses /\ 403 \in Statuses
  BY DEF Statuses
<1>6. CASE Place(s) \notin Linked
  <2>1. posted' = [posted EXCEPT ![s] = posted'[s]] /\ posted'[s] = 0 /\ Recommend(s, 403)
    BY <1>2, <1>6 DEF OnVod
  <2>2. posted'[s] \in 0..1 /\ (403 = 202 => posted'[s] = 1) /\ 403 \in {202, 403}
    BY <2>1
  <2> QED
    BY <1>3, <1>4, <1>5, <2>1, <2>2, RecommendStep, Zenon
<1>7. CASE Place(s) \in Linked /\ cs = {}
  <2>1. posted' = [posted EXCEPT ![s] = posted'[s]] /\ posted'[s] = 1 /\ Recommend(s, 202)
    BY <1>2, <1>7 DEF OnVod, Post
  <2>2. posted'[s] \in 0..1 /\ (202 = 202 => posted'[s] = 1) /\ 202 \in {202, 403}
    BY <2>1
  <2> QED
    BY <1>3, <1>4, <1>5, <2>1, <2>2, RecommendStep, Zenon
<1>8. CASE Place(s) \in Linked /\ cs # {}
  <2>1. thread' = [thread EXCEPT ![s] = u]
    BY <1>8, Zenon DEF OnVod, Listed
  <2>2. cs \in SUBSET Names /\ "check" \in Pcs
    BY ChunksType DEF Pcs, Working
  <2>3. /\ u \in ThreadStates /\ u.pc = "check" /\ u.todo = cs /\ u.named = cs
        /\ u.conn = t.conn /\ u.url = t.url /\ u.name = t.name /\ u.answers = t.answers
        /\ u.root = t.root /\ u.dir = t.dir /\ u.status = t.status /\ u.found = t.found
    BY <1>1, <2>2, ListState
  <2>4. posted' = [posted EXCEPT ![s] = posted[s]] /\ posted[s] \in Nat
    BY <1>2, <1>8 DEF OnVod
  <2> HIDE DEF t, u, cs
  <2>5. ThreadInv(s, u, posted[s])
    BY <1>1, <1>4, <2>3 DEF ThreadInv, ServesOwn, Stage, RootIsNoted, Noted, VodIsChecked, Working, Located
  <2>6. fds' = fds + (leaked' - leaked) + Opened(thread[s], u)
    <3>1. Opened(thread[s], u) = 0
      BY <1>4, <2>3 DEF Opened, Sending, t
    <3> QED
      BY <1>2, <1>3, <3>1
  <2> QED
    BY <1>3, <1>4, <2>1, <2>3, <2>4, <2>5, <2>6, MovedKeeps, Zenon
<1> QED
  BY <1>6, <1>7, <1>8

\* CheckIsFullVod goes on to the next chunk, or ends with an outcome.
LEMMA CheckIsFullVodStep == ASSUME IndInv, NEW s \in Servers, CheckIsFullVod(s) PROVE IndInv'
<1> DEFINE t == thread[s]
<1>1. Types /\ t \in ThreadStates /\ ThreadInv(s, t, posted[s])
  BY DEF IndInv, Types, PerServer
<1>2. posted[s] = 0 /\ posted \in [Servers -> Nat] /\ leaked \in Nat /\ fds \in Int
  BY <1>1 DEF Types, ThreadInv, Stage, CheckIsFullVod
<1>3. /\ leaked' \in Nat /\ leaked' = leaked /\ fds' = fds
      /\ fds' = fds + (leaked' - leaked)
      /\ fds' = fds + (leaked' - leaked) + 0
  <2>1. leaked' = leaked /\ fds' = fds
    BY DEF CheckIsFullVod
  <2> QED
    BY <1>2, <2>1
<1>4. t.pc = "check" /\ t.pc \in {"observer", "check"} /\ UNCHANGED <<conn, online, env_vars>>
  BY DEF CheckIsFullVod
<1>5. ASSUME t.todo = {},
             thread' = [thread EXCEPT ![s] =
                            [@ EXCEPT !.pc = "stat", !.status = 200, !.full = TRUE]],
             UNCHANGED posted
      PROVE  IndInv'
  <2> DEFINE u == FoundAll(t, "stat", 200)
  <2>1. thread' = [thread EXCEPT ![s] = u]
    BY <1>5, Zenon DEF FoundAll
  <2>2. "stat" \in Pcs /\ 200 \in Statuses
    BY DEF Pcs, Working, Statuses
  <2>3. /\ u \in ThreadStates /\ u.pc = "stat" /\ u.status = 200 /\ u.full
        /\ u.conn = t.conn /\ u.url = t.url /\ u.name = t.name /\ u.answers = t.answers
        /\ u.root = t.root /\ u.dir = t.dir /\ u.todo = t.todo /\ u.found = t.found /\ u.named = t.named
    BY <1>1, <2>2, FullState
  <2>4. posted' = [posted EXCEPT ![s] = posted[s]] /\ posted[s] \in Nat
    BY <1>2, <1>5
  <2>5. t.todo = {}
    BY <1>5
  <2> HIDE DEF t, u
  <2>6. ThreadInv(s, u, posted[s])
    <3>1. ServesOwn(s, u) /\ RootIsNoted(s, u)
      BY <1>1, <1>4, <2>3 DEF ThreadInv, ServesOwn, RootIsNoted, Noted, Working, Located
    <3>2. Stage(u, posted[s])
      <4>1. t.answers = 0 /\ t.name # ""
        BY <1>1, <1>4 DEF ThreadInv, Stage, Working
      <4>2. u.pc = "stat" /\ u.status = 200 /\ u.answers = t.answers /\ u.name = t.name
        BY <2>3
      <4>3. posted[s] = 0
        BY <1>2
      <4>4. u.pc \notin {"finish", "idle", "path", "fallback", "observer", "check"}
        BY <4>2
      <4>5. u.status # 202
        BY <4>2
      <4>6. u.answers = 0
        BY <4>1, <4>2
      <4>7. u.name # ""
        BY <4>1, <4>2
      <4>8. posted[s] \in 0..1
        BY <4>3
      <4> QED
        BY <4>4, <4>5, <4>6, <4>7, <4>8, Zenon DEF Stage
    <3>3. VodIsChecked(s, u)
      <4>1. u.full /\ u.found = u.named /\ u.todo = {}
        BY <1>1, <1>4, <2>3, <2>5 DEF ThreadInv, VodIsChecked
      <4> QED
        BY <2>3, <4>1 DEF VodIsChecked
    <3> QED
      BY <3>1, <3>2, <3>3 DEF ThreadInv
  <2>7. Opened(thread[s], u) = 0
    BY <1>4, <2>3 DEF Opened, Sending, t
  <2> QED
    BY <1>3, <1>4, <2>1, <2>3, <2>4, <2>6, <2>7, MovedKeeps, Zenon
<1>6. ASSUME NEW n \in t.todo,
             thread' = [thread EXCEPT ![s] =
                            [@ EXCEPT !.todo = thread[s].todo \ {n},
                                      !.found = thread[s].found \cup {n}]],
             UNCHANGED posted
      PROVE  IndInv'
  <2> DEFINE todo == t.todo \ {n}
             found == t.found \cup {n}
             u == Found(t, todo, found)
  <2>1. thread' = [thread EXCEPT ![s] = u]
    BY <1>6, Zenon DEF Found
  <2>2. todo \in SUBSET Names /\ found \in SUBSET Names
    BY <1>1 DEF ThreadStates
  <2>3. todo \cap found = {} /\ t.named = todo \cup found
    BY <1>1, <1>4 DEF ThreadInv, VodIsChecked
  <2> HIDE DEF todo, found
  <2>4. /\ u \in ThreadStates /\ u.pc = t.pc /\ u.todo = todo /\ u.found = found
        /\ u.conn = t.conn /\ u.url = t.url /\ u.name = t.name /\ u.answers = t.answers
        /\ u.root = t.root /\ u.dir = t.dir /\ u.status = t.status /\ u.named = t.named
    BY <1>1, <2>2, FoundState
  <2>5. posted' = [posted EXCEPT ![s] = posted[s]] /\ posted[s] \in Nat
    BY <1>2, <1>6
  <2> HIDE DEF t, u
  <2>6. ThreadInv(s, u, posted[s])
    <3>1. ServesOwn(s, u) /\ RootIsNoted(s, u)
      BY <1>1, <1>4, <2>4 DEF ThreadInv, ServesOwn, RootIsNoted, Noted, Working, Located
    <3>2. Stage(u, posted[s])
      BY <1>1, <1>4, <2>4 DEF ThreadInv, Stage, Working
    <3>3. VodIsChecked(s, u)
      BY <1>4, <2>3, <2>4 DEF VodIsChecked
    <3> QED
      BY <3>1, <3>2, <3>3 DEF ThreadInv
  <2>7. Opened(thread[s], u) = 0
    BY <1>4, <2>4 DEF Opened, Sending, t
  <2> QED
    BY <1>3, <1>4, <2>1, <2>4, <2>5, <2>6, <2>7, MovedKeeps, Zenon
<1>7. ASSUME Recommend(s, 202), Post(s)
      PROVE  IndInv'
  <2>1. posted' = [posted EXCEPT ![s] = posted'[s]] /\ posted'[s] = 1
    BY <1>2, <1>7 DEF Post
  <2>2. /\ posted'[s] \in 0..1 /\ (202 = 202 => posted'[s] = 1)
        /\ 202 \in {202, 403} /\ 202 \in Statuses
    BY <2>1 DEF Statuses
  <2> QED
    BY <1>3, <1>4, <1>7, <2>1, <2>2, RecommendStep, Zenon
<1> QED
  BY <1>5, <1>6, <1>7, Zenon DEF CheckIsFullVod

\* stat has found a file that may be sent.
LEMMA StatStep ==
    ASSUME IndInv, NEW s \in Servers,
           thread' = [thread EXCEPT ![s] = [@ EXCEPT !.pc = "open"]],
           thread[s].pc = "stat", s # "http" => thread[s].status # 403,
           UNCHANGED <<conn, online, env_vars, posted, leaked, fds>>
    PROVE  IndInv'
<1> DEFINE t == thread[s]
           u == AtPc(t, "open")
<1>1. Types /\ t \in ThreadStates /\ ThreadInv(s, t, posted[s])
  BY DEF IndInv, Types, PerServer
<1>2. thread' = [thread EXCEPT ![s] = u]
  BY Zenon DEF AtPc
<1>3. "open" \in Pcs
  BY DEF Pcs, Working
<1>4. /\ u \in ThreadStates /\ u.pc = "open"
      /\ u.conn = t.conn /\ u.url = t.url /\ u.name = t.name /\ u.answers = t.answers
      /\ u.root = t.root /\ u.dir = t.dir /\ u.status = t.status /\ u.full = t.full
      /\ u.todo = t.todo /\ u.found = t.found /\ u.named = t.named
  BY <1>1, <1>3, PcState
<1>5. t.pc = "stat" /\ (s # "http" => t.status # 403)
  OBVIOUS
<1> HIDE DEF t, u
<1>6. ThreadInv(s, u, posted[s])
  <2>1. ServesOwn(s, u) /\ RootIsNoted(s, u)
    BY <1>1, <1>4, <1>5 DEF ThreadInv, ServesOwn, RootIsNoted, Noted, Working, Located
  <2>2. Stage(u, posted[s])
    BY <1>1, <1>4, <1>5 DEF ThreadInv, Stage, Working
  <2>3. VodIsChecked(s, u)
    BY <1>1, <1>4, <1>5 DEF ThreadInv, VodIsChecked
  <2> QED
    BY <2>1, <2>2, <2>3 DEF ThreadInv
<1>7. posted' = [posted EXCEPT ![s] = posted[s]] /\ posted[s] \in Nat
  BY <1>1 DEF Types
<1>8. Opened(thread[s], u) = 0
  BY <1>4, <1>5 DEF Opened, Sending, t
<1>9. leaked' \in Nat /\ fds' = fds + (leaked' - leaked) + Opened(thread[s], u)
  BY <1>1, <1>8 DEF Types
<1> QED
  BY <1>2, <1>4, <1>6, <1>7, <1>9, MovedKeeps, Zenon

\* The hls server looks at the file.
LEMMA HttpStatStep == ASSUME IndInv, NEW s \in Servers, HttpStat(s) PROVE IndInv'
<1>1. /\ thread[s].pc = "stat" /\ s = "http"
      /\ UNCHANGED <<conn, online, env_vars, posted, leaked>>
  BY DEF HttpStat
<1>2. thread[s].pc \in Working
  BY <1>1 DEF Working
<1>a. ~Sending(thread[s]) /\ fds \in Int
  BY <1>1 DEF Sending, IndInv, Types
<1>3. fds' = fds - Closing(thread[s])
  <2>1. fds' = fds
    BY DEF HttpStat
  <2> QED
    BY <1>a, <2>1 DEF Closing
<1>4. /\ 404 \in Statuses /\ 404 # 202
      /\ 400 \in Statuses /\ 400 # 202
  BY DEF Statuses
<1>5. ASSUME Answer(s, 404) \/ Answer(s, 400) PROVE IndInv'
  BY <1>1, <1>2, <1>3, <1>4, <1>5, AnswerStep
<1>6. ASSUME thread' = [thread EXCEPT ![s] = [@ EXCEPT !.pc = "open"]]
      PROVE  IndInv'
  <2>1. UNCHANGED <<conn, online, env_vars, posted, leaked, fds>>
    BY DEF HttpStat
  <2> QED
    BY <1>1, <1>6, <2>1, StatStep, Zenon
<1> QED
  BY <1>5, <1>6, Zenon DEF HttpStat

\* The vods server looks at the file.
LEMMA VodsStatStep == ASSUME IndInv, NEW s \in Servers, VodsStat(s) PROVE IndInv'
<1>1. /\ thread[s].pc = "stat" /\ s # "http"
      /\ UNCHANGED <<conn, online, env_vars, posted, leaked>>
  BY DEF VodsStat
<1>2. thread[s].pc \in Working
  BY <1>1 DEF Working
<1>a. ~Sending(thread[s]) /\ fds \in Int
  BY <1>1 DEF Sending, IndInv, Types
<1>3. fds' = fds - Closing(thread[s])
  <2>1. fds' = fds
    BY DEF VodsStat
  <2> QED
    BY <1>a, <2>1 DEF Closing
<1>4. /\ 404 \in Statuses /\ 404 # 202
      /\ 400 \in Statuses /\ 400 # 202
      /\ 403 \in Statuses /\ 403 # 202
      /\ 202 \in Statuses
  BY DEF Statuses
<1>5. ASSUME Answer(s, 404) \/ Answer(s, 400) \/ Answer(s, 403) PROVE IndInv'
  BY <1>1, <1>2, <1>3, <1>4, <1>5, AnswerStep
<1>6. ASSUME Answer(s, 202), thread[s].status = 202 PROVE IndInv'
  BY <1>1, <1>2, <1>3, <1>4, <1>6, AnswerStep
<1>7. ASSUME thread[s].status # 403,
             thread' = [thread EXCEPT ![s] = [@ EXCEPT !.pc = "open"]]
      PROVE  IndInv'
  <2>1. UNCHANGED <<conn, online, env_vars, posted, leaked, fds>>
    BY DEF VodsStat
  <2> QED
    BY <1>1, <1>7, <2>1, StatStep, Zenon
<1> QED
  BY <1>5, <1>6, <1>7, Zenon DEF VodsStat

\* A thread that goes on to send the file, having opened it or sent the headers.
LEMMA PcStep ==
    ASSUME IndInv, NEW s \in Servers, NEW p \in {"headers", "file"},
           thread' = [thread EXCEPT ![s] = [@ EXCEPT !.pc = p]],
           thread[s].pc \in {"open", "headers"},
           UNCHANGED <<conn, online, env_vars, posted, leaked>>,
           fds' = fds + (IF Sending(thread[s]) THEN 0 ELSE 1)
    PROVE  IndInv'
<1> DEFINE t == thread[s]
           u == AtPc(t, p)
<1>1. Types /\ t \in ThreadStates /\ ThreadInv(s, t, posted[s])
  BY DEF IndInv, Types, PerServer
<1>2. thread' = [thread EXCEPT ![s] = u]
  BY Zenon DEF AtPc
<1>3. p \in Pcs
  BY DEF Pcs, Working
<1>4. /\ u \in ThreadStates /\ u.pc = p
      /\ u.conn = t.conn /\ u.url = t.url /\ u.name = t.name /\ u.answers = t.answers
      /\ u.root = t.root /\ u.dir = t.dir /\ u.status = t.status /\ u.full = t.full
      /\ u.todo = t.todo /\ u.found = t.found /\ u.named = t.named
  BY <1>1, <1>3, PcState, Zenon
<1>5. t.pc \in {"open", "headers"}
  OBVIOUS
<1> HIDE DEF t, u
<1>6. ThreadInv(s, u, posted[s])
  <2>1. ServesOwn(s, u) /\ RootIsNoted(s, u)
    BY <1>1, <1>4, <1>5 DEF ThreadInv, ServesOwn, RootIsNoted, Noted, Working, Located
  <2>2. Stage(u, posted[s])
    BY <1>1, <1>4, <1>5 DEF ThreadInv, Stage, Working
  <2>3. VodIsChecked(s, u)
    BY <1>1, <1>4, <1>5 DEF ThreadInv, VodIsChecked
  <2> QED
    BY <2>1, <2>2, <2>3 DEF ThreadInv
<1>7. posted' = [posted EXCEPT ![s] = posted[s]] /\ posted[s] \in Nat
  BY <1>1 DEF Types
<1>8. Opened(thread[s], u) = IF Sending(thread[s]) THEN 0 ELSE 1
  BY <1>4 DEF Opened, Sending
<1>9. leaked' \in Nat /\ fds' = fds + (leaked' - leaked) + Opened(thread[s], u)
  BY <1>1, <1>8 DEF Types
<1> QED
  BY <1>2, <1>4, <1>6, <1>7, <1>9, MovedKeeps, Zenon

\* open.
LEMMA OpenStep == ASSUME IndInv, NEW s \in Servers, Open(s) PROVE IndInv'
<1>1. thread[s].pc = "open" /\ UNCHANGED <<conn, online, env_vars, posted, leaked>>
  BY DEF Open
<1>2. thread[s].pc \in Working
  BY <1>1 DEF Working
<1>a. ~Sending(thread[s]) /\ fds \in Int
  BY <1>1 DEF Sending, IndInv, Types
<1>3. 403 \in Statuses /\ 403 # 202
  BY DEF Statuses
<1>4. CASE Content(s, thread[s].name) \in {"none", "protected"}
  <2>1. Answer(s, 403)
    BY <1>4 DEF Open
  <2>2. fds' = fds - Closing(thread[s])
    <3>1. fds' = fds
      BY <1>4 DEF Open
    <3> QED
      BY <1>a, <3>1 DEF Closing
  <2> QED
    BY <1>1, <1>2, <1>3, <2>1, <2>2, AnswerStep
<1>5. CASE Content(s, thread[s].name) \notin {"none", "protected"}
  <2>1. thread' = [thread EXCEPT ![s] = [@ EXCEPT !.pc = "headers"]] /\ fds' = fds + 1
    BY <1>5 DEF Open
  <2>3. fds' = fds + (IF Sending(thread[s]) THEN 0 ELSE 1)
    BY <1>a, <2>1
  <2>4. thread[s].pc \in {"open", "headers"} /\ "headers" \in {"headers", "file"}
    BY <1>1
  <2> QED
    BY <1>1, <2>1, <2>3, <2>4, PcStep, Zenon
<1> QED
  BY <1>4, <1>5

\* The headers are sent, or the file is closed.
LEMMA SendHeadersStep ==
    ASSUME IndInv, NEW s \in Servers, NEW sent \in BOOLEAN, SendHeaders(s, sent)
    PROVE  IndInv'
<1>1. thread[s].pc = "headers" /\ UNCHANGED <<conn, online, env_vars, posted, leaked>>
  BY DEF SendHeaders
<1>2. thread[s].pc \in Working /\ Sending(thread[s]) /\ fds \in Int
  BY <1>1 DEF Working, Sending, IndInv, Types
<1>3. 200 \in Statuses /\ 200 # 202
  BY DEF Statuses
<1>4. CASE ~sent
  <2>1. Answer(s, 200) /\ fds' = fds - 1
    BY <1>4 DEF SendHeaders
  <2>2. fds' = fds - Closing(thread[s])
    BY <1>2, <2>1 DEF Closing
  <2> QED
    BY <1>1, <1>2, <1>3, <2>1, <2>2, AnswerStep, Zenon
<1>5. CASE sent
  <2>1. thread' = [thread EXCEPT ![s] = [@ EXCEPT !.pc = "file"]] /\ fds' = fds
    BY <1>5 DEF SendHeaders
  <2>3. fds' = fds + (IF Sending(thread[s]) THEN 0 ELSE 1)
    BY <1>2, <2>1
  <2>4. thread[s].pc \in {"open", "headers"} /\ "file" \in {"headers", "file"}
    BY <1>1
  <2> QED
    BY <1>1, <2>1, <2>3, <2>4, PcStep, Zenon
<1> QED
  BY <1>4, <1>5

\* The file is sent and closed.
LEMMA SendFileStep == ASSUME IndInv, NEW s \in Servers, SendFile(s) PROVE IndInv'
<1>1. /\ thread[s].pc = "file" /\ UNCHANGED <<conn, online, env_vars, posted, leaked>>
      /\ Answer(s, 200) /\ fds' = fds - 1
  BY DEF SendFile
<1>2. thread[s].pc \in Working /\ Sending(thread[s]) /\ fds \in Int
  BY <1>1 DEF Working, Sending, IndInv, Types
<1>3. 200 \in Statuses /\ 200 # 202
  BY DEF Statuses
<1>4. fds' = fds - Closing(thread[s])
  BY <1>1, <1>2 DEF Closing
<1> QED
  BY <1>1, <1>2, <1>3, <1>4, AnswerStep, Zenon

-----------------------------------------------------------------------------
(* Steps of a connection.                                                  *)

\* The open connections of a server.
OpenOf(s) == {c \in Connections : ServerOf[c] = s /\ conn[c] = "open"}

\* There are finitely many.
LEMMA FiniteOpen == \A s : IsFiniteSet(OpenOf(s)) /\ Cardinality(OpenOf(s)) \in Nat
BY HttpFilesAssumption, FS_Subset, FS_CardinalityType DEF OpenOf

\* A server is the server of a connection.
LEMMA ServerOfType == \A c \in Connections : ServerOf[c] \in Servers
BY DEF Servers

\* A connection that is accepted is counted.
LEMMA AcceptedCounts ==
    ASSUME Types, OnlineIsOpen, NEW c \in Connections, Accepted(c)
    PROVE  /\ conn' \in [Connections -> {"new", "open", "closed"}]
           /\ online' \in [Servers -> Int]
           /\ OnlineIsOpen'
<1>1. conn' \in [Connections -> {"new", "open", "closed"}] /\ online' \in [Servers -> Int]
  BY ServerOfType DEF Types, Accepted
<1>2. \A d \in Connections : d # c => conn'[d] = conn[d]
  BY DEF Types, Accepted
<1>3. conn[c] = "new" /\ conn'[c] = "open"
  BY DEF Types, Accepted
<1>4. ASSUME NEW s \in Servers PROVE online'[s] = Cardinality(OpenOf(s)')
  <2>1. online[s] = Cardinality(OpenOf(s))
    BY DEF OnlineIsOpen, OpenOf
  <2>2. CASE s = ServerOf[c]
    <3>1. OpenOf(s)' = OpenOf(s) \cup {c} /\ c \notin OpenOf(s)
      BY <1>2, <1>3, <2>2 DEF OpenOf
    <3>2. Cardinality(OpenOf(s)') = Cardinality(OpenOf(s)) + 1
      BY <3>1, FiniteOpen, FS_AddElement
    <3>3. online'[s] = online[s] + 1
      BY <2>2 DEF Types, Accepted
    <3> QED
      BY <2>1, <3>2, <3>3
  <2>3. CASE s # ServerOf[c]
    <3>1. OpenOf(s)' = OpenOf(s)
      BY <1>2, <2>3 DEF OpenOf
    <3>2. online'[s] = online[s]
      BY <2>3 DEF Types, Accepted
    <3> QED
      BY <2>1, <3>1, <3>2
  <2> QED
    BY <2>2, <2>3
<1> QED
  BY <1>1, <1>4 DEF OnlineIsOpen, OpenOf

\* A connection that is closed is no longer counted.
LEMMA ClosedCounts ==
    ASSUME Types, OnlineIsOpen, NEW c \in Connections, conn[c] = "open", Close(c)
    PROVE  /\ conn' \in [Connections -> {"new", "open", "closed"}]
           /\ online' \in [Servers -> Int]
           /\ OnlineIsOpen'
           /\ \A d \in Connections : d # c => conn'[d] = conn[d]
<1>1. conn' \in [Connections -> {"new", "open", "closed"}] /\ online' \in [Servers -> Int]
  BY ServerOfType DEF Types, Close
<1>2. \A d \in Connections : d # c => conn'[d] = conn[d]
  BY DEF Types, Close
<1>3. conn[c] = "open" /\ conn'[c] = "closed"
  BY DEF Types, Close
<1>4. ASSUME NEW s \in Servers PROVE online'[s] = Cardinality(OpenOf(s)')
  <2>1. online[s] = Cardinality(OpenOf(s))
    BY DEF OnlineIsOpen, OpenOf
  <2>2. CASE s = ServerOf[c]
    <3>1. OpenOf(s)' = OpenOf(s) \ {c} /\ c \in OpenOf(s)
      BY <1>2, <1>3, <2>2 DEF OpenOf
    <3>2. Cardinality(OpenOf(s)') = Cardinality(OpenOf(s)) - 1
      BY <3>1, FiniteOpen, FS_RemoveElement
    <3>3. online'[s] = online[s] - 1
      BY <2>2 DEF Types, Close
    <3> QED
      BY <2>1, <3>2, <3>3
  <2>3. CASE s # ServerOf[c]
    <3>1. OpenOf(s)' = OpenOf(s)
      BY <1>2, <2>3 DEF OpenOf
    <3>2. online'[s] = online[s]
      BY <2>3 DEF Types, Close
    <3> QED
      BY <2>1, <3>1, <3>2
  <2> QED
    BY <2>2, <2>3
<1> QED
  BY <1>1, <1>2, <1>4 DEF OnlineIsOpen, OpenOf

\* A thread that ends a request or begins one keeps the invariant, if the
\* connections the other threads serve stay open and a request that begins
\* notes the directories.
LEMMA BeginsKeep ==
    ASSUME IndInv, NEW s \in Servers, NEW u \in ThreadStates, NEW n \in Nat,
           thread' = [thread EXCEPT ![s] = u], posted' = [posted EXCEPT ![s] = n],
           thread[s].pc \in {"idle", "finish"}, u.pc \in {"idle", "finish", "path"},
           Stage(u, n), VodIsChecked(s, u),
           u.pc # "idle" => u.conn \in Connections /\ ServerOf[u.conn] = s
                                                   /\ conn'[u.conn] = "open",
           \A e \in Servers : e # s /\ thread[e].pc # "idle" => conn'[thread[e].conn] = "open",
           u.pc = "path" => {http_root[s], next_root[s]} \subseteq current'[s],
           \A e \in Servers : e # s => current'[e] = current[e],
           current' \in [Servers -> SUBSET Roots],
           conn' \in [Connections -> {"new", "open", "closed"}],
           online' \in [Servers -> Int],
           OnlineIsOpen',
           UNCHANGED <<http_root, next_root, files, fds, leaked>>
    PROVE  IndInv'
<1>0. Types /\ PerServer /\ DescriptorsAccounted
  BY DEF IndInv
<1>1. thread' \in [Servers -> ThreadStates] /\ posted' \in [Servers -> Nat]
  BY <1>0 DEF Types
<1>2. thread'[s] = u /\ posted'[s] = n
  BY <1>0 DEF Types
<1>3. \A e \in Servers : e # s => thread'[e] = thread[e] /\ posted'[e] = posted[e]
  BY <1>0 DEF Types
<1>4. Types'
  BY <1>0, <1>1 DEF Types
<1>5. ASSUME NEW e \in Servers, e # s PROVE ThreadInv(e, thread[e], posted[e])'
  <2> DEFINE t == thread[e]
             k == posted[e]
  <2>1. ThreadInv(e, t, k) /\ thread'[e] = t /\ posted'[e] = k
    BY <1>0, <1>3, <1>5 DEF PerServer
  <2>2. (t.pc # "idle" => conn'[t.conn] = "open") /\ current'[e] = current[e]
    BY <1>5
  <2> HIDE DEF t, k
  <2>3. t.pc # "idle" => t.conn \in Connections /\ ServerOf[t.conn] = e /\ conn'[t.conn] = "open"
    BY <2>1, <2>2 DEF ThreadInv, ServesOwn
  <2>4. Noted(t, http_root'[e], next_root'[e], current'[e])
    BY <2>1, <2>2 DEF ThreadInv, RootIsNoted, Noted
  <2>5. Stage(t, k) /\ VodIsChecked(e, t)
    BY <2>1 DEF ThreadInv
  <2>6. ServesOwn(e, thread[e])'
    BY <2>1, <2>3 DEF ServesOwn
  <2>7. RootIsNoted(e, thread[e])'
    BY <2>1, <2>4 DEF RootIsNoted, Noted
  <2>8. Stage(thread[e], posted[e])'
    BY <2>1, <2>5 DEF Stage
  <2>9. VodIsChecked(e, thread[e])'
    BY <2>1, <2>5 DEF VodIsChecked
  <2> QED
    BY <2>6, <2>7, <2>8, <2>9 DEF ThreadInv
<1>6. ThreadInv(s, thread[s], posted[s])'
  <2>1. u.pc # "idle" => u.conn \in Connections /\ ServerOf[u.conn] = s /\ conn'[u.conn] = "open"
    OBVIOUS
  <2>2. /\ u.pc \in Working => {http_root'[s], next_root'[s]} \subseteq current'[s]
        /\ u.pc \notin Located /\ u.pc # "fallback"
    BY DEF Working, Located
  <2>3. Stage(u, n) /\ VodIsChecked(s, u)
    OBVIOUS
  <2>4. ServesOwn(s, thread[s])'
    BY <1>2, <2>1 DEF ServesOwn
  <2>5. RootIsNoted(s, thread[s])'
    BY <1>2, <2>2 DEF RootIsNoted, Noted
  <2>6. Stage(thread[s], posted[s])'
    BY <1>2, <2>3 DEF Stage
  <2>7. VodIsChecked(s, thread[s])'
    BY <1>2, <2>3 DEF VodIsChecked
  <2> QED
    BY <2>4, <2>5, <2>6, <2>7 DEF ThreadInv
<1>7. PerServer'
  BY <1>5, <1>6 DEF PerServer
<1>8. DescriptorsAccounted'
  <2>1. Serving' = Serving
    BY <1>2, <1>3 DEF Serving
  <2> QED
    BY <1>0, <2>1 DEF DescriptorsAccounted
<1> QED
  BY <1>4, <1>7, <1>8 DEF IndInv

\* A thread that has read a request which is not for a file.
Unanswered(p, c, keep) == [Idle EXCEPT !.pc = p, !.conn = c, !.keep = keep]

\* The fields of the new state.
LEMMA UnansweredState ==
    ASSUME NEW p \in Pcs, NEW c \in Connections, NEW keep \in BOOLEAN
    PROVE  LET u == Unanswered(p, c, keep)
           IN  /\ u \in ThreadStates /\ u.pc = p /\ u.conn = c /\ u.name = Idle.name
               /\ u.status = 0 /\ u.todo = {} /\ u.found = {}
<1>1. Unanswered(p, c, keep) \in ThreadStates
  BY IdleState DEF ThreadStates, Unanswered
<1> QED
  BY <1>1 DEF ThreadStates, Unanswered, Idle

\* One that has answered that there is no such path.
Refused(p, c, keep, k, a) ==
    [Idle EXCEPT !.pc = p, !.conn = c, !.keep = keep, !.status = k, !.answers = a]

\* The fields of the new state.
LEMMA RefusedState ==
    ASSUME NEW p \in Pcs, NEW c \in Connections, NEW keep \in BOOLEAN,
           NEW k \in Statuses, NEW a \in Nat
    PROVE  LET u == Refused(p, c, keep, k, a)
           IN  /\ u \in ThreadStates /\ u.pc = p /\ u.conn = c /\ u.name = Idle.name
               /\ u.status = k /\ u.todo = {} /\ u.found = {}
<1>1. Refused(p, c, keep, k, a) \in ThreadStates
  BY IdleState DEF ThreadStates, Refused
<1> QED
  BY <1>1 DEF ThreadStates, Refused, Idle

\* One that has read a file request.
Asked(p, c, keep, url, name) ==
    [Idle EXCEPT !.pc = p, !.conn = c, !.keep = keep, !.url = url, !.name = name]

\* The fields of the new state.
LEMMA AskedState ==
    ASSUME NEW p \in Pcs, NEW c \in Connections, NEW keep \in BOOLEAN,
           NEW url \in Dirs, NEW name \in Names
    PROVE  LET u == Asked(p, c, keep, url, name)
           IN  /\ u \in ThreadStates /\ u.pc = p /\ u.conn = c /\ u.name = name
               /\ u.status = 0 /\ u.answers = 0 /\ u.todo = {} /\ u.found = {}
<1>1. Asked(p, c, keep, url, name) \in ThreadStates
  BY IdleState DEF ThreadStates, Asked
<1> QED
  BY <1>1 DEF ThreadStates, Asked, Idle

\* A thread without a request satisfies what is asked of it.
LEMMA IdleInv == \A s : Stage(Idle, 0) /\ VodIsChecked(s, Idle) /\ Idle.pc = "idle"
BY DEF Idle, Stage, VodIsChecked, Working

\* A new connection: the connections being served stay open.
LEMMA AcceptedStep == ASSUME IndInv, NEW c \in Connections, Accepted(c) PROVE IndInv'
<1>0. Types /\ PerServer /\ DescriptorsAccounted /\ OnlineIsOpen
  BY DEF IndInv
<1>1. /\ conn' \in [Connections -> {"new", "open", "closed"}]
      /\ online' \in [Servers -> Int] /\ OnlineIsOpen'
  BY <1>0, AcceptedCounts
<1>2. Types'
  BY <1>0, <1>1 DEF Types, Accepted, env_vars
<1>3. \A d \in Connections : conn[d] = "open" => conn'[d] = "open"
  BY <1>0 DEF Types, Accepted
<1>4. UNCHANGED <<thread, posted, http_root, next_root, current, fds, leaked>>
  BY DEF Accepted, env_vars
<1>5. PerServer'
  <2>1. \A e \in Servers : ServesOwn(e, thread[e])'
    BY <1>0, <1>3, <1>4 DEF PerServer, ThreadInv, ServesOwn
  <2>2. \A e \in Servers : RootIsNoted(e, thread[e])'
    BY <1>0, <1>4 DEF PerServer, ThreadInv, RootIsNoted, Noted
  <2>3. \A e \in Servers : Stage(thread[e], posted[e])'
    BY <1>0, <1>4 DEF PerServer, ThreadInv, Stage
  <2>4. \A e \in Servers : VodIsChecked(e, thread[e])'
    BY <1>0, <1>4 DEF PerServer, ThreadInv, VodIsChecked
  <2> QED
    BY <2>1, <2>2, <2>3, <2>4 DEF PerServer, ThreadInv
<1>6. DescriptorsAccounted'
  BY <1>0, <1>4 DEF DescriptorsAccounted, Serving
<1> QED
  BY <1>1, <1>2, <1>5, <1>6 DEF IndInv

\* A thread's connection is not one of another server.
LEMMA OtherConnections ==
    ASSUME IndInv, NEW c \in Connections, NEW e \in Servers, e # ServerOf[c],
           thread[e].pc # "idle"
    PROVE  /\ thread[e].conn \in Connections /\ thread[e].conn # c
           /\ conn[thread[e].conn] = "open"
BY DEF IndInv, PerServer, ThreadInv, ServesOwn

\* A connection that ends without a request, while the thread is idle.
LEMMA NoRequestStep == ASSUME IndInv, NEW c \in Connections, NoRequest(c) PROVE IndInv'
<1> DEFINE s == ServerOf[c]
           u == thread[s]
<1>0. Types /\ PerServer /\ OnlineIsOpen
  BY DEF IndInv
<1>1. /\ conn[c] = "open" /\ u.pc = "idle" /\ Close(c)
      /\ UNCHANGED <<thread, posted, http_root, next_root, files, current, fds, leaked>>
  BY DEF NoRequest, Readable, env_vars
<1>2. /\ conn' \in [Connections -> {"new", "open", "closed"}]
      /\ online' \in [Servers -> Int] /\ OnlineIsOpen'
      /\ \A d \in Connections : d # c => conn'[d] = conn[d]
  BY <1>0, <1>1, ClosedCounts
<1>3. s \in Servers /\ u \in ThreadStates /\ posted[s] \in Nat
  BY <1>0, ServerOfType DEF Types
<1>4. thread' = [thread EXCEPT ![s] = u] /\ posted' = [posted EXCEPT ![s] = posted[s]]
  BY <1>0, <1>1, <1>3 DEF Types
<1>5. Stage(u, posted[s]) /\ VodIsChecked(s, u)
  BY <1>0, <1>3 DEF PerServer, ThreadInv
<1>6. \A e \in Servers : e # s /\ thread[e].pc # "idle" => conn'[thread[e].conn] = "open"
  BY <1>2, OtherConnections
<1>7. \A e \in Servers : e # s => current'[e] = current[e]
  BY <1>1
<1>8. current' \in [Servers -> SUBSET Roots]
  BY <1>0, <1>1 DEF Types
<1>9. u.pc \in {"idle", "finish"} /\ u.pc \in {"idle", "finish", "path"} /\ u.pc # "path"
  BY <1>1
<1> QED
  BY <1>1, <1>2, <1>3, <1>4, <1>5, <1>6, <1>7, <1>8, <1>9, BeginsKeep, Zenon

\* The end of a request: what is left is an idle thread.
LEMMA FinishStep == ASSUME IndInv, NEW s \in Servers, Finish(s) PROVE IndInv'
<1> DEFINE c == thread[s].conn
<1>0. Types /\ PerServer /\ OnlineIsOpen
  BY DEF IndInv
<1>1. /\ thread[s].pc = "finish"
      /\ thread' = [thread EXCEPT ![s] = Idle] /\ posted' = [posted EXCEPT ![s] = 0]
      /\ UNCHANGED <<http_root, next_root, files, fds, leaked>>
  BY DEF Finish, env_vars
<1>2. c \in Connections /\ ServerOf[c] = s /\ conn[c] = "open"
  BY <1>0, <1>1 DEF PerServer, ThreadInv, ServesOwn
<1>3. /\ conn' \in [Connections -> {"new", "open", "closed"}]
      /\ online' \in [Servers -> Int] /\ OnlineIsOpen'
      /\ \A d \in Connections : d # c => conn'[d] = conn[d]
  <2>1. CASE thread[s].keep
    <3>1. UNCHANGED <<conn, online>>
      BY <2>1 DEF Finish
    <3> QED
      BY <1>0, <3>1 DEF Types, OnlineIsOpen
  <2>2. CASE ~thread[s].keep
    <3>1. Close(c)
      BY <2>2 DEF Finish
    <3> HIDE DEF c
    <3> QED
      BY <1>0, <1>2, <3>1, ClosedCounts
  <2> QED
    BY <2>1, <2>2
<1>4. \A e \in Servers : e # s /\ thread[e].pc # "idle" => conn'[thread[e].conn] = "open"
  BY <1>2, <1>3, OtherConnections
<1>5. current' = current
  BY DEF Finish, env_vars
<1>6. \A e \in Servers : e # s => current'[e] = current[e]
  BY <1>5
<1>7. current' \in [Servers -> SUBSET Roots]
  BY <1>0, <1>5 DEF Types
<1>8. Stage(Idle, 0) /\ VodIsChecked(s, Idle) /\ Idle.pc = "idle" /\ Idle \in ThreadStates
  BY IdleInv, IdleState
<1>9. /\ thread[s].pc \in {"idle", "finish"} /\ Idle.pc \in {"idle", "finish", "path"}
      /\ Idle.pc # "path" /\ 0 \in Nat
  BY <1>1, <1>8
<1> QED
  BY <1>1, <1>3, <1>4, <1>6, <1>7, <1>8, <1>9, BeginsKeep, Zenon

\* A request was read: the thread has state u.
LEMMA BeginsStep ==
    ASSUME IndInv, NEW c \in Connections,
           NEW u \in ThreadStates, u.conn = c, u.pc \in {"finish", "path"},
           Stage(u, 0), VodIsChecked(ServerOf[c], u),
           conn[c] = "open", thread[ServerOf[c]].pc = "idle",
           thread' = [thread EXCEPT ![ServerOf[c]] = u],
           u.pc = "path" => {http_root[ServerOf[c]], next_root[ServerOf[c]]}
                                \subseteq current'[ServerOf[c]],
           \A e \in Servers : e # ServerOf[c] => current'[e] = current[e],
           current' \in [Servers -> SUBSET Roots],
           UNCHANGED <<conn, online, posted, http_root, next_root, files, fds, leaked>>
    PROVE  IndInv'
<1> DEFINE s == ServerOf[c]
<1>0. Types /\ PerServer /\ OnlineIsOpen
  BY DEF IndInv
<1>1. s \in Servers
  BY ServerOfType
<1>2. thread[s].pc = "idle" /\ posted[s] = 0
  BY <1>0, <1>1 DEF PerServer, ThreadInv, Stage
<1>3. posted' = [posted EXCEPT ![s] = 0] /\ 0 \in Nat
  BY <1>0, <1>2 DEF Types
<1>4. \A e \in Servers : e # s /\ thread[e].pc # "idle" => conn'[thread[e].conn] = "open"
  BY OtherConnections
<1>5. /\ conn' \in [Connections -> {"new", "open", "closed"}]
      /\ online' \in [Servers -> Int] /\ OnlineIsOpen'
  BY <1>0 DEF Types, OnlineIsOpen
<1>6. /\ thread[s].pc \in {"idle", "finish"} /\ u.pc \in {"idle", "finish", "path"}
      /\ u.conn \in Connections /\ ServerOf[u.conn] = s /\ conn'[u.conn] = "open"
  BY <1>2
<1>7. /\ thread' = [thread EXCEPT ![s] = u] /\ Stage(u, 0) /\ VodIsChecked(s, u)
      /\ u.pc = "path" => {http_root[s], next_root[s]} \subseteq current'[s]
      /\ \A e \in Servers : e # s => current'[e] = current[e]
      /\ UNCHANGED <<http_root, next_root, files, fds, leaked>>
  OBVIOUS
<1> HIDE DEF s
<1> QED
  BY <1>1, <1>3, <1>4, <1>5, <1>6, <1>7, BeginsKeep, Zenon

\* A request that is neither GET nor HEAD is finished without an answer.
LEMMA OtherMethodStep ==
    ASSUME IndInv, NEW c \in Connections, NEW keep \in BOOLEAN, OtherMethod(c, keep)
    PROVE  IndInv'
<1> DEFINE s == ServerOf[c]
           u == Unanswered("finish", c, keep)
<1>1. /\ conn[c] = "open" /\ thread[s].pc = "idle"
      /\ UNCHANGED <<conn, online, posted, http_root, next_root, files, fds, leaked>>
  BY DEF OtherMethod, Readable, env_vars
<1>2. thread' = [thread EXCEPT ![s] = u]
  BY Zenon DEF OtherMethod, Unanswered
<1>3. "finish" \in Pcs
  BY DEF Pcs
<1>4. /\ u \in ThreadStates /\ u.pc = "finish" /\ u.conn = c /\ u.name = Idle.name
      /\ u.status = 0 /\ u.todo = {} /\ u.found = {}
  BY <1>3, UnansweredState
<1> HIDE DEF u
<1>5. Stage(u, 0)
  <2>1. u.pc = "finish" /\ u.name = ""
    BY <1>4 DEF Idle
  <2>2. u.pc \notin Working /\ u.pc \notin {"idle", "path", "fallback", "observer", "check"}
    BY <2>1 DEF Working
  <2>3. u.status # 202
    <3>1. u.status = 0
      BY <1>4
    <3> QED
      BY <3>1
  <2>4. 0 \in 0..1
    OBVIOUS
  <2> QED
    BY <2>1, <2>2, <2>3, <2>4, Zenon DEF Stage
<1>6. VodIsChecked(s, u)
  BY <1>4 DEF VodIsChecked
<1>7. u.pc \in {"finish", "path"} /\ u.pc # "path"
  BY <1>4
<1>8. current' \in [Servers -> SUBSET Roots] /\ current' = current
  BY DEF IndInv, Types, OtherMethod, Readable, env_vars
<1>9. \A e \in Servers : e # s => current'[e] = current[e]
  BY <1>8
<1> QED
  BY <1>1, <1>2, <1>4, <1>5, <1>6, <1>7, <1>8, <1>9, BeginsStep, Zenon

\* A request for something that is no file is finished with an answer.
LEMMA BadPathStep ==
    ASSUME IndInv, NEW c \in Connections, NEW keep \in BOOLEAN, BadPath(c, keep)
    PROVE  IndInv'
<1> DEFINE s == ServerOf[c]
           u == Refused("finish", c, keep, 404, 1)
<1>1. /\ conn[c] = "open" /\ thread[s].pc = "idle"
      /\ UNCHANGED <<conn, online, posted, http_root, next_root, files, fds, leaked>>
  BY DEF BadPath, Readable, env_vars
<1>2. thread' = [thread EXCEPT ![s] = u]
  BY Zenon DEF BadPath, Refused
<1>3. "finish" \in Pcs /\ 404 \in Statuses /\ 1 \in Nat
  BY DEF Pcs, Statuses
<1>4. /\ u \in ThreadStates /\ u.pc = "finish" /\ u.conn = c /\ u.name = Idle.name
      /\ u.status = 404 /\ u.todo = {} /\ u.found = {}
  BY <1>3, RefusedState
<1> HIDE DEF u
<1>5. Stage(u, 0)
  <2>1. u.pc = "finish" /\ u.name = ""
    BY <1>4 DEF Idle
  <2>2. u.pc \notin Working /\ u.pc \notin {"idle", "path", "fallback", "observer", "check"}
    BY <2>1 DEF Working
  <2>3. u.status # 202
    <3>1. u.status = 404
      BY <1>4
    <3> QED
      BY <3>1
  <2>4. 0 \in 0..1
    OBVIOUS
  <2> QED
    BY <2>1, <2>2, <2>3, <2>4, Zenon DEF Stage
<1>6. VodIsChecked(s, u)
  BY <1>4 DEF VodIsChecked
<1>7. u.pc \in {"finish", "path"} /\ u.pc # "path"
  BY <1>4
<1>8. current' \in [Servers -> SUBSET Roots] /\ current' = current
  BY DEF IndInv, Types, BadPath, Readable, env_vars
<1>9. \A e \in Servers : e # s => current'[e] = current[e]
  BY <1>8
<1> QED
  BY <1>1, <1>2, <1>4, <1>5, <1>6, <1>7, <1>8, <1>9, BeginsStep, Zenon

\* A file request notes the directories it may be served from.
LEMMA RequestStep ==
    ASSUME IndInv, NEW c \in Connections, NEW keep \in BOOLEAN,
           NEW url \in Dirs, NEW name \in Names, Request(c, keep, url, name)
    PROVE  IndInv'
<1> DEFINE s == ServerOf[c]
           u == Asked("path", c, keep, url, name)
<1>0. Types /\ s \in Servers
  BY ServerOfType DEF IndInv
<1>1. /\ conn[c] = "open" /\ thread[s].pc = "idle"
      /\ UNCHANGED <<conn, online, posted, http_root, next_root, files, fds, leaked>>
  BY DEF Request
<1>2. thread' = [thread EXCEPT ![s] = u]
  BY Zenon DEF Request, Asked
<1>3. "path" \in Pcs
  BY DEF Pcs, Working
<1>4. /\ u \in ThreadStates /\ u.pc = "path" /\ u.conn = c /\ u.name = name
      /\ u.status = 0 /\ u.answers = 0 /\ u.todo = {} /\ u.found = {}
  BY <1>3, AskedState
<1> HIDE DEF u
<1>5. Stage(u, 0)
  <2>1. u.name # ""
    <3>1. name # ""
      BY DEF Names
    <3> QED
      BY <1>4, <3>1
  <2>2. u.pc = "path"
    BY <1>4
  <2>3. u.answers = 0
    BY <1>4
  <2>4. u.status # 202
    <3>1. u.status = 0
      BY <1>4
    <3> QED
      BY <3>1
  <2>5. u.pc # "finish" /\ 0 \in 0..1
    BY <2>2
  <2> QED
    BY <2>1, <2>3, <2>4, <2>5, Zenon DEF Stage
<1>6. VodIsChecked(s, u)
  BY <1>4 DEF VodIsChecked
<1>7. /\ current' = [current EXCEPT ![s] = {http_root[s], next_root[s]}]
      /\ {http_root[s], next_root[s]} \in SUBSET Roots
  BY <1>0 DEF Request, Types
<1>8. /\ current' \in [Servers -> SUBSET Roots]
      /\ {http_root[s], next_root[s]} \subseteq current'[s]
      /\ \A e \in Servers : e # s => current'[e] = current[e]
  BY <1>0, <1>7 DEF Types
<1>9. u.pc \in {"finish", "path"}
  BY <1>4
<1> QED
  BY <1>1, <1>2, <1>4, <1>5, <1>6, <1>8, <1>9, BeginsStep, Zenon

-----------------------------------------------------------------------------
(* The main loop, the files, and the theorems.                             *)

\* What no thread does keeps the invariant, if the directories a request may
\* see stay noted.
LEMMA EnvironmentKeeps ==
    ASSUME IndInv, UNCHANGED other_vars, Types',
           \A s \in Servers : current[s] \subseteq current'[s],
           \A s \in Servers : {http_root[s], next_root[s]} \subseteq current[s] =>
                                  {http_root'[s], next_root'[s]} \subseteq current'[s]
    PROVE  IndInv'
<1>1. UNCHANGED <<conn, online, thread, leaked, fds, posted>>
  BY DEF other_vars
<1>2. PerServer
  BY DEF IndInv
<1>3. ASSUME NEW e \in Servers PROVE ThreadInv(e, thread[e], posted[e])'
  <2> DEFINE t == thread[e]
  <2>1. ThreadInv(e, t, posted[e]) /\ thread'[e] = t /\ posted'[e] = posted[e]
    BY <1>1, <1>2 DEF PerServer
  <2> HIDE DEF t
  <2>2. ServesOwn(e, thread[e])'
    BY <1>1, <2>1 DEF ThreadInv, ServesOwn
  <2>3. RootIsNoted(e, thread[e])'
    <3>1. Noted(t, http_root[e], next_root[e], current[e])
      BY <2>1 DEF ThreadInv, RootIsNoted
    <3>2. current[e] \subseteq current'[e] /\ (Several(current[e]) => Several(current'[e]))
      BY DEF Several
    <3>3. {http_root[e], next_root[e]} \subseteq current[e] =>
              {http_root'[e], next_root'[e]} \subseteq current'[e]
      OBVIOUS
    <3>4. Noted(t, http_root'[e], next_root'[e], current'[e])
      BY <3>1, <3>2, <3>3, Zenon DEF Noted
    <3> QED
      BY <2>1, <3>4 DEF RootIsNoted, Noted
  <2>4. Stage(thread[e], posted[e])'
    BY <2>1 DEF ThreadInv, Stage
  <2>5. VodIsChecked(e, thread[e])'
    BY <2>1 DEF ThreadInv, VodIsChecked
  <2> QED
    BY <2>2, <2>3, <2>4, <2>5 DEF ThreadInv
<1>4. DescriptorsAccounted' /\ OnlineIsOpen'
  BY <1>1 DEF IndInv, DescriptorsAccounted, Serving, OnlineIsOpen
<1> QED
  BY <1>3, <1>4 DEF IndInv, PerServer

\* The main loop changes a directory, in two steps; the first notes it.
LEMMA SetHttpRootStep ==
    ASSUME IndInv, NEW s \in Servers, NEW r \in Roots, SetHttpRoot(s, r)
    PROVE  IndInv'
<1>0. Types
  BY DEF IndInv
<1>1. /\ next_root' = [next_root EXCEPT ![s] = r]
      /\ current' = [current EXCEPT ![s] = current[s] \cup {r}]
      /\ UNCHANGED other_vars /\ UNCHANGED <<http_root, files>>
  BY DEF SetHttpRoot
<1>2. next_root' \in [Servers -> Roots] /\ current' \in [Servers -> SUBSET Roots]
  BY <1>0, <1>1 DEF Types
<1>3. Types'
  BY <1>0, <1>1, <1>2 DEF Types, other_vars
<1>4. \A e \in Servers : current[e] \subseteq current'[e]
  BY <1>0, <1>1 DEF Types
<1>5. \A e \in Servers : {http_root[e], next_root[e]} \subseteq current[e] =>
                             {http_root'[e], next_root'[e]} \subseteq current'[e]
  <2>1. next_root'[s] = r /\ r \in current'[s] /\ http_root' = http_root
    BY <1>0, <1>1 DEF Types
  <2>2. \A e \in Servers : e # s => next_root'[e] = next_root[e]
    BY <1>0, <1>1 DEF Types
  <2> QED
    BY <1>4, <2>1, <2>2
<1> QED
  BY <1>1, <1>3, <1>4, <1>5, EnvironmentKeeps

\* The second step.
LEMMA HttpRootSetStep == ASSUME IndInv, NEW s \in Servers, HttpRootSet(s) PROVE IndInv'
<1>0. Types
  BY DEF IndInv
<1>1. /\ http_root' = [http_root EXCEPT ![s] = next_root[s]]
      /\ UNCHANGED other_vars /\ UNCHANGED <<next_root, files, current>>
  BY DEF HttpRootSet
<1>2. http_root' \in [Servers -> Roots]
  BY <1>0, <1>1 DEF Types
<1>3. Types'
  BY <1>0, <1>1, <1>2 DEF Types, other_vars
<1>4. \A e \in Servers : current[e] \subseteq current'[e]
  BY <1>1
<1>5. \A e \in Servers : {http_root[e], next_root[e]} \subseteq current[e] =>
                             {http_root'[e], next_root'[e]} \subseteq current'[e]
  <2>1. http_root'[s] = next_root[s] /\ next_root' = next_root
    BY <1>0, <1>1 DEF Types
  <2>2. \A e \in Servers : e # s => http_root'[e] = http_root[e]
    BY <1>0, <1>1 DEF Types
  <2> QED
    BY <1>4, <2>1, <2>2
<1> QED
  BY <1>1, <1>3, <1>4, <1>5, EnvironmentKeeps

\* A file changes under the threads.
LEMMA ChangeFileStep ==
    ASSUME IndInv, NEW p \in Written, NEW n \in Names, NEW f \in Changed, ChangeFile(p, n, f)
    PROVE  IndInv'
<1>0. Types
  BY DEF IndInv
<1>1. /\ files' = [files EXCEPT ![p][n] = f]
      /\ UNCHANGED other_vars /\ UNCHANGED <<http_root, next_root, current>>
  BY DEF ChangeFile
<1>2. files' \in [Places -> [Names -> Kinds]]
  <2>1. f \in Kinds /\ files \in [Places -> [Names -> Kinds]]
    BY <1>0, HttpFilesAssumption DEF Types
  <2> QED
    BY <1>1, <2>1
<1>3. Types'
  BY <1>0, <1>1, <1>2 DEF Types, other_vars
<1>4. \A e \in Servers : current[e] \subseteq current'[e]
  BY <1>1
<1>5. \A e \in Servers : {http_root[e], next_root[e]} \subseteq current[e] =>
                             {http_root'[e], next_root'[e]} \subseteq current'[e]
  BY <1>1
<1> QED
  BY <1>1, <1>3, <1>4, <1>5, EnvironmentKeeps

\* The inductive invariant holds at first.
LEMMA InitInv == Init => IndInv
<1> SUFFICES ASSUME Init PROVE IndInv
  OBVIOUS
<1>1. thread = [s \in Servers |-> Idle] /\ posted = [s \in Servers |-> 0]
  BY DEF Init
<1>2. \A s \in Servers : thread[s] = Idle /\ posted[s] = 0
  BY <1>1
<1>3. files \in [Places -> [Names -> Kinds]]
  <2>1. files = [p \in Places |-> [n \in Names |-> AtFirst[p]]]
    BY DEF Init
  <2>2. AtFirst \in [Places -> Kinds]
    BY HttpFilesAssumption
  <2> QED
    BY <2>1, <2>2
<1>4. Types
  <2>1. thread \in [Servers -> ThreadStates]
    BY <1>1, IdleState
  <2>2. posted \in [Servers -> Nat] /\ fds \in Int /\ leaked \in Nat
    BY <1>1 DEF Init
  <2>3. /\ conn \in [Connections -> {"new", "open", "closed"}] /\ online \in [Servers -> Int]
        /\ http_root \in [Servers -> Roots] /\ next_root \in [Servers -> Roots]
        /\ current \in [Servers -> SUBSET Roots]
    BY HttpFilesAssumption DEF Init
  <2> QED
    BY <1>3, <2>1, <2>2, <2>3 DEF Types
<1>5. PerServer
  <2>1. \A s \in Servers : ThreadInv(s, Idle, 0)
    <3>1. \A s : ServesOwn(s, Idle)
      BY IdleInv DEF ServesOwn
    <3>2. \A s : RootIsNoted(s, Idle)
      BY IdleInv DEF RootIsNoted, Noted, Working, Located
    <3> QED
      BY <3>1, <3>2, IdleInv DEF ThreadInv
  <2> QED
    BY <1>2, <2>1 DEF PerServer
<1>6. DescriptorsAccounted
  <2>1. Serving = {}
    BY <1>2, IdleInv DEF Serving
  <2> QED
    BY <2>1, FS_EmptySet DEF DescriptorsAccounted, Init
<1>7. OnlineIsOpen
  <2>1. \A s \in Servers : {c \in Connections : ServerOf[c] = s /\ conn[c] = "open"} = {}
    BY DEF Init
  <2> QED
    BY <2>1, FS_EmptySet DEF OnlineIsOpen, Init
<1> QED
  BY <1>4, <1>5, <1>6, <1>7 DEF IndInv

\* A step of a thread that serves a request keeps the inductive invariant.
LEMMA ThreadStep ==
    ASSUME IndInv, NEW s \in Servers, HttpProcessReceived(s) \/ VodsProcessReceived(s)
    PROVE  IndInv'
<1>1. ASSUME ServeFile(s) PROVE IndInv'
  BY <1>1, OpenStep, SendHeadersStep, SendFileStep DEF ServeFile
<1> QED
  BY <1>1, MakePathStep, MakeRootPathStep, OnOtherFileStep, OnCodStep, OnVodStep, CheckIsFullVodStep,
     HttpStatStep, VodsStatStep, FinishStep DEF HttpProcessReceived, VodsProcessReceived

\* Every step keeps the inductive invariant.
LEMMA NextInv == IndInv /\ [Next]_vars => IndInv'
<1> SUFFICES ASSUME IndInv, [Next]_vars PROVE IndInv'
  OBVIOUS
<1>1. CASE UNCHANGED vars
  <2>1. UNCHANGED other_vars /\ UNCHANGED <<http_root, next_root, files, current>>
    BY <1>1 DEF vars, other_vars
  <2>2. Types'
    BY <2>1 DEF IndInv, Types, other_vars
  <2> QED
    BY <2>1, <2>2, EnvironmentKeeps
<1>2. CASE \E c \in Connections : Accepted(c) \/ NoRequest(c)
  BY <1>2, AcceptedStep, NoRequestStep
<1>3. CASE \E c \in Connections, keep \in BOOLEAN :
               \/ OtherMethod(c, keep) \/ BadPath(c, keep)
               \/ \E url \in Dirs, name \in Names : Request(c, keep, url, name)
  BY <1>3, OtherMethodStep, BadPathStep, RequestStep
<1>4. CASE \E s \in Servers : HttpProcessReceived(s) \/ VodsProcessReceived(s)
  BY <1>4, ThreadStep
<1>5. CASE \E s \in Servers, r \in Roots : SetHttpRoot(s, r)
  BY <1>5, SetHttpRootStep
<1>6. CASE \E s \in Servers : HttpRootSet(s)
  BY <1>6, HttpRootSetStep
<1>7. CASE \E p \in Written, n \in Names, f \in Changed : ChangeFile(p, n, f)
  BY <1>7, ChangeFileStep
<1> QED
  BY <1>1, <1>2, <1>3, <1>4, <1>5, <1>6, <1>7 DEF Next

\* The inductive invariant holds in every state.
THEOREM IndInvHolds == Spec => []IndInv
BY InitInv, NextInv, PTL DEF Spec

\* However a request of any server ends - refused, not found, failed while it
\* was being sent, or complete - its descriptors are closed but for the
\* playlists CheckIsFullVod leaks, online_clients_ is the number of open
\* connections, and it is answered once on a connection that is still open.
THEOREM RequestsSettle == Spec => []RequestsAreSettled
<1>1. IndInv => RequestsAreSettled
  <2> SUFFICES ASSUME IndInv PROVE RequestsAreSettled
    OBVIOUS
  <2>0. Types /\ PerServer /\ DescriptorsAccounted /\ OnlineIsOpen
    BY DEF IndInv
  <2>1. \A s \in Servers : online[s] \in 0..Cardinality(Connections)
    <3> SUFFICES ASSUME NEW s \in Servers PROVE online[s] \in 0..Cardinality(Connections)
      OBVIOUS
    <3>1. OpenOf(s) \subseteq Connections /\ online[s] = Cardinality(OpenOf(s))
      BY <2>0 DEF OnlineIsOpen, OpenOf
    <3>2. /\ Cardinality(OpenOf(s)) \in Nat /\ Cardinality(Connections) \in Nat
          /\ Cardinality(OpenOf(s)) <= Cardinality(Connections)
      BY <3>1, FiniteOpen, HttpFilesAssumption, FS_Subset, FS_CardinalityType
    <3> QED
      BY <3>1, <3>2
  <2>2. \A s \in Servers : posted[s] \in 0..1
    BY <2>0 DEF PerServer, ThreadInv, Stage
  <2>3. fds \in Nat
    <3>1. Cardinality(Serving) \in Nat
      BY FiniteServers, FS_Subset, FS_CardinalityType DEF Serving
    <3> QED
      BY <2>0, <3>1 DEF DescriptorsAccounted, Types
  <2>4. \A s \in Servers : /\ thread[s].root \in Roots \cup {Torn}
                           /\ thread[s].status \in {0, 200, 202, 400, 403, 404}
    <3>1. \A t \in ThreadStates : t.root \in Roots \cup {Torn} /\ t.status \in Statuses
      BY DEF ThreadStates
    <3> QED
      BY <2>0, <3>1 DEF Types, Statuses
  <2>5. \A s \in Servers : thread[s].todo \cap thread[s].found = {}
    BY <2>0 DEF PerServer, ThreadInv, VodIsChecked
  <2>6. online \in [Servers -> 0..Cardinality(Connections)] /\ posted \in [Servers -> 0..1]
    BY <2>0, <2>1, <2>2 DEF Types
  <2>7. \A p \in Places, n \in Names : files[p][n] \in Kinds
    BY <2>0 DEF Types
  <2>8. TypeOK
    BY <2>0, <2>3, <2>4, <2>5, <2>6, <2>7 DEF TypeOK, Types
  <2>9. AnsweredOnce
    BY <2>0 DEF AnsweredOnce, PerServer, ThreadInv, ServesOwn, Stage
  <2> QED
    BY <2>0, <2>8, <2>9 DEF RequestsAreSettled
<1> QED
  BY <1>1, IndInvHolds, PTL

\* However the main loop writes http_root_ while a request reads it, without a
\* lock and twice, the file that is sent lies in the directory of its url below
\* a root the server had during the request, unless the root was changed during
\* the request.
THEOREM FilesAreOfTheRoot == Spec => []ServedFromCurrentRoot
<1>1. IndInv => ServedFromCurrentRoot
  <2> SUFFICES ASSUME IndInv, NEW s \in Serving
               PROVE  /\ thread[s].root \in current[s] \cup {Torn}
                      /\ thread[s].root = Torn \/ thread[s].dir # thread[s].url =>
                             Several(current[s])
    BY DEF ServedFromCurrentRoot, Several
  <2>1. s \in Servers /\ thread[s].pc \in {"headers", "file"}
    BY DEF Serving
  <2>2. RootIsNoted(s, thread[s])
    BY <2>1 DEF IndInv, PerServer, ThreadInv
  <2>3. thread[s].pc \in Located
    BY <2>1 DEF Working, Located
  <2> QED
    BY <2>2, <2>3 DEF RootIsNoted, Noted
<1> QED
  BY <1>1, IndInvHolds, PTL

\* VodsHandler sends a vod's playlist, or answers that it is in progress, only
\* when its stream was asked to start or all its chunks were seen.
THEOREM PlaylistsAreBacked == Spec => []PlaylistIsBacked
<1>1. IndInv => PlaylistIsBacked
  <2> SUFFICES ASSUME IndInv, NEW s \in Servers,
                      s = "vods", thread[s].name = "playlist",
                      s \in Serving \/ thread[s].status = 202
               PROVE  \/ posted[s] = 1
                      \/ thread[s].full /\ thread[s].found = thread[s].named
    BY DEF PlaylistIsBacked
  <2>1. Stage(thread[s], posted[s]) /\ VodIsChecked(s, thread[s])
    BY DEF IndInv, PerServer, ThreadInv
  <2>2. CASE thread[s].status = 202
    BY <2>1, <2>2 DEF Stage
  <2>3. CASE s \in Serving /\ thread[s].status # 202
    <3>1. thread[s].pc \in {"headers", "file"}
      BY <2>3 DEF Serving
    <3>2. thread[s].pc \in {"stat", "open", "headers", "file"} /\ thread[s].pc # "stat"
      BY <3>1
    <3> QED
      BY <2>1, <2>3, <3>2, Zenon DEF VodIsChecked
  <2> QED
    BY <2>2, <2>3
<1> QED
  BY <1>1, IndInvHolds, PTL
===============================================================================
