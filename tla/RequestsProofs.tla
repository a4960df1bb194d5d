----------------------------- MODULE RequestsProofs -----------------------------
(***************************************************************************)
(* Proofs about Requests for any clients, streams and directories and any  *)
(* numbers of requests and pings.                                          *)
(***************************************************************************)
EXTENDS Requests, FiniteSetTheorems, SequenceTheorems, TLAPS

-----------------------------------------------------------------------------
(* The inductive invariant. Most of it is about one client: its requests a, *)
(* what it wrote w, what it was written b, its state st, the daemon's next  *)
(* id n for it, the ids pd the daemon waits for and the pings po it has     *)
(* answered.                                                               *)

Params  == UNION {ParamsOf(m) : m \in Methods}
Results == {<<>>, <<"stats">>}
             \cup {DirectoryResponse(Prepare_DeSerialize(p.json), Usable) :
                      p \in {q \in Params : q.kind = "json"}}

Requests_ == [type : {"request"}, id : Nat, method : Methods, params : Params]
Answers_  == [type : {"response"}, id : Nat, ok : BOOLEAN, result : Results]
Pings_    == [type : {"request"}, id : Nat, method : {"ping_client"},
              params : {Json([x \in {} |-> 0])}]

\* The ids of the pings in b, and of the answers to pings in w.
Written(b) == {b[i].id : i \in {k \in DOMAIN b : b[k].type = "request"}}
Unread(w)  == {w[i].id : i \in {k \in DOMAIN w : w[k].type = "response"}}

\* The requests of a client are numbered.
AskedInv(a) ==
    /\ a \in Seq(Requests_)
    /\ \A i \in DOMAIN a : a[i].id = i /\ a[i].params \in ParamsOf(a[i].method)

\* What the daemon has yet to read: requests in the order of their ids, and
\* answers of a verified client, one for each ping.
WireInv(a, w, st, po) ==
    /\ w \in Seq(Requests_ \cup Answers_)
    /\ \A k \in DOMAIN w :
           /\ w[k].type = "request" => w[k].id \in DOMAIN a /\ w[k] = a[w[k].id]
           /\ w[k].type = "response" => w[k].id \in po /\ st \in {"verified", "expired"}
    /\ \A k, l \in DOMAIN w :
           k < l /\ w[k].type = w[l].type =>
               IF w[k].type = "request" THEN w[k].id < w[l].id ELSE w[k].id # w[l].id

\* What the daemon wrote: answers in the order of the ids, all before those of
\* the requests it has yet to read, and pings with ids below its next one.
InboxInv(a, w, b, st, n, po) ==
    /\ b \in Seq(Answers_ \cup Pings_)
    /\ \A i \in DOMAIN b :
           /\ b[i].type = "request" => b[i].id \in 0..(n - 1) /\ st # "connected"
           /\ b[i].type = "response" => b[i].id \in DOMAIN a
    /\ \A i, j \in DOMAIN b :
           i < j /\ b[i].type = "response" /\ b[j].type = "response" => b[i].id < b[j].id
    /\ \A i \in DOMAIN b, k \in DOMAIN w :
           b[i].type = "response" /\ w[k].type = "request" => b[i].id < w[k].id
    /\ n \in 0..MaxPings
    /\ po \subseteq Written(b)

\* The daemon waits for the pings without an answer it has read.
PendingInv(w, b, st, pd, po) ==
    /\ st # "absent" => pd = (Written(b) \ po) \cup Unread(w)
    /\ st = "absent" => w = <<>> /\ pd = {}

\* A client that has not asked anything is not verified, and nothing was
\* written to it.
FreshInv(a, b, st, n) ==
    /\ st \in {"absent", "connected", "verified", "expired"}
    /\ a = <<>> => st \in {"absent", "connected"} /\ b = <<>> /\ n = 0

ClientInv(a, w, b, st, n, pd, po) ==
    /\ AskedInv(a) /\ WireInv(a, w, st, po) /\ InboxInv(a, w, b, st, n, po)
    /\ PendingInv(w, b, st, pd, po) /\ FreshInv(a, b, st, n)

PerClient ==
    \A c \in Clients :
        ClientInv(asked[c], wire[c], inbox[c], client[c], pings[c], pending[c], ponged[c])

\* The answers in b that say that the service will stop.
Stops(a, b) ==
    {i \in DOMAIN b : b[i].type = "response" /\ b[i].ok /\ a[b[i].id].method = "stop_service"}

\* Such an answer is written with the quit timer set, and once.
StopInv ==
    /\ ~quit_timer => \A c \in Clients : Stops(asked[c], inbox[c]) = {}
    /\ \A c, d \in Clients : \A i \in Stops(asked[c], inbox[c]), j \in Stops(asked[d], inbox[d]) :
           c = d /\ i = j

\* The directories that are used are those of the last prepare_service.
RootsInv ==
    \/ reported = <<>>
    \/ \E info \in {Prepare_DeSerialize(p.json) : p \in {q \in Params : q.kind = "json"}} :
        /\ reported = DirectoryResponse(info, Usable)
        /\ roots = ServedRoots(info)
        /\ monitored = <<info["hls_directory"], info["vods_directory"],
                         info["cods_directory"], info["timeshifts_directory"]>>

Types ==
    /\ client \in [Clients -> {"absent", "connected", "verified", "expired"}]
    /\ broken \in SUBSET Clients
    /\ DOMAIN asked = Clients /\ DOMAIN wire = Clients /\ DOMAIN inbox = Clients
    /\ pings \in [Clients -> Nat] /\ pending \in [Clients -> SUBSET Nat] /\ DOMAIN ponged = Clients
    /\ asks \in 0..MaxRequests
    /\ childs \in SUBSET Streams /\ writable \in SUBSET childs
    /\ DOMAIN roots = {"http", "vods", "cods"}
    /\ quit_timer \in BOOLEAN

IndInv == Types /\ PerClient /\ StopInv /\ RootsInv

-----------------------------------------------------------------------------
(* Messages.                                                               *)

\* A request of a client.
LEMMA RequestType ==
    ASSUME NEW id \in Nat, NEW m \in Methods, NEW ps \in ParamsOf(m)
    PROVE  LET r == Request(id, m, ps)
           IN  r \in Requests_ /\ r.type = "request" /\ r.id = id /\ r.method = m /\ r.params = ps
<1>1. ps \in Params
  BY DEF Params
<1> HIDE DEF Params, Methods
<1> QED
  BY <1>1 DEF Request, Requests_

\* An answer.
LEMMA AnswerType ==
    ASSUME NEW id \in Nat, NEW ok \in BOOLEAN, NEW r \in Results
    PROVE  LET x == Response(id, ok, r)
           IN  x \in Answers_ /\ x.type = "response" /\ x.id = id /\ x.ok = ok
BY DEF Response, Answers_

\* A ping of the daemon.
LEMMA PingType ==
    ASSUME NEW id \in Nat
    PROVE  LET r == ServiceRequest(id, "ping_client")
           IN  r \in Pings_ /\ r.type = "request" /\ r.id = id
BY DEF ServiceRequest, Request, Pings_

\* The types of messages.
LEMMA MessageTypes ==
    /\ \A m \in Requests_ : m.type = "request" /\ m.id \in Nat
    /\ \A m \in Answers_ : m.type = "response" /\ m.id \in Nat
    /\ \A m \in Pings_ : m.type = "request" /\ m.id \in Nat
BY DEF Requests_, Answers_, Pings_

\* A message at the end of a sequence.
LEMMA AppendFacts ==
    ASSUME NEW S, NEW s \in Seq(S), NEW e \in S
    PROVE  LET t == Append(s, e)
           IN  /\ t \in Seq(S) /\ t # <<>> /\ DOMAIN s = 1..Len(s) /\ Len(s) \in Nat
               /\ DOMAIN t = 1..(Len(s) + 1)
               /\ \A i \in 1..Len(s) : t[i] = s[i]
               /\ t[Len(s) + 1] = e
BY AppendProperties, LenProperties

\* A message taken from the front.
LEMMA TailFacts ==
    ASSUME NEW S, NEW s \in Seq(S), s # <<>>
    PROVE  LET t == Tail(s)
           IN  /\ t \in Seq(S) /\ DOMAIN s = 1..Len(s) /\ Len(s) \in Nat \ {0}
               /\ DOMAIN t = 1..(Len(s) - 1)
               /\ \A i \in 1..(Len(s) - 1) : t[i] = s[i + 1]
               /\ Head(s) = s[1] /\ Head(s) \in S
BY HeadTailProperties, LenProperties, EmptySeq

-----------------------------------------------------------------------------
(* The steps of one client.                                                *)

\* Connect.
LEMMA ConnectClient ==
    ASSUME NEW a, NEW w, NEW b, NEW n, NEW pd, NEW po,
           ClientInv(a, w, b, "absent", n, pd, po), a = <<>>
    PROVE  ClientInv(a, w, b, "connected", n, pd, po)
<1>1. AskedInv(a)
  BY DEF ClientInv
<1>2. b = <<>> /\ w = <<>> /\ pd = {}
  BY DEF ClientInv, FreshInv, PendingInv
<1>3. Written(b) = {} /\ Unread(w) = {}
  BY <1>2 DEF Written, Unread
<1>4. WireInv(a, w, "connected", po)
  BY <1>2 DEF ClientInv, WireInv
<1>5. InboxInv(a, w, b, "connected", n, po)
  BY <1>2 DEF ClientInv, InboxInv
<1>6. PendingInv(w, b, "connected", pd, po)
  BY <1>2, <1>3 DEF PendingInv
<1>7. FreshInv(a, b, "connected", n)
  BY DEF ClientInv, FreshInv
<1> QED
  BY <1>1, <1>4, <1>5, <1>6, <1>7 DEF ClientInv

\* Ask: the request r has the next id.
LEMMA AskClient ==
    ASSUME NEW a, NEW w, NEW b, NEW st, NEW n, NEW pd, NEW po,
           ClientInv(a, w, b, st, n, pd, po), st # "absent",
           NEW r \in Requests_, r.id = Len(a) + 1, r.params \in ParamsOf(r.method)
    PROVE  ClientInv(Append(a, r), Append(w, r), b, st, n, pd, po)
<1> DEFINE a2 == Append(a, r)
           w2 == Append(w, r)
<1>0. a \in Seq(Requests_) /\ w \in Seq(Requests_ \cup Answers_) /\ r.type = "request"
  BY MessageTypes DEF ClientInv, AskedInv, WireInv
<1>1. /\ a2 \in Seq(Requests_) /\ a2 # <<>> /\ DOMAIN a = 1..Len(a) /\ Len(a) \in Nat
      /\ DOMAIN a2 = 1..(Len(a) + 1) /\ \A i \in 1..Len(a) : a2[i] = a[i]
      /\ a2[Len(a) + 1] = r
  BY <1>0, AppendFacts
<1>2. /\ w2 \in Seq(Requests_ \cup Answers_) /\ DOMAIN w = 1..Len(w) /\ Len(w) \in Nat
      /\ DOMAIN w2 = 1..(Len(w) + 1) /\ \A i \in 1..Len(w) : w2[i] = w[i]
      /\ w2[Len(w) + 1] = r
  BY <1>0, AppendFacts
<1> HIDE DEF a2, w2
<1>3. AskedInv(a2)
  <2>1. \A i \in 1..Len(a) : a[i].id = i /\ a[i].params \in ParamsOf(a[i].method)
    BY <1>1 DEF ClientInv, AskedInv
  <2> QED
    BY <1>1, <2>1 DEF AskedInv
<1>4. WireInv(a2, w2, st, po)
  <2>0. WireInv(a, w, st, po)
    BY DEF ClientInv
  <2>1. \A k \in DOMAIN w2 :
           /\ w2[k].type = "request" => w2[k].id \in DOMAIN a2 /\ w2[k] = a2[w2[k].id]
           /\ w2[k].type = "response" => w2[k].id \in po /\ st \in {"verified", "expired"}
    BY <1>0, <1>1, <1>2, <2>0 DEF WireInv
  <2>2. \A k \in DOMAIN w : w[k].type = "request" => w[k].id \in 1..Len(a)
    BY <1>1, <2>0 DEF WireInv
  <2>3. \A k, l \in DOMAIN w2 :
           k < l /\ w2[k].type = w2[l].type =>
               IF w2[k].type = "request" THEN w2[k].id < w2[l].id ELSE w2[k].id # w2[l].id
    <3> SUFFICES ASSUME NEW k \in DOMAIN w2, NEW l \in DOMAIN w2, k < l, w2[k].type = w2[l].type
                 PROVE  IF w2[k].type = "request" THEN w2[k].id < w2[l].id
                                                  ELSE w2[k].id # w2[l].id
      OBVIOUS
    <3>1. k \in 1..Len(w) /\ w2[k] = w[k]
      BY <1>2
    <3>2. CASE l \in 1..Len(w)
      <4>1. w2[l] = w[l]
        BY <1>2, <3>2
      <4> QED
        BY <1>2, <2>0, <3>1, <3>2, <4>1 DEF WireInv
    <3>3. CASE l = Len(w) + 1
      <4>1. w2[l] = r /\ w[k].type = "request"
        BY <1>0, <1>2, <3>1, <3>3
      <4>2. w[k].id < r.id
        BY <1>1, <1>2, <2>2, <3>1, <4>1
      <4> QED
        BY <3>1, <4>1, <4>2
    <3> QED
      BY <1>2, <3>2, <3>3
  <2> QED
    BY <1>2, <2>1, <2>3 DEF WireInv
<1>5. InboxInv(a2, w2, b, st, n, po)
  <2>0. InboxInv(a, w, b, st, n, po)
    BY DEF ClientInv
  <2>1. \A i \in DOMAIN b : b[i].type = "response" => b[i].id \in DOMAIN a2 /\ b[i].id \in 1..Len(a)
    BY <1>1, <2>0 DEF InboxInv
  <2>2. \A i \in DOMAIN b, k \in DOMAIN w2 :
           b[i].type = "response" /\ w2[k].type = "request" => b[i].id < w2[k].id
    BY <1>1, <1>2, <2>0, <2>1 DEF InboxInv
  <2> QED
    BY <2>0, <2>1, <2>2 DEF InboxInv
<1>6. Unread(w2) = Unread(w)
  BY <1>0, <1>2 DEF Unread
<1>7. PendingInv(w2, b, st, pd, po)
  BY <1>6 DEF ClientInv, PendingInv
<1>8. FreshInv(a2, b, st, n)
  BY <1>1 DEF ClientInv, FreshInv
<1> QED
  BY <1>3, <1>4, <1>5, <1>7, <1>8 DEF ClientInv, a2, w2

\* Pong: the client answers the ping b[i].
LEMMA PongClient ==
    ASSUME NEW a, NEW w, NEW b, NEW st, NEW n, NEW pd, NEW po,
           ClientInv(a, w, b, st, n, pd, po), st # "absent",
           NEW i \in DOMAIN b, b[i].type = "request", b[i].id \notin po
    PROVE  ClientInv(a, Append(w, PingResponse(b[i].id)), b, st, n, pd, po \cup {b[i].id})
<1> DEFINE r  == PingResponse(b[i].id)
           w2 == Append(w, r)
           po2 == po \cup {b[i].id}
<1>0. w \in Seq(Requests_ \cup Answers_) /\ b \in Seq(Answers_ \cup Pings_)
  BY DEF ClientInv, WireInv, InboxInv
<1>1. b[i].id \in Nat
  <2>1. b[i] \in Answers_ \cup Pings_
    BY <1>0
  <2> QED
    BY <2>1, MessageTypes
<1>2. r \in Answers_ /\ r.type = "response" /\ r.id = b[i].id
  <2>1. <<>> \in Results
    BY DEF Results
  <2>2. TRUE \in BOOLEAN
    OBVIOUS
  <2> HIDE DEF Results
  <2> QED
    BY <1>1, <2>1, <2>2, AnswerType DEF PingResponse
<1>3. /\ w2 \in Seq(Requests_ \cup Answers_) /\ DOMAIN w = 1..Len(w) /\ Len(w) \in Nat
      /\ DOMAIN w2 = 1..(Len(w) + 1) /\ \A k \in 1..Len(w) : w2[k] = w[k]
      /\ w2[Len(w) + 1] = r
  BY <1>0, <1>2, AppendFacts
<1>4. st \in {"verified", "expired"}
  BY DEF ClientInv, InboxInv, FreshInv
<1> HIDE DEF r, w2, po2
<1>5. po2 = po \cup {r.id} /\ r.id \notin po /\ r.id \in Written(b)
  BY <1>2 DEF Written, po2
<1>6. WireInv(a, w2, st, po2)
  <2>0. WireInv(a, w, st, po)
    BY DEF ClientInv
  <2>1. \A k \in DOMAIN w2 :
           /\ w2[k].type = "request" => w2[k].id \in DOMAIN a /\ w2[k] = a[w2[k].id]
           /\ w2[k].type = "response" => w2[k].id \in po2 /\ st \in {"verified", "expired"}
    BY <1>2, <1>3, <1>4, <1>5, <2>0 DEF WireInv
  <2>2. \A k, l \in DOMAIN w2 :
           k < l /\ w2[k].type = w2[l].type =>
               IF w2[k].type = "request" THEN w2[k].id < w2[l].id ELSE w2[k].id # w2[l].id
    <3> SUFFICES ASSUME NEW k \in DOMAIN w2, NEW l \in DOMAIN w2, k < l, w2[k].type = w2[l].type
                 PROVE  IF w2[k].type = "request" THEN w2[k].id < w2[l].id
                                                  ELSE w2[k].id # w2[l].id
      OBVIOUS
    <3>1. k \in 1..Len(w) /\ w2[k] = w[k]
      BY <1>3
    <3>2. CASE l \in 1..Len(w)
      <4>1. w2[l] = w[l]
        BY <1>3, <3>2
      <4> QED
        BY <1>3, <2>0, <3>1, <3>2, <4>1 DEF WireInv
    <3>3. CASE l = Len(w) + 1
      <4>1. w2[l] = r /\ w[k].type = "response"
        BY <1>2, <1>3, <3>1, <3>3
      <4>2. w[k].id # r.id
        BY <1>3, <1>5, <2>0, <3>1, <4>1 DEF WireInv
      <4> QED
        BY <3>1, <4>1, <4>2
    <3> QED
      BY <1>3, <3>2, <3>3
  <2> QED
    BY <1>3, <2>1, <2>2 DEF WireInv
<1>7. InboxInv(a, w2, b, st, n, po2)
  <2>0. InboxInv(a, w, b, st, n, po)
    BY DEF ClientInv
  <2>1. \A j \in DOMAIN b, k \in DOMAIN w2 :
           b[j].type = "response" /\ w2[k].type = "request" => b[j].id < w2[k].id
    BY <1>2, <1>3, <2>0 DEF InboxInv
  <2>2. po2 \subseteq Written(b)
    BY <1>5, <2>0 DEF InboxInv
  <2> QED
    BY <2>0, <2>1, <2>2 DEF InboxInv
<1>8. Unread(w2) = Unread(w) \cup {r.id}
  BY <1>2, <1>3 DEF Unread
<1>9. PendingInv(w2, b, st, pd, po2)
  <2>1. pd = (Written(b) \ po) \cup Unread(w)
    BY DEF ClientInv, PendingInv
  <2>2. pd = (Written(b) \ po2) \cup Unread(w2)
    BY <1>5, <1>8, <2>1
  <2> QED
    BY <1>4, <2>2 DEF PendingInv
<1> QED
  BY <1>6, <1>7, <1>9 DEF ClientInv, w2, r, po2

\* A change of the license changes nothing else.
LEMMA LicenseClient ==
    ASSUME NEW a, NEW w, NEW b, NEW st, NEW n, NEW pd, NEW po,
           ClientInv(a, w, b, st, n, pd, po), st # "absent", a # <<>>,
           NEW st2 \in {"verified", "expired"}
    PROVE  ClientInv(a, w, b, st2, n, pd, po)
<1>1. WireInv(a, w, st2, po)
  BY DEF ClientInv, WireInv
<1>2. InboxInv(a, w, b, st2, n, po)
  BY DEF ClientInv, InboxInv
<1>3. PendingInv(w, b, st2, pd, po)
  BY DEF ClientInv, PendingInv
<1>4. FreshInv(a, b, st2, n)
  BY DEF ClientInv, FreshInv
<1> QED
  BY <1>1, <1>2, <1>3, <1>4 DEF ClientInv

\* The client is deleted, after a ping that could not be sent or otherwise.
LEMMA DeleteClient ==
    ASSUME NEW a, NEW w, NEW b, NEW st, NEW n, NEW pd, NEW po,
           ClientInv(a, w, b, st, n, pd, po),
           NEW m \in n..MaxPings, m = n \/ a # <<>>
    PROVE  ClientInv(a, <<>>, b, "absent", m, {}, po)
<1>1. WireInv(a, <<>>, "absent", po)
  BY DEF WireInv
<1>2. InboxInv(a, <<>>, b, "absent", m, po)
  <2>0. InboxInv(a, w, b, st, n, po)
    BY DEF ClientInv
  <2>1. n \in Nat /\ m \in Nat /\ n <= m /\ m \in 0..MaxPings
    BY <2>0, RequestsAssumption DEF InboxInv
  <2>2. \A i \in DOMAIN b : b[i].type = "request" => b[i].id \in 0..(m - 1)
    BY <2>0, <2>1 DEF InboxInv
  <2> QED
    BY <2>0, <2>1, <2>2 DEF InboxInv
<1>3. PendingInv(<<>>, b, "absent", {}, po)
  BY DEF PendingInv
<1>4. FreshInv(a, b, "absent", m)
  BY DEF ClientInv, FreshInv
<1> QED
  BY <1>1, <1>2, <1>3, <1>4 DEF ClientInv

\* The ids of the requests between those answered in b and those in w.
Between(a, w, b, id) ==
    /\ id \in DOMAIN a
    /\ \A i \in DOMAIN b : b[i].type = "response" => b[i].id < id
    /\ \A k \in DOMAIN w : w[k].type = "request" => id < w[k].id

\* What is left after a message is read.
LEMMA TailKeeps ==
    ASSUME NEW a, NEW w, NEW b, NEW st, NEW n, NEW po, w # <<>>,
           WireInv(a, w, st, po), InboxInv(a, w, b, st, n, po)
    PROVE  WireInv(a, Tail(w), st, po) /\ InboxInv(a, Tail(w), b, st, n, po)
<1> DEFINE w2 == Tail(w)
<1>1. /\ w2 \in Seq(Requests_ \cup Answers_) /\ DOMAIN w = 1..Len(w) /\ Len(w) \in Nat \ {0}
      /\ DOMAIN w2 = 1..(Len(w) - 1) /\ \A k \in 1..(Len(w) - 1) : w2[k] = w[k + 1]
  BY TailFacts DEF WireInv
<1> HIDE DEF w2
<1>2. WireInv(a, w2, st, po)
  <2>1. \A k \in DOMAIN w2 :
           /\ w2[k].type = "request" => w2[k].id \in DOMAIN a /\ w2[k] = a[w2[k].id]
           /\ w2[k].type = "response" => w2[k].id \in po /\ st \in {"verified", "expired"}
    BY <1>1 DEF WireInv
  <2>2. \A k, l \in DOMAIN w2 :
           k < l /\ w2[k].type = w2[l].type =>
               IF w2[k].type = "request" THEN w2[k].id < w2[l].id ELSE w2[k].id # w2[l].id
    <3> SUFFICES ASSUME NEW k \in DOMAIN w2, NEW l \in DOMAIN w2, k < l, w2[k].type = w2[l].type
                 PROVE  IF w2[k].type = "request" THEN w2[k].id < w2[l].id
                                                  ELSE w2[k].id # w2[l].id
      OBVIOUS
    <3>1. /\ k + 1 \in DOMAIN w /\ l + 1 \in DOMAIN w /\ k + 1 < l + 1
          /\ w2[k] = w[k + 1] /\ w2[l] = w[l + 1]
      BY <1>1
    <3> QED
      BY <3>1 DEF WireInv
  <2> QED
    BY <1>1, <2>1, <2>2 DEF WireInv
<1>3. InboxInv(a, w2, b, st, n, po)
  <2>1. \A i \in DOMAIN b, k \in DOMAIN w2 :
           b[i].type = "response" /\ w2[k].type = "request" => b[i].id < w2[k].id
    <3> SUFFICES ASSUME NEW i \in DOMAIN b, NEW k \in DOMAIN w2,
                        b[i].type = "response", w2[k].type = "request"
                 PROVE  b[i].id < w2[k].id
      OBVIOUS
    <3>1. k + 1 \in DOMAIN w /\ w2[k] = w[k + 1]
      BY <1>1
    <3> QED
      BY <3>1 DEF InboxInv
  <2> QED
    BY <2>1 DEF InboxInv
<1> QED
  BY <1>2, <1>3 DEF w2

\* A request is read.
LEMMA ReadClient ==
    ASSUME NEW a, NEW w, NEW b, NEW st, NEW n, NEW pd, NEW po,
           ClientInv(a, w, b, st, n, pd, po), st # "absent",
           w # <<>>, Head(w).type = "request"
    PROVE  /\ ClientInv(a, Tail(w), b, st, n, pd, po)
           /\ Between(a, Tail(w), b, Head(w).id)
           /\ Head(w) = a[Head(w).id]
<1> DEFINE w2 == Tail(w)
           h  == Head(w)
<1>0. w \in Seq(Requests_ \cup Answers_) /\ WireInv(a, w, st, po) /\ InboxInv(a, w, b, st, n, po)
  BY DEF ClientInv, WireInv
<1>1. /\ w2 \in Seq(Requests_ \cup Answers_) /\ DOMAIN w = 1..Len(w) /\ Len(w) \in Nat \ {0}
      /\ DOMAIN w2 = 1..(Len(w) - 1) /\ \A k \in 1..(Len(w) - 1) : w2[k] = w[k + 1]
      /\ h = w[1]
  BY <1>0, TailFacts
<1>2. h.type = "request"
  OBVIOUS
<1> HIDE DEF w2, h
<1>3. WireInv(a, w2, st, po) /\ InboxInv(a, w2, b, st, n, po)
  BY <1>0, TailKeeps DEF w2
<1>5. Unread(w2) = Unread(w)
  <2>1. Unread(w2) \subseteq Unread(w)
    BY <1>1 DEF Unread
  <2>2. ASSUME NEW k \in DOMAIN w, w[k].type = "response" PROVE w[k].id \in Unread(w2)
    <3>1. k # 1
      BY <1>1, <1>2, <2>2
    <3>2. k - 1 \in DOMAIN w2 /\ w2[k - 1] = w[k]
      BY <1>1, <3>1
    <3> QED
      BY <2>2, <3>2 DEF Unread
  <2> QED
    BY <2>1, <2>2 DEF Unread
<1>6. PendingInv(w2, b, st, pd, po)
  BY <1>5 DEF ClientInv, PendingInv
<1>7. Between(a, w2, b, h.id) /\ h = a[h.id]
  <2>1. 1 \in DOMAIN w
    BY <1>1
  <2>2. h.id \in DOMAIN a /\ h = a[h.id]
    BY <1>0, <1>1, <1>2, <2>1 DEF WireInv
  <2>3. \A i \in DOMAIN b : b[i].type = "response" => b[i].id < h.id
    BY <1>0, <1>1, <1>2, <2>1 DEF InboxInv
  <2>4. \A k \in DOMAIN w2 : w2[k].type = "request" => h.id < w2[k].id
    <3> SUFFICES ASSUME NEW k \in DOMAIN w2, w2[k].type = "request" PROVE h.id < w2[k].id
      OBVIOUS
    <3>1. k + 1 \in DOMAIN w /\ 1 < k + 1 /\ w2[k] = w[k + 1]
      BY <1>1
    <3> QED
      BY <1>0, <1>1, <1>2, <2>1, <3>1 DEF WireInv
  <2> QED
    BY <2>2, <2>3, <2>4 DEF Between
<1> QED
  BY <1>3, <1>6, <1>7 DEF ClientInv, w2, h

\* A request that was read is answered.
LEMMA AnswerClient ==
    ASSUME NEW a, NEW w, NEW b, NEW st, NEW n, NEW pd, NEW po,
           ClientInv(a, w, b, st, n, pd, po),
           NEW x \in Answers_, Between(a, w, b, x.id)
    PROVE  ClientInv(a, w, Append(b, x), st, n, pd, po)
<1> DEFINE b2 == Append(b, x)
<1>0. /\ b \in Seq(Answers_ \cup Pings_) /\ InboxInv(a, w, b, st, n, po) /\ AskedInv(a)
      /\ x.type = "response" /\ FreshInv(a, b, st, n)
  BY MessageTypes DEF ClientInv, InboxInv
<1>1. /\ b2 \in Seq(Answers_ \cup Pings_) /\ DOMAIN b = 1..Len(b) /\ Len(b) \in Nat
      /\ DOMAIN b2 = 1..(Len(b) + 1) /\ \A k \in 1..Len(b) : b2[k] = b[k]
      /\ b2[Len(b) + 1] = x
  BY <1>0, AppendFacts
<1> HIDE DEF b2
<1>2. Written(b2) = Written(b)
  BY <1>0, <1>1 DEF Written
<1>3. InboxInv(a, w, b2, st, n, po)
  <2>1. \A i \in DOMAIN b2 :
           /\ b2[i].type = "request" => b2[i].id \in 0..(n - 1) /\ st # "connected"
           /\ b2[i].type = "response" => b2[i].id \in DOMAIN a
    BY <1>0, <1>1 DEF InboxInv, Between
  <2>2. \A i, j \in DOMAIN b2 :
           i < j /\ b2[i].type = "response" /\ b2[j].type = "response" => b2[i].id < b2[j].id
    <3> SUFFICES ASSUME NEW i \in DOMAIN b2, NEW j \in DOMAIN b2, i < j,
                        b2[i].type = "response", b2[j].type = "response"
                 PROVE  b2[i].id < b2[j].id
      OBVIOUS
    <3>1. i \in DOMAIN b /\ b2[i] = b[i]
      BY <1>1
    <3>2. CASE j \in DOMAIN b
      BY <1>0, <1>1, <3>1, <3>2 DEF InboxInv
    <3>3. CASE j = Len(b) + 1
      BY <1>1, <3>1, <3>3 DEF Between
    <3> QED
      BY <1>1, <3>2, <3>3
  <2>3. \A i \in DOMAIN b2, k \in DOMAIN w :
           b2[i].type = "response" /\ w[k].type = "request" => b2[i].id < w[k].id
    BY <1>0, <1>1 DEF InboxInv, Between
  <2> QED
    BY <1>0, <1>1, <1>2, <2>1, <2>2, <2>3 DEF InboxInv
<1>4. PendingInv(w, b2, st, pd, po)
  BY <1>2 DEF ClientInv, PendingInv
<1>5. FreshInv(a, b2, st, n)
  <2>1. a # <<>>
    BY DEF Between
  <2> QED
    BY <1>0, <2>1 DEF FreshInv
<1> QED
  BY <1>3, <1>4, <1>5 DEF ClientInv, b2

\* HandleResponse: the daemon reads the answer to a ping.
LEMMA PingAnswered ==
    ASSUME NEW a, NEW w, NEW b, NEW st, NEW n, NEW pd, NEW po,
           ClientInv(a, w, b, st, n, pd, po), st # "absent",
           w # <<>>, Head(w).type = "response"
    PROVE  /\ ClientInv(a, Tail(w), b, st, n, pd \ {Head(w).id}, po)
           /\ st \in {"verified", "expired"}
<1> DEFINE w2 == Tail(w)
           h  == Head(w)
<1>0. w \in Seq(Requests_ \cup Answers_) /\ WireInv(a, w, st, po) /\ InboxInv(a, w, b, st, n, po)
  BY DEF ClientInv, WireInv
<1>1. /\ w2 \in Seq(Requests_ \cup Answers_) /\ DOMAIN w = 1..Len(w) /\ Len(w) \in Nat \ {0}
      /\ DOMAIN w2 = 1..(Len(w) - 1) /\ \A k \in 1..(Len(w) - 1) : w2[k] = w[k + 1]
      /\ h = w[1]
  BY <1>0, TailFacts
<1>2. h.type = "response"
  OBVIOUS
<1> HIDE DEF w2, h
<1>3. 1 \in DOMAIN w /\ h.id \in po /\ st \in {"verified", "expired"}
  BY <1>0, <1>1, <1>2 DEF WireInv
<1>4. WireInv(a, w2, st, po) /\ InboxInv(a, w2, b, st, n, po)
  BY <1>0, TailKeeps DEF w2
<1>6. Unread(w2) = Unread(w) \ {h.id}
  <2>1. ASSUME NEW k \in DOMAIN w2, w2[k].type = "response"
        PROVE  w2[k].id \in Unread(w) \ {h.id}
    <3>1. k + 1 \in DOMAIN w /\ w2[k] = w[k + 1] /\ 1 < k + 1
      BY <1>1
    <3>2. w[1].id # w[k + 1].id
      BY <1>0, <1>1, <1>2, <1>3, <2>1, <3>1 DEF WireInv
    <3> QED
      BY <1>1, <2>1, <3>1, <3>2 DEF Unread
  <2>2. ASSUME NEW k \in DOMAIN w, w[k].type = "response", w[k].id # h.id
        PROVE  w[k].id \in Unread(w2)
    <3>1. k # 1
      BY <1>1, <2>2
    <3>2. k - 1 \in DOMAIN w2 /\ w2[k - 1] = w[k]
      BY <1>1, <3>1
    <3> QED
      BY <2>2, <3>2 DEF Unread
  <2> QED
    BY <2>1, <2>2 DEF Unread
<1>7. PendingInv(w2, b, st, pd \ {h.id}, po)
  <2>1. pd = (Written(b) \ po) \cup Unread(w)
    BY DEF ClientInv, PendingInv
  <2>2. pd \ {h.id} = (Written(b) \ po) \cup Unread(w2)
    BY <1>3, <1>6, <2>1
  <2> QED
    BY <1>3, <2>2 DEF PendingInv
<1> QED
  BY <1>3, <1>4, <1>7 DEF ClientInv, w2, h

\* PingClient: the daemon writes a ping.
LEMMA PingedClient ==
    ASSUME NEW a, NEW w, NEW b, NEW st \in {"verified", "expired"}, NEW n, NEW pd, NEW po,
           ClientInv(a, w, b, st, n, pd, po), n < MaxPings
    PROVE  ClientInv(a, w, Append(b, ServiceRequest(n, "ping_client")), st, n + 1,
                     pd \cup {n}, po)
<1> DEFINE x  == ServiceRequest(n, "ping_client")
           b2 == Append(b, x)
<1>0. /\ b \in Seq(Answers_ \cup Pings_) /\ InboxInv(a, w, b, st, n, po)
      /\ FreshInv(a, b, st, n) /\ n \in Nat /\ n + 1 \in 0..MaxPings
  BY RequestsAssumption DEF ClientInv, InboxInv
<1>1. x \in Pings_ /\ x.type = "request" /\ x.id = n
  BY <1>0, PingType
<1>2. /\ b2 \in Seq(Answers_ \cup Pings_) /\ DOMAIN b = 1..Len(b) /\ Len(b) \in Nat
      /\ DOMAIN b2 = 1..(Len(b) + 1) /\ \A k \in 1..Len(b) : b2[k] = b[k]
      /\ b2[Len(b) + 1] = x
  BY <1>0, <1>1, AppendFacts
<1> HIDE DEF b2, x
<1>3. Written(b2) = Written(b) \cup {n}
  BY <1>1, <1>2 DEF Written
<1>4. InboxInv(a, w, b2, st, n + 1, po)
  <2>1. \A i \in DOMAIN b2 :
           /\ b2[i].type = "request" => b2[i].id \in 0..((n + 1) - 1) /\ st # "connected"
           /\ b2[i].type = "response" => b2[i].id \in DOMAIN a
    BY <1>0, <1>1, <1>2 DEF InboxInv
  <2>2. \A i, j \in DOMAIN b2 :
           i < j /\ b2[i].type = "response" /\ b2[j].type = "response" => b2[i].id < b2[j].id
    BY <1>0, <1>1, <1>2 DEF InboxInv
  <2>3. \A i \in DOMAIN b2, k \in DOMAIN w :
           b2[i].type = "response" /\ w[k].type = "request" => b2[i].id < w[k].id
    BY <1>0, <1>1, <1>2 DEF InboxInv
  <2>4. po \subseteq Written(b2)
    BY <1>0, <1>3 DEF InboxInv
  <2> QED
    BY <1>0, <1>2, <2>1, <2>2, <2>3, <2>4 DEF InboxInv
<1>5. PendingInv(w, b2, st, pd \cup {n}, po)
  <2>1. n \notin Written(b)
    <3>1. \A i \in DOMAIN b : b[i].type = "request" => b[i].id \in 0..(n - 1)
      BY <1>0 DEF InboxInv
    <3>2. \A i \in DOMAIN b : b[i].type = "request" => b[i].id # n
      BY <1>0, <3>1
    <3> QED
      BY <3>2 DEF Written
  <2>2. n \notin po
    BY <1>0, <2>1 DEF InboxInv
  <2>3. pd = (Written(b) \ po) \cup Unread(w)
    BY DEF ClientInv, PendingInv
  <2>4. pd \cup {n} = (Written(b2) \ po) \cup Unread(w)
    BY <1>3, <2>2, <2>3
  <2> QED
    BY <2>4 DEF PendingInv
<1>6. FreshInv(a, b2, st, n + 1)
  BY <1>0 DEF FreshInv
<1> QED
  BY <1>4, <1>5, <1>6 DEF ClientInv, b2, x

-----------------------------------------------------------------------------
(* The answers that stop the service, and what the requests change.        *)

\* Another request does not change what was answered.
LEMMA StopsOfMore ==
    ASSUME NEW a \in Seq(Requests_), NEW b, NEW r \in Requests_,
           \A i \in DOMAIN b : b[i].type = "response" => b[i].id \in DOMAIN a
    PROVE  Stops(Append(a, r), b) = Stops(a, b)
<1> DEFINE a2 == Append(a, r)
<1>1. DOMAIN a = 1..Len(a) /\ \A i \in 1..Len(a) : a2[i] = a[i]
  BY AppendFacts
<1> HIDE DEF a2
<1>2. \A i \in DOMAIN b : b[i].type = "response" => a2[b[i].id] = a[b[i].id]
  BY <1>1
<1>3. Stops(a2, b) = Stops(a, b)
  BY <1>2 DEF Stops
<1> QED
  BY <1>3 DEF a2

\* A message that is no such answer adds none.
LEMMA StopsOfOther ==
    ASSUME NEW a, NEW S, NEW b \in Seq(S), NEW x \in S,
           ~(x.type = "response" /\ x.ok /\ a[x.id].method = "stop_service")
    PROVE  Stops(a, Append(b, x)) = Stops(a, b)
<1> DEFINE b2 == Append(b, x)
<1>1. /\ DOMAIN b = 1..Len(b) /\ Len(b) \in Nat /\ DOMAIN b2 = 1..(Len(b) + 1)
      /\ \A i \in 1..Len(b) : b2[i] = b[i]
      /\ b2[Len(b) + 1] = x
  BY AppendFacts
<1> HIDE DEF b2
<1>2. Stops(a, b2) = Stops(a, b)
  BY <1>1 DEF Stops
<1> QED
  BY <1>2 DEF b2

\* Any message adds at most itself.
LEMMA StopsOfAnswer ==
    ASSUME NEW a, NEW S, NEW b \in Seq(S), NEW x \in S
    PROVE  Stops(a, Append(b, x)) \subseteq Stops(a, b) \cup {Len(b) + 1}
<1> DEFINE b2 == Append(b, x)
<1>1. /\ DOMAIN b = 1..Len(b) /\ Len(b) \in Nat /\ DOMAIN b2 = 1..(Len(b) + 1)
      /\ \A i \in 1..Len(b) : b2[i] = b[i]
  BY AppendFacts
<1> HIDE DEF b2
<1>2. Stops(a, b2) \subseteq Stops(a, b) \cup {Len(b) + 1}
  BY <1>1 DEF Stops
<1> QED
  BY <1>2 DEF b2

\* A step of one client.
LEMMA ClientStep ==
    ASSUME PerClient, NEW c \in Clients,
           \A d \in Clients \ {c} :
               /\ asked'[d] = asked[d] /\ wire'[d] = wire[d] /\ inbox'[d] = inbox[d]
               /\ client'[d] = client[d] /\ pings'[d] = pings[d]
               /\ pending'[d] = pending[d] /\ ponged'[d] = ponged[d],
           ClientInv(asked'[c], wire'[c], inbox'[c], client'[c], pings'[c], pending'[c], ponged'[c])
    PROVE  PerClient'
<1> SUFFICES ASSUME NEW d \in Clients
             PROVE  ClientInv(asked'[d], wire'[d], inbox'[d], client'[d], pings'[d],
                              pending'[d], ponged'[d])
  BY DEF PerClient, ClientInv, AskedInv, WireInv, InboxInv, PendingInv, FreshInv, Written, Unread
<1>1. CASE d = c
  BY <1>1
<1>2. CASE d # c
  BY <1>2 DEF PerClient
<1> QED
  BY <1>1, <1>2

\* A step that answers no stop.
LEMMA StopsKept ==
    ASSUME StopInv, quit_timer => quit_timer',
           \A d \in Clients : Stops(asked'[d], inbox'[d]) = Stops(asked[d], inbox[d])
    PROVE  StopInv'
<1>1. \A d \in Clients : Stops(asked[d], inbox[d])' = Stops(asked[d], inbox[d])
  BY DEF Stops
<1> QED
  BY <1>1 DEF StopInv

-----------------------------------------------------------------------------
(* Every step keeps the inductive invariant.                               *)

\* What the streams, the directories and the quit timer are is not changed.
LEMMA EffectsKept ==
    ASSUME Types, StopInv, RootsInv, UNCHANGED effect_vars,
           \A d \in Clients : Stops(asked'[d], inbox'[d]) = Stops(asked[d], inbox[d])
    PROVE  /\ StopInv' /\ RootsInv'
           /\ childs' \in SUBSET Streams /\ writable' \in SUBSET childs'
           /\ DOMAIN roots' = {"http", "vods", "cods"} /\ quit_timer' \in BOOLEAN
<1>1. UNCHANGED <<childs, writable, roots, monitored, reported, quit_timer>>
  BY DEF effect_vars
<1>2. StopInv'
  BY <1>1, StopsKept
<1>3. RootsInv'
  BY <1>1 DEF RootsInv
<1> QED
  BY <1>1, <1>2, <1>3 DEF Types

\* A client connects.
LEMMA ConnectStep == ASSUME IndInv, NEW c \in Clients, Connect(c) PROVE IndInv'
<1>0. Types /\ PerClient /\ StopInv /\ RootsInv
  BY DEF IndInv
<1>1. /\ client[c] = "absent" /\ asked[c] = <<>> /\ client' = [client EXCEPT ![c] = "connected"]
      /\ UNCHANGED <<broken, asked, asks, pings, pending, ponged, wire, inbox>>
      /\ UNCHANGED effect_vars
  BY DEF Connect
<1>2. client'[c] = "connected" /\ \A d \in Clients \ {c} : client'[d] = client[d]
  BY <1>0, <1>1 DEF Types
<1>3. ClientInv(asked[c], wire[c], inbox[c], "absent", pings[c], pending[c], ponged[c])
  BY <1>0, <1>1 DEF PerClient
<1>4. ClientInv(asked[c], wire[c], inbox[c], "connected", pings[c], pending[c], ponged[c])
  BY <1>1, <1>3, ConnectClient
<1>5. PerClient'
  BY <1>0, <1>1, <1>2, <1>4, ClientStep
<1>6. /\ StopInv' /\ RootsInv'
      /\ childs' \in SUBSET Streams /\ writable' \in SUBSET childs'
      /\ DOMAIN roots' = {"http", "vods", "cods"} /\ quit_timer' \in BOOLEAN
  BY <1>0, <1>1, EffectsKept
<1>7. Types'
  BY <1>0, <1>1, <1>6 DEF Types
<1> QED
  BY <1>5, <1>6, <1>7 DEF IndInv

\* A client writes a request.
LEMMA AskStep ==
    ASSUME IndInv, NEW c \in Clients, NEW m \in AskedMethods, NEW ps \in ParamsOf(m),
           Ask(c, m, ps)
    PROVE  IndInv'
<1> DEFINE r == Request(Len(asked[c]) + 1, m, ps)
<1>0. Types /\ PerClient /\ StopInv /\ RootsInv
  BY DEF IndInv
<1>1. /\ client[c] # "absent" /\ asks < MaxRequests /\ asks' = asks + 1
      /\ asked' = [asked EXCEPT ![c] = Append(asked[c], r)]
      /\ wire' = [wire EXCEPT ![c] = Append(wire[c], r)]
      /\ UNCHANGED <<client, broken, pings, pending, ponged, inbox>>
      /\ UNCHANGED effect_vars
  BY DEF Ask
<1>2. ClientInv(asked[c], wire[c], inbox[c], client[c], pings[c], pending[c], ponged[c])
  BY <1>0 DEF PerClient
<1>3. asked[c] \in Seq(Requests_) /\ Len(asked[c]) + 1 \in Nat
  <2>1. asked[c] \in Seq(Requests_)
    BY <1>2 DEF ClientInv, AskedInv
  <2>2. Len(asked[c]) \in Nat
    BY <2>1, LenProperties
  <2> QED
    BY <2>1, <2>2
<1>4. /\ r \in Requests_ /\ r.id = Len(asked[c]) + 1 /\ r.method = m /\ r.params = ps
  <2>1. m \in Methods
    BY RequestsAssumption
  <2> QED
    BY <1>3, <2>1, RequestType
<1> HIDE DEF r
<1>5. ClientInv(Append(asked[c], r), Append(wire[c], r), inbox[c], client[c], pings[c],
                pending[c], ponged[c])
  BY <1>1, <1>2, <1>4, AskClient
<1>6. /\ asked'[c] = Append(asked[c], r) /\ wire'[c] = Append(wire[c], r)
      /\ \A d \in Clients \ {c} : asked'[d] = asked[d] /\ wire'[d] = wire[d]
      /\ DOMAIN asked' = Clients /\ DOMAIN wire' = Clients
  BY <1>0, <1>1 DEF Types
<1>7. PerClient'
  BY <1>0, <1>1, <1>5, <1>6, ClientStep
<1>8. \A d \in Clients : Stops(asked'[d], inbox'[d]) = Stops(asked[d], inbox[d])
  <2>1. \A i \in DOMAIN inbox[c] : inbox[c][i].type = "response" =>
            inbox[c][i].id \in DOMAIN asked[c]
    BY <1>2 DEF ClientInv, InboxInv
  <2>2. Stops(Append(asked[c], r), inbox[c]) = Stops(asked[c], inbox[c])
    BY <1>3, <1>4, <2>1, StopsOfMore
  <2> QED
    BY <1>1, <1>6, <2>2
<1>9. /\ StopInv' /\ RootsInv'
      /\ childs' \in SUBSET Streams /\ writable' \in SUBSET childs'
      /\ DOMAIN roots' = {"http", "vods", "cods"} /\ quit_timer' \in BOOLEAN
  BY <1>0, <1>1, <1>8, EffectsKept
<1>10. asks' \in 0..MaxRequests
  BY <1>0, <1>1, RequestsAssumption DEF Types
<1>11. Types'
  BY <1>0, <1>1, <1>6, <1>9, <1>10 DEF Types
<1> QED
  BY <1>7, <1>9, <1>11 DEF IndInv

\* A client answers a ping.
LEMMA PongStep == ASSUME IndInv, NEW c \in Clients, Pong(c) PROVE IndInv'
<1>0. Types /\ PerClient /\ StopInv /\ RootsInv
  BY DEF IndInv
<1>1. PICK i \in DOMAIN inbox[c] :
          /\ inbox[c][i].type = "request" /\ inbox[c][i].id \notin ponged[c]
          /\ ponged' = [ponged EXCEPT ![c] = ponged[c] \cup {inbox[c][i].id}]
          /\ wire' = [wire EXCEPT ![c] = Append(wire[c], PingResponse(inbox[c][i].id))]
  BY DEF Pong
<1>2. /\ client[c] # "absent"
      /\ UNCHANGED <<client, broken, asked, asks, pings, pending, inbox>>
      /\ UNCHANGED effect_vars
  BY DEF Pong
<1>3. ClientInv(asked[c], wire[c], inbox[c], client[c], pings[c], pending[c], ponged[c])
  BY <1>0 DEF PerClient
<1>4. ClientInv(asked[c], Append(wire[c], PingResponse(inbox[c][i].id)), inbox[c], client[c],
                pings[c], pending[c], ponged[c] \cup {inbox[c][i].id})
  BY <1>1, <1>2, <1>3, PongClient
<1>5. /\ ponged'[c] = ponged[c] \cup {inbox[c][i].id}
      /\ wire'[c] = Append(wire[c], PingResponse(inbox[c][i].id))
      /\ \A d \in Clients \ {c} : ponged'[d] = ponged[d] /\ wire'[d] = wire[d]
      /\ DOMAIN ponged' = Clients /\ DOMAIN wire' = Clients
  BY <1>0, <1>1 DEF Types
<1>6. PerClient'
  BY <1>0, <1>2, <1>4, <1>5, ClientStep
<1>7. /\ StopInv' /\ RootsInv'
      /\ childs' \in SUBSET Streams /\ writable' \in SUBSET childs'
      /\ DOMAIN roots' = {"http", "vods", "cods"} /\ quit_timer' \in BOOLEAN
  BY <1>0, <1>2, EffectsKept
<1>8. Types'
  BY <1>0, <1>2, <1>5, <1>7 DEF Types
<1> QED
  BY <1>6, <1>7, <1>8 DEF IndInv

\* A license expires.
LEMMA LicenseExpiresStep == ASSUME IndInv, NEW c \in Clients, LicenseExpires(c) PROVE IndInv'
<1>0. Types /\ PerClient /\ StopInv /\ RootsInv
  BY DEF IndInv
<1>1. /\ client[c] = "verified" /\ client' = [client EXCEPT ![c] = "expired"]
      /\ UNCHANGED <<broken, asked, asks, pings, pending, ponged, wire, inbox>>
      /\ UNCHANGED effect_vars
  BY DEF LicenseExpires
<1>2. client'[c] = "expired" /\ \A d \in Clients \ {c} : client'[d] = client[d]
  BY <1>0, <1>1 DEF Types
<1>3. ClientInv(asked[c], wire[c], inbox[c], client[c], pings[c], pending[c], ponged[c])
  BY <1>0 DEF PerClient
<1>4. asked[c] # <<>>
  BY <1>1, <1>3 DEF ClientInv, FreshInv
<1>5. ClientInv(asked[c], wire[c], inbox[c], "expired", pings[c], pending[c], ponged[c])
  BY <1>1, <1>3, <1>4, LicenseClient
<1>6. PerClient'
  BY <1>0, <1>1, <1>2, <1>5, ClientStep
<1>7. /\ StopInv' /\ RootsInv'
      /\ childs' \in SUBSET Streams /\ writable' \in SUBSET childs'
      /\ DOMAIN roots' = {"http", "vods", "cods"} /\ quit_timer' \in BOOLEAN
  BY <1>0, <1>1, EffectsKept
<1>8. Types'
  BY <1>0, <1>1, <1>7 DEF Types
<1> QED
  BY <1>6, <1>7, <1>8 DEF IndInv

\* The daemon reads the answer to a ping.
LEMMA HandleResponseStep == ASSUME IndInv, NEW c \in Clients, HandleResponse(c) PROVE IndInv'
<1>0. Types /\ PerClient /\ StopInv /\ RootsInv
  BY DEF IndInv
<1>1. /\ client[c] # "absent" /\ wire[c] # <<>> /\ Head(wire[c]).type = "response"
      /\ wire' = [wire EXCEPT ![c] = Tail(wire[c])]
      /\ UNCHANGED <<client, broken, asked, asks, pings, ponged, inbox>>
      /\ UNCHANGED effect_vars
  BY DEF HandleResponse
<1>2. ClientInv(asked[c], wire[c], inbox[c], client[c], pings[c], pending[c], ponged[c])
  BY <1>0 DEF PerClient
<1>3. /\ ClientInv(asked[c], Tail(wire[c]), inbox[c], client[c], pings[c],
                   pending[c] \ {Head(wire[c]).id}, ponged[c])
      /\ client[c] \in {"verified", "expired"}
  BY <1>1, <1>2, PingAnswered
<1>4. pending' = [pending EXCEPT ![c] = pending[c] \ {Head(wire[c]).id}]
  BY <1>3 DEF HandleResponse, IsVerified
<1>5. /\ wire'[c] = Tail(wire[c]) /\ pending'[c] = pending[c] \ {Head(wire[c]).id}
      /\ \A d \in Clients \ {c} : wire'[d] = wire[d] /\ pending'[d] = pending[d]
      /\ DOMAIN wire' = Clients /\ pending' \in [Clients -> SUBSET Nat]
  <2>1. /\ wire'[c] = Tail(wire[c]) /\ DOMAIN wire' = Clients
        /\ \A d \in Clients \ {c} : wire'[d] = wire[d]
    BY <1>0, <1>1 DEF Types
  <2>2. /\ pending'[c] = pending[c] \ {Head(wire[c]).id}
        /\ \A d \in Clients \ {c} : pending'[d] = pending[d]
    BY <1>0, <1>4 DEF Types
  <2>3. pending[c] \ {Head(wire[c]).id} \in SUBSET Nat
    BY <1>0 DEF Types
  <2>4. pending' \in [Clients -> SUBSET Nat]
    BY <1>0, <1>4, <2>3 DEF Types
  <2> QED
    BY <2>1, <2>2, <2>4
<1>6. PerClient'
  <2>1. ClientInv(asked'[c], wire'[c], inbox'[c], client'[c], pings'[c], pending'[c], ponged'[c])
    BY <1>1, <1>3, <1>5
  <2>2. \A d \in Clients \ {c} :
               /\ asked'[d] = asked[d] /\ wire'[d] = wire[d] /\ inbox'[d] = inbox[d]
               /\ client'[d] = client[d] /\ pings'[d] = pings[d]
               /\ pending'[d] = pending[d] /\ ponged'[d] = ponged[d]
    BY <1>1, <1>5
  <2> QED
    BY <1>0, <2>1, <2>2, ClientStep
<1>7. /\ StopInv' /\ RootsInv'
      /\ childs' \in SUBSET Streams /\ writable' \in SUBSET childs'
      /\ DOMAIN roots' = {"http", "vods", "cods"} /\ quit_timer' \in BOOLEAN
  BY <1>0, <1>1, EffectsKept
<1>8. Types'
  BY <1>0, <1>1, <1>5, <1>7 DEF Types
<1> QED
  BY <1>6, <1>7, <1>8 DEF IndInv

\* The daemon writes a ping, or deletes the client it cannot be written to.
LEMMA PingClientStep == ASSUME IndInv, NEW c \in Clients, PingClient(c) PROVE IndInv'
<1> DEFINE n == pings[c]
<1>0. Types /\ PerClient /\ StopInv /\ RootsInv
  BY DEF IndInv
<1>1. /\ client[c] \in {"verified", "expired"} /\ n < MaxPings
      /\ pings' = [pings EXCEPT ![c] = n + 1]
      /\ UNCHANGED <<asked, asks, ponged>> /\ UNCHANGED effect_vars
  BY DEF PingClient, IsVerified
<1>2. ClientInv(asked[c], wire[c], inbox[c], client[c], n, pending[c], ponged[c])
  BY <1>0 DEF PerClient
<1>3. pings'[c] = n + 1 /\ (\A d \in Clients \ {c} : pings'[d] = pings[d])
      /\ pings' \in [Clients -> Nat]
  BY <1>0, <1>1 DEF Types
<1>4. n \in Nat /\ asked[c] # <<>>
  BY <1>1, <1>2, RequestsAssumption DEF ClientInv, InboxInv, FreshInv
<1>5. CASE c \in broken
  <2>1. /\ client' = [client EXCEPT ![c] = "absent"] /\ broken' = broken \ {c}
        /\ wire' = [wire EXCEPT ![c] = <<>>] /\ pending' = [pending EXCEPT ![c] = {}]
        /\ UNCHANGED inbox
    BY <1>5 DEF PingClient, Delete
  <2>2. n + 1 \in n..MaxPings
    BY <1>1, <1>4, RequestsAssumption
  <2>3. ClientInv(asked[c], <<>>, inbox[c], "absent", n + 1, {}, ponged[c])
    BY <1>2, <1>4, <2>2, DeleteClient
  <2>4. /\ client'[c] = "absent" /\ wire'[c] = <<>> /\ pending'[c] = {}
        /\ \A d \in Clients \ {c} : client'[d] = client[d] /\ wire'[d] = wire[d]
                                                           /\ pending'[d] = pending[d]
        /\ DOMAIN wire' = Clients /\ pending' \in [Clients -> SUBSET Nat]
    BY <1>0, <2>1 DEF Types
  <2>5. PerClient'
    BY <1>0, <1>1, <1>3, <2>1, <2>3, <2>4, ClientStep
  <2>6. /\ StopInv' /\ RootsInv'
        /\ childs' \in SUBSET Streams /\ writable' \in SUBSET childs'
        /\ DOMAIN roots' = {"http", "vods", "cods"} /\ quit_timer' \in BOOLEAN
    BY <1>0, <1>1, <2>1, EffectsKept
  <2>7. Types'
    BY <1>0, <1>1, <1>3, <2>1, <2>4, <2>6 DEF Types
  <2> QED
    BY <2>5, <2>6, <2>7 DEF IndInv
<1>6. CASE c \notin broken
  <2> DEFINE x == ServiceRequest(n, "ping_client")
  <2>1. /\ inbox' = [inbox EXCEPT ![c] = Append(inbox[c], x)]
        /\ pending' = [pending EXCEPT ![c] = pending[c] \cup {n}]
        /\ UNCHANGED <<client, broken, wire>>
    BY <1>6 DEF PingClient, Write
  <2>2. ClientInv(asked[c], wire[c], Append(inbox[c], x), client[c], n + 1,
                  pending[c] \cup {n}, ponged[c])
    BY <1>1, <1>2, PingedClient
  <2>3. x \in Pings_ /\ x.type = "request"
    BY <1>4, PingType
  <2> HIDE DEF x
  <2>4. /\ inbox'[c] = Append(inbox[c], x) /\ pending'[c] = pending[c] \cup {n}
        /\ \A d \in Clients \ {c} : inbox'[d] = inbox[d] /\ pending'[d] = pending[d]
        /\ DOMAIN inbox' = Clients /\ pending' \in [Clients -> SUBSET Nat]
    BY <1>0, <2>1 DEF Types
  <2>5. PerClient'
    BY <1>0, <1>1, <1>3, <2>1, <2>2, <2>4, ClientStep
  <2>6. \A d \in Clients : Stops(asked'[d], inbox'[d]) = Stops(asked[d], inbox[d])
    <3>1. inbox[c] \in Seq(Answers_ \cup Pings_)
      BY <1>2 DEF ClientInv, InboxInv
    <3>2. Stops(asked[c], Append(inbox[c], x)) = Stops(asked[c], inbox[c])
      BY <2>3, <3>1, StopsOfOther
    <3> QED
      BY <1>1, <2>4, <3>2
  <2>7. /\ StopInv' /\ RootsInv'
        /\ childs' \in SUBSET Streams /\ writable' \in SUBSET childs'
        /\ DOMAIN roots' = {"http", "vods", "cods"} /\ quit_timer' \in BOOLEAN
    BY <1>0, <1>1, <2>6, EffectsKept
  <2>8. Types'
    BY <1>0, <1>1, <1>3, <2>1, <2>4, <2>7 DEF Types
  <2> QED
    BY <2>5, <2>7, <2>8 DEF IndInv
<1> QED
  BY <1>5, <1>6

\* A connection is lost.
LEMMA ClientLostStep == ASSUME IndInv, NEW c \in Clients, ClientLost(c) PROVE IndInv'
<1>0. Types /\ PerClient /\ StopInv /\ RootsInv
  BY DEF IndInv
<1>1. /\ client' = [client EXCEPT ![c] = "absent"] /\ broken' = broken \ {c}
      /\ wire' = [wire EXCEPT ![c] = <<>>] /\ pending' = [pending EXCEPT ![c] = {}]
      /\ UNCHANGED <<asked, asks, pings, ponged, inbox>> /\ UNCHANGED effect_vars
  BY DEF ClientLost, Delete
<1>2. ClientInv(asked[c], wire[c], inbox[c], client[c], pings[c], pending[c], ponged[c])
  BY <1>0 DEF PerClient
<1>3. pings[c] \in pings[c]..MaxPings
  BY <1>2, RequestsAssumption DEF ClientInv, InboxInv
<1>4. ClientInv(asked[c], <<>>, inbox[c], "absent", pings[c], {}, ponged[c])
  BY <1>2, <1>3, DeleteClient
<1>5. /\ client'[c] = "absent" /\ wire'[c] = <<>> /\ pending'[c] = {}
      /\ \A d \in Clients \ {c} : client'[d] = client[d] /\ wire'[d] = wire[d]
                                                         /\ pending'[d] = pending[d]
      /\ DOMAIN wire' = Clients /\ pending' \in [Clients -> SUBSET Nat]
  BY <1>0, <1>1 DEF Types
<1>6. PerClient'
  BY <1>0, <1>1, <1>4, <1>5, ClientStep
<1>7. /\ StopInv' /\ RootsInv'
      /\ childs' \in SUBSET Streams /\ writable' \in SUBSET childs'
      /\ DOMAIN roots' = {"http", "vods", "cods"} /\ quit_timer' \in BOOLEAN
  BY <1>0, <1>1, EffectsKept
<1>8. Types'
  BY <1>0, <1>1, <1>5, <1>7 DEF Types
<1> QED
  BY <1>6, <1>7, <1>8 DEF IndInv

\* A step that leaves what was asked and answered alone.
LEMMA OtherStep ==
    ASSUME IndInv, UNCHANGED <<client, asked, asks, pings, pending, ponged, wire, inbox>>,
           UNCHANGED <<roots, monitored, reported, quit_timer>>,
           broken' \in SUBSET Clients,
           childs' \in SUBSET Streams, writable' \in SUBSET childs'
    PROVE  IndInv'
<1>0. Types /\ PerClient /\ StopInv /\ RootsInv
  BY DEF IndInv
<1>1. Types'
  BY <1>0 DEF Types
<1>2. PerClient'
  <2>1. CASE Clients = {}
    BY <2>1 DEF PerClient
  <2>2. ASSUME NEW c \in Clients PROVE PerClient'
    <3>1. ClientInv(asked[c], wire[c], inbox[c], client[c], pings[c], pending[c], ponged[c])
      BY <1>0 DEF PerClient
    <3> QED
      BY <1>0, <3>1, ClientStep
  <2> QED
    BY <2>1, <2>2
<1>3. StopInv'
  BY <1>0, StopsKept
<1>4. RootsInv'
  BY <1>0 DEF RootsInv
<1> QED
  BY <1>1, <1>2, <1>3, <1>4 DEF IndInv

\* A connection breaks, a pipe or a process ends.
LEMMA EndsStep ==
    ASSUME IndInv,
           \/ \E c \in Clients : Break(c)
           \/ \E s \in Streams : PipeEnds(s) \/ ChildEnds(s)
           \/ UNCHANGED vars
    PROVE  IndInv'
<1>0. broken \in SUBSET Clients /\ childs \in SUBSET Streams /\ writable \in SUBSET childs
  BY DEF IndInv, Types
<1>1. ASSUME NEW c \in Clients, Break(c) PROVE IndInv'
  <2>1. /\ UNCHANGED <<client, asked, asks, pings, pending, ponged, wire, inbox>>
        /\ UNCHANGED <<roots, monitored, reported, quit_timer, childs, writable>>
        /\ broken' = broken \cup {c}
    BY <1>1 DEF Break, effect_vars
  <2> QED
    BY <1>0, <2>1, OtherStep
<1>2. ASSUME NEW s \in Streams, PipeEnds(s) PROVE IndInv'
  <2>1. /\ UNCHANGED <<client, asked, asks, pings, pending, ponged, wire, inbox>>
        /\ UNCHANGED <<roots, monitored, reported, quit_timer, childs, broken>>
        /\ writable' = writable \ {s}
    BY <1>2 DEF PipeEnds, conn_vars
  <2> QED
    BY <1>0, <2>1, OtherStep
<1>3. ASSUME NEW s \in Streams, ChildEnds(s) PROVE IndInv'
  <2>1. /\ UNCHANGED <<client, asked, asks, pings, pending, ponged, wire, inbox>>
        /\ UNCHANGED <<roots, monitored, reported, quit_timer, broken>>
        /\ writable' = writable \ {s} /\ childs' = childs \ {s}
    BY <1>3 DEF ChildEnds, conn_vars
  <2> QED
    BY <1>0, <2>1, OtherStep
<1>4. ASSUME UNCHANGED vars PROVE IndInv'
  <2>1. /\ UNCHANGED <<client, asked, asks, pings, pending, ponged, wire, inbox>>
        /\ UNCHANGED <<roots, monitored, reported, quit_timer, broken, childs, writable>>
    BY <1>4 DEF vars, conn_vars, effect_vars
  <2> QED
    BY <1>0, <2>1, OtherStep
<1> QED
  BY <1>1, <1>2, <1>3, <1>4

-----------------------------------------------------------------------------
(* A request is handled.                                                   *)

\* The values of the params a prepare_service can have.
Infos == {Prepare_DeSerialize(p.json) : p \in {q \in Params : q.kind = "json"}}

\* Success is a Boolean.
LEMMA SucceedsType == ASSUME NEW m, NEW info PROVE Succeeds(m, info) \in BOOLEAN
<1>1. CASE m = "start_stream"
  <2>1. Succeeds(m, info) = (info.config = "valid" /\ info.id \notin childs)
    BY <1>1 DEF Succeeds
  <2> QED
    BY <2>1, Zenon
<1>2. CASE m = "stop_stream"
  <2>1. Succeeds(m, info) = (info.id \in childs \cap writable)
    BY <1>2 DEF Succeeds
  <2>2. ASSUME NEW x, NEW S PROVE (x \in S) \in BOOLEAN
    OBVIOUS
  <2> QED
    BY <2>1, <2>2
<1>3. CASE m = "restart_stream"
  <2>1. Succeeds(m, info) = (info.id \in childs)
    BY <1>3 DEF Succeeds
  <2>2. ASSUME NEW x, NEW S PROVE (x \in S) \in BOOLEAN
    OBVIOUS
  <2> QED
    BY <2>1, <2>2
<1>4. CASE m = "stop_service"
  <2>1. Succeeds(m, info) = ~quit_timer
    BY <1>4 DEF Succeeds
  <2> QED
    BY <2>1, Zenon
<1>5. CASE m = "activate_request"
  <2>1. Succeeds(m, info) = (info.license = "valid")
    BY <1>5 DEF Succeeds
  <2> QED
    BY <2>1, Zenon
<1>6. CASE m \notin {"start_stream", "stop_stream", "restart_stream", "stop_service",
                     "activate_request"}
  <2>1. Succeeds(m, info) = TRUE
    BY <1>6 DEF Succeeds
  <2> QED
    BY <2>1, Zenon
<1> QED
  BY <1>1, <1>2, <1>3, <1>4, <1>5, <1>6

\* A stop of the service succeeds if no other has.
LEMMA StopSucceeds == \A info : Succeeds("stop_service", info) <=> ~quit_timer
BY DEF Succeeds

\* The params of prepare_service.
LEMMA DecodedPrepare ==
    ASSUME NEW req, req.method = "prepare_service", req.params \in Params,
           NEW info \in Decoded(req)
    PROVE  info \in Infos
<1>1. req.params.kind = "json" /\ info = Prepare_DeSerialize(req.params.json)
  BY DEF Decoded
<1> HIDE DEF Params
<1> QED
  BY <1>1 DEF Infos

\* A stream that is started is one of the streams.
LEMMA DecodedStart ==
    ASSUME NEW req, req.method = "start_stream", req.params \in ParamsOf("start_stream"),
           NEW info \in Decoded(req), info.config = "valid"
    PROVE  info.id \in Streams
<1> DEFINE ps == req.params
<1>1. ps.kind = "json" /\ info = ps.json /\ "config" \in DOMAIN ps.json
  BY DEF Decoded, StartInfo_DeSerialize, Has, Nothing
<1>2. \/ ps \in {NoParams, Garbage}
      \/ \E s \in Streams : ps = Json([id |-> s, config |-> "valid"])
      \/ ps = Json([id |-> "s1", config |-> "refused"])
      \/ ps = Json([id |-> "s1"])
  BY DEF ParamsOf
<1>3. CASE ps \in {NoParams, Garbage}
  BY <1>1, <1>3 DEF NoParams, Garbage
<1>4. CASE \E s \in Streams : ps = Json([id |-> s, config |-> "valid"])
  <2>1. PICK s \in Streams : ps = Json([id |-> s, config |-> "valid"])
    BY <1>4
  <2>2. ps.json = [id |-> s, config |-> "valid"]
    BY <2>1 DEF Json
  <2> QED
    BY <1>1, <2>2
<1>5. CASE ps = Json([id |-> "s1", config |-> "refused"])
  <2>1. ps.json = [id |-> "s1", config |-> "refused"]
    BY <1>5 DEF Json
  <2> QED
    BY <1>1, <2>1
<1>6. CASE ps = Json([id |-> "s1"])
  <2>1. ps.json = [id |-> "s1"]
    BY <1>6 DEF Json
  <2> QED
    BY <1>1, <2>1
<1> QED
  BY <1>2, <1>3, <1>4, <1>5, <1>6

\* The answer to a request has its id, and that to a stop tells its outcome.
LEMMA AnswerWritten ==
    ASSUME NEW c, NEW req \in Requests_, NEW ok \in BOOLEAN, NEW result \in Results,
           \/ WriteStreamAnswer(c, req, ok) /\ req.method # "stop_service"
           \/ WriteServiceAnswer(c, req, ok, result)
    PROVE  \E x \in Answers_ : /\ x.id = req.id
                               /\ req.method = "stop_service" => x.ok = ok
                               /\ Write(c, x)
<1>0. req.id \in Nat /\ <<>> \in Results /\ TRUE \in BOOLEAN
  BY MessageTypes DEF Results
<1> HIDE DEF Results
<1>1. CASE WriteStreamAnswer(c, req, ok) /\ req.method # "stop_service"
  <2> DEFINE x == Response(req.id, ok, <<>>)
  <2>1. Write(c, x)
    BY <1>1 DEF WriteStreamAnswer, StreamResponse
  <2>2. x \in Answers_ /\ x.id = req.id
    BY <1>0, AnswerType
  <2> HIDE DEF x
  <2> QED
    BY <1>1, <2>1, <2>2
<1>2. CASE WriteServiceAnswer(c, req, ok, result) /\ req.method = "ping_service"
  <2> DEFINE x == Response(req.id, TRUE, <<>>)
  <2>1. Write(c, x)
    BY <1>2 DEF WriteServiceAnswer, PingResponse
  <2>2. x \in Answers_ /\ x.id = req.id
    BY <1>0, AnswerType
  <2> HIDE DEF x
  <2> QED
    BY <1>2, <2>1, <2>2
<1>3. CASE WriteServiceAnswer(c, req, ok, result) /\ req.method # "ping_service"
  <2> DEFINE y == IF ok /\ req.method \in {"activate_request", "prepare_service"}
                  THEN result ELSE <<>>
             x == Response(req.id, ok, y)
  <2>1. Write(c, x)
    BY <1>3 DEF WriteServiceAnswer, ServiceResponse
  <2>2. y \in Results
    BY <1>0
  <2> HIDE DEF y
  <2>3. x \in Answers_ /\ x.id = req.id /\ x.ok = ok
    BY <1>0, <2>2, AnswerType
  <2> HIDE DEF x
  <2> QED
    BY <2>1, <2>3
<1> QED
  BY <1>1, <1>2, <1>3

\* What a request changes besides its answer.
LEMMA EffectFacts ==
    ASSUME Types, RootsInv, NEW req \in Requests_, req.params \in ParamsOf(req.method),
           NEW info \in Decoded(req),
           Effect(req.method, info, Succeeds(req.method, info))
    PROVE  /\ RootsInv'
           /\ childs' \in SUBSET Streams /\ writable' \in SUBSET childs'
           /\ DOMAIN roots' = {"http", "vods", "cods"} /\ quit_timer' \in BOOLEAN
           /\ quit_timer => quit_timer'
           /\ req.method = "stop_service" => quit_timer'
<1> DEFINE m == req.method
           ok == Succeeds(m, info)
<1>0. ok \in BOOLEAN
  BY SucceedsType
<1>1. CASE m = "start_stream" /\ ok
  <2>1. /\ childs' = childs \cup {info.id} /\ writable' = writable \cup {info.id}
        /\ UNCHANGED <<roots, monitored, reported, quit_timer>>
    BY <1>1 DEF Effect
  <2>2. info.config = "valid"
    BY <1>1 DEF Succeeds
  <2>3. info.id \in Streams
    BY <1>1, <2>2, DecodedStart
  <2>4. RootsInv'
    BY <2>1 DEF RootsInv
  <2> QED
    BY <1>1, <2>1, <2>3, <2>4 DEF Types
<1>2. CASE m = "prepare_service"
  <2>1. /\ roots' = ServedRoots(info)
        /\ monitored' = <<info["hls_directory"], info["vods_directory"],
                          info["cods_directory"], info["timeshifts_directory"]>>
        /\ reported' = DirectoryResponse(info, Usable)
        /\ UNCHANGED <<childs, writable, quit_timer>>
    BY <1>2 DEF Effect
  <2>2. req.params \in Params
    BY DEF Requests_
  <2>3. info \in Infos
    BY <1>2, <2>2, DecodedPrepare
  <2>4. RootsInv'
    BY <2>1, <2>3 DEF RootsInv, Infos
  <2>5. DOMAIN roots' = {"http", "vods", "cods"}
    BY <2>1 DEF ServedRoots
  <2> QED
    BY <1>2, <2>1, <2>4, <2>5 DEF Types
<1>3. CASE m = "stop_service" /\ ok
  <2>1. quit_timer' /\ quit_timer' \in BOOLEAN /\ UNCHANGED <<childs, writable, roots, monitored, reported>>
    BY <1>3 DEF Effect
  <2>2. RootsInv'
    BY <2>1 DEF RootsInv
  <2> QED
    BY <2>1, <2>2 DEF Types
<1>4. CASE ~(m = "start_stream" /\ ok) /\ m # "prepare_service" /\ ~(m = "stop_service" /\ ok)
  <2>1. UNCHANGED <<childs, writable, roots, monitored, reported, quit_timer>>
    BY <1>4 DEF Effect, effect_vars
  <2>2. RootsInv'
    BY <2>1 DEF RootsInv
  <2>3. m = "stop_service" => quit_timer
    BY <1>4, StopSucceeds
  <2> QED
    BY <2>1, <2>2, <2>3 DEF Types
<1> QED
  BY <1>1, <1>2, <1>3, <1>4

\* What is left of a request after it was read and perhaps answered: the state
\* st of the client is its old one or that of an activation.
LEMMA RequestRead ==
    ASSUME IndInv, NEW c \in Clients, wire[c] # <<>>, client[c] # "absent",
           Head(wire[c]).type = "request",
           wire' = [wire EXCEPT ![c] = Tail(wire[c])],
           client' \in {client, [client EXCEPT ![c] = "verified"]},
           UNCHANGED <<broken, asked, asks, pings, pending, ponged>>,
           \/ UNCHANGED inbox
           \/ \E x \in Answers_ : x.id = Head(wire[c]).id /\ Write(c, x)
    PROVE  PerClient' /\ DOMAIN wire' = Clients /\ DOMAIN inbox' = Clients
           /\ client' \in [Clients -> {"absent", "connected", "verified", "expired"}]
<1> DEFINE a == asked[c]
           w == Tail(wire[c])
           b == inbox[c]
           id == Head(wire[c]).id
<1>0. Types /\ PerClient
  BY DEF IndInv
<1>1. ClientInv(a, wire[c], b, client[c], pings[c], pending[c], ponged[c])
  BY <1>0 DEF PerClient
<1>2. ClientInv(a, w, b, client[c], pings[c], pending[c], ponged[c]) /\ Between(a, w, b, id)
  BY <1>1, ReadClient
<1> HIDE DEF w, id
<1>3. /\ DOMAIN wire' = Clients /\ wire'[c] = w
      /\ \A d \in Clients \ {c} : wire'[d] = wire[d]
  BY <1>0 DEF Types, w
<1>4. /\ client' \in [Clients -> {"absent", "connected", "verified", "expired"}]
      /\ client'[c] \in {client[c], "verified"}
      /\ \A d \in Clients \ {c} : client'[d] = client[d]
  BY <1>0 DEF Types
<1>5. /\ DOMAIN inbox' = Clients
      /\ \A d \in Clients \ {c} : inbox'[d] = inbox[d]
      /\ inbox'[c] = b \/ \E x \in Answers_ : x.id = id /\ inbox'[c] = Append(b, x)
  BY <1>0 DEF Types, Write, id
<1>6. ClientInv(a, w, inbox'[c], client[c], pings[c], pending[c], ponged[c])
  <2>1. CASE inbox'[c] = b
    BY <1>2, <2>1
  <2>2. CASE \E x \in Answers_ : x.id = id /\ inbox'[c] = Append(b, x)
    <3>1. PICK x \in Answers_ : x.id = id /\ inbox'[c] = Append(b, x)
      BY <2>2
    <3>2. ClientInv(a, w, Append(b, x), client[c], pings[c], pending[c], ponged[c])
      BY <1>2, <3>1, AnswerClient
    <3> QED
      BY <3>1, <3>2
  <2> QED
    BY <1>5, <2>1, <2>2
<1>7. ClientInv(a, w, inbox'[c], client'[c], pings[c], pending[c], ponged[c])
  <2>1. CASE client'[c] = client[c]
    BY <1>6, <2>1
  <2>2. CASE client'[c] = "verified"
    <3>1. a # <<>>
      BY <1>2 DEF Between
    <3>2. ClientInv(a, w, inbox'[c], "verified", pings[c], pending[c], ponged[c])
      BY <1>6, <3>1, LicenseClient
    <3> QED
      BY <2>2, <3>2
  <2> QED
    BY <1>4, <2>1, <2>2
<1>8. PerClient'
  BY <1>0, <1>3, <1>4, <1>5, <1>7, ClientStep
<1> QED
  BY <1>3, <1>4, <1>5, <1>8

\* The daemon reads a request and answers it, or does not.
LEMMA HandleRequestStep == ASSUME IndInv, NEW c \in Clients, HandleRequest(c) PROVE IndInv'
<1> DEFINE req == Head(wire[c])
           a   == asked[c]
           b   == inbox[c]
<1>0. Types /\ PerClient /\ StopInv /\ RootsInv
  BY DEF IndInv
<1>1. /\ client[c] # "absent" /\ wire[c] # <<>> /\ req.type = "request"
      /\ wire' = [wire EXCEPT ![c] = Tail(wire[c])]
      /\ UNCHANGED <<broken, asked, asks, pings, pending, ponged>>
  BY DEF HandleRequest
<1>2. /\ AskedInv(a) /\ b \in Seq(Answers_ \cup Pings_)
      /\ req.id \in DOMAIN a /\ req = a[req.id]
  <2>1. ClientInv(a, wire[c], b, client[c], pings[c], pending[c], ponged[c])
    BY <1>0 DEF PerClient
  <2>2. Between(a, Tail(wire[c]), b, req.id) /\ req = a[req.id]
    BY <1>1, <2>1, ReadClient
  <2> QED
    BY <2>1, <2>2 DEF ClientInv, InboxInv, Between
<1>3. req \in Requests_ /\ req.params \in ParamsOf(req.method) /\ req.params \in Params
  <2>1. req \in Requests_
    BY <1>2 DEF AskedInv
  <2>2. req.params \in ParamsOf(req.method)
    BY <1>2 DEF AskedInv
  <2>3. req.params \in Params
    BY <2>1 DEF Requests_
  <2> QED
    BY <2>1, <2>2, <2>3
<1>4. CASE Allowed(c, req.method) /\ Decoded(req) # {}
  <2> DEFINE ok(info) == Succeeds(req.method, info)
             result(info) == IF req.method = "prepare_service" THEN DirectoryResponse(info, Usable)
                             ELSE <<"stats">>
  <2>1. PICK info \in Decoded(req) :
            /\ Effect(req.method, info, ok(info))
            /\ IF req.method \in StreamMethods THEN WriteStreamAnswer(c, req, ok(info))
               ELSE WriteServiceAnswer(c, req, ok(info), result(info))
            /\ client' = IF req.method = "activate_request" /\ ok(info) /\ c \notin broken
                         THEN [client EXCEPT ![c] = "verified"] ELSE client
    BY <1>4 DEF HandleRequest
  <2>2. ok(info) \in BOOLEAN
    BY SucceedsType
  <2>3. result(info) \in Results
    <3>1. CASE req.method = "prepare_service"
      <4>1. info \in Infos
        BY <1>3, <3>1, DecodedPrepare
      <4> QED
        BY <3>1, <4>1 DEF Results, Infos
    <3>2. CASE req.method # "prepare_service"
      BY <3>2 DEF Results
    <3> QED
      BY <3>1, <3>2
  <2>4. \/ WriteStreamAnswer(c, req, ok(info)) /\ req.method # "stop_service"
        \/ WriteServiceAnswer(c, req, ok(info), result(info))
    BY <2>1 DEF StreamMethods
  <2>5. /\ RootsInv'
        /\ childs' \in SUBSET Streams /\ writable' \in SUBSET childs'
        /\ DOMAIN roots' = {"http", "vods", "cods"} /\ quit_timer' \in BOOLEAN
        /\ quit_timer => quit_timer'
        /\ req.method = "stop_service" => quit_timer'
    BY <1>0, <1>3, <2>1, EffectFacts
  <2>6. req.method = "stop_service" => (ok(info) <=> ~quit_timer)
    BY StopSucceeds
  <2> HIDE DEF ok, result, req
  <2>7. PICK x \in Answers_ : /\ x.id = req.id
                              /\ req.method = "stop_service" => x.ok = ok(info)
                              /\ Write(c, x)
    BY <1>3, <2>2, <2>3, <2>4, AnswerWritten
  <2>8. client' \in {client, [client EXCEPT ![c] = "verified"]}
    BY <2>1
  <2>9. /\ PerClient' /\ DOMAIN wire' = Clients /\ DOMAIN inbox' = Clients
        /\ client' \in [Clients -> {"absent", "connected", "verified", "expired"}]
    BY <1>1, <2>7, <2>8, RequestRead DEF req
  <2>10. Types'
    BY <1>0, <1>1, <2>5, <2>9 DEF Types
  <2>11. /\ \A d \in Clients \ {c} : inbox'[d] = inbox[d]
         /\ inbox'[c] = b \/ inbox'[c] = Append(b, x)
    BY <1>0, <2>7 DEF Types, Write
  <2>12. StopInv'
    <3>1. CASE req.method = "stop_service" /\ ~quit_timer
      <4>1. \A d \in Clients : Stops(asked[d], inbox[d]) = {}
        BY <1>0, <3>1 DEF StopInv
      <4>2. Stops(a, inbox'[c]) \subseteq {Len(b) + 1}
        <5>1. Stops(a, b) = {}
          BY <4>1
        <5>2. x \in Answers_ \cup Pings_
          BY <2>7
        <5>3. Stops(a, Append(b, x)) \subseteq Stops(a, b) \cup {Len(b) + 1}
          BY <1>2, <5>2, StopsOfAnswer, Zenon
        <5> QED
          BY <2>11, <5>1, <5>3
      <4>3. \A d \in Clients \ {c} : Stops(asked'[d], inbox'[d]) = {}
        BY <1>1, <2>11, <4>1
      <4>4. Stops(asked'[c], inbox'[c]) \subseteq {Len(b) + 1}
        BY <1>1, <4>2
      <4>5. \A d, e \in Clients : \A i \in Stops(asked'[d], inbox'[d]),
                                     j \in Stops(asked'[e], inbox'[e]) : d = e /\ i = j
        <5> SUFFICES ASSUME NEW d \in Clients, NEW e \in Clients,
                            NEW i \in Stops(asked'[d], inbox'[d]),
                            NEW j \in Stops(asked'[e], inbox'[e])
                     PROVE  d = e /\ i = j
          OBVIOUS
        <5>1. d = c /\ e = c
          BY <4>3
        <5>2. i \in {Len(b) + 1} /\ j \in {Len(b) + 1}
          BY <4>4, <5>1
        <5> QED
          BY <5>1, <5>2
      <4>6. \A d \in Clients : Stops(asked[d], inbox[d])' = Stops(asked'[d], inbox'[d])
        BY DEF Stops
      <4> QED
        BY <2>5, <3>1, <4>5, <4>6 DEF StopInv
    <3>2. CASE ~(req.method = "stop_service" /\ ~quit_timer)
      <4>1. ~(x.type = "response" /\ x.ok /\ a[x.id].method = "stop_service")
        <5>1. a[x.id] = req
          BY <1>2, <2>7
        <5>2. CASE req.method # "stop_service"
          BY <5>1, <5>2
        <5>3. CASE req.method = "stop_service" /\ quit_timer
          BY <2>6, <2>7, <5>3
        <5> QED
          BY <3>2, <5>2, <5>3
      <4>2. Stops(a, Append(b, x)) = Stops(a, b)
        BY <1>2, <4>1, StopsOfOther
      <4>3. \A d \in Clients : Stops(asked'[d], inbox'[d]) = Stops(asked[d], inbox[d])
        BY <1>1, <2>11, <4>2
      <4> QED
        BY <1>0, <2>5, <4>3, StopsKept
    <3> QED
      BY <3>1, <3>2
  <2> QED
    BY <2>5, <2>9, <2>10, <2>12 DEF IndInv
<1>5. CASE ~(Allowed(c, req.method) /\ Decoded(req) # {})
  <2>1. /\ UNCHANGED <<client, effect_vars>>
        /\ \/ req.method = "activate_request" /\ WriteServiceAnswer(c, req, FALSE, <<>>)
           \/ UNCHANGED inbox
    BY <1>5 DEF HandleRequest
  <2>2. \/ UNCHANGED inbox
        \/ req.method = "activate_request" /\ \E x \in Answers_ : x.id = req.id /\ Write(c, x)
    <3>1. FALSE \in BOOLEAN /\ <<>> \in Results
      BY DEF Results
    <3> HIDE DEF req
    <3> QED
      BY <1>3, <2>1, <3>1, AnswerWritten
  <2>3. /\ PerClient' /\ DOMAIN wire' = Clients /\ DOMAIN inbox' = Clients
        /\ client' \in [Clients -> {"absent", "connected", "verified", "expired"}]
    BY <1>1, <2>1, <2>2, RequestRead
  <2> HIDE DEF req
  <2>4. \A d \in Clients : Stops(asked'[d], inbox'[d]) = Stops(asked[d], inbox[d])
    <3>1. CASE UNCHANGED inbox
      BY <1>1, <3>1
    <3>2. CASE req.method = "activate_request" /\ \E x \in Answers_ : x.id = req.id /\ Write(c, x)
      <4>1. PICK x \in Answers_ : x.id = req.id /\ Write(c, x)
        BY <3>2
      <4>2. /\ \A d \in Clients \ {c} : inbox'[d] = inbox[d]
            /\ inbox'[c] = b \/ inbox'[c] = Append(b, x)
        BY <1>0, <4>1 DEF Types, Write
      <4>3. a[x.id].method # "stop_service"
        BY <1>2, <3>2, <4>1
      <4>4. Stops(a, Append(b, x)) = Stops(a, b)
        BY <1>2, <4>3, StopsOfOther
      <4> QED
        BY <1>1, <4>2, <4>4
    <3> QED
      BY <2>2, <3>1, <3>2
  <2>5. /\ StopInv' /\ RootsInv'
        /\ childs' \in SUBSET Streams /\ writable' \in SUBSET childs'
        /\ DOMAIN roots' = {"http", "vods", "cods"} /\ quit_timer' \in BOOLEAN
    BY <1>0, <2>1, <2>4, EffectsKept
  <2>6. Types'
    BY <1>0, <1>1, <2>3, <2>5 DEF Types
  <2> QED
    BY <2>3, <2>5, <2>6 DEF IndInv
<1> QED
  BY <1>4, <1>5

\* Initially there are no clients and nothing was asked.
LEMMA InitInv == ASSUME Init PROVE IndInv
<1>1. Types
  <2>1. client \in [Clients -> {"absent", "connected", "verified", "expired"}]
    BY DEF Init
  <2>2. /\ DOMAIN asked = Clients /\ DOMAIN wire = Clients /\ DOMAIN inbox = Clients
        /\ pings \in [Clients -> Nat] /\ pending \in [Clients -> SUBSET Nat] /\ DOMAIN ponged = Clients
        /\ DOMAIN roots = {"http", "vods", "cods"}
    BY DEF Init
  <2>3. asks \in 0..MaxRequests
    <3>1. asks = 0
      BY DEF Init
    <3> QED
      BY <3>1, RequestsAssumption
  <2>4. broken \in SUBSET Clients /\ childs \in SUBSET Streams /\ writable \in SUBSET childs
    BY DEF Init
  <2>5. quit_timer \in BOOLEAN
    BY DEF Init
  <2> QED
    BY <2>1, <2>2, <2>3, <2>4, <2>5 DEF Types
<1>2. PerClient
  <2> SUFFICES ASSUME NEW c \in Clients
               PROVE  ClientInv(<<>>, <<>>, <<>>, "absent", 0, {}, {})
    BY DEF Init, PerClient
  <2>1. AskedInv(<<>>)
    BY DEF AskedInv
  <2>2. WireInv(<<>>, <<>>, "absent", {})
    BY DEF WireInv
  <2>3. InboxInv(<<>>, <<>>, <<>>, "absent", 0, {})
    BY RequestsAssumption DEF InboxInv
  <2>4. PendingInv(<<>>, <<>>, "absent", {}, {})
    BY DEF PendingInv
  <2>5. FreshInv(<<>>, <<>>, "absent", 0)
    BY DEF FreshInv
  <2> QED
    BY <2>1, <2>2, <2>3, <2>4, <2>5 DEF ClientInv
<1>3. StopInv
  <2>1. \A c \in Clients : Stops(asked[c], inbox[c]) = {}
    <3> SUFFICES ASSUME NEW c \in Clients PROVE Stops(asked[c], inbox[c]) = {}
      OBVIOUS
    <3>1. inbox[c] = <<>>
      BY DEF Init
    <3>2. DOMAIN inbox[c] = {}
      BY <3>1
    <3> QED
      BY <3>2 DEF Stops
  <2> QED
    BY <2>1 DEF StopInv
<1>4. RootsInv
  BY DEF Init, RootsInv
<1> QED
  BY <1>1, <1>2, <1>3, <1>4 DEF IndInv

\* Every step keeps it.
LEMMA NextInv == IndInv /\ [Next]_vars => IndInv'
<1> SUFFICES ASSUME IndInv, [Next]_vars PROVE IndInv'
  OBVIOUS
<1>1. ASSUME NEW c \in Clients, Connect(c) PROVE IndInv'
  BY <1>1, ConnectStep
<1>2. ASSUME NEW c \in Clients, Pong(c) PROVE IndInv'
  BY <1>2, PongStep
<1>3. ASSUME NEW c \in Clients, LicenseExpires(c) PROVE IndInv'
  BY <1>3, LicenseExpiresStep
<1>4. ASSUME NEW c \in Clients, NEW m \in AskedMethods, NEW ps \in ParamsOf(m), Ask(c, m, ps)
      PROVE  IndInv'
  BY <1>4, AskStep
<1>5. ASSUME NEW c \in Clients, HandleRequest(c) PROVE IndInv'
  BY <1>5, HandleRequestStep
<1>6. ASSUME NEW c \in Clients, HandleResponse(c) PROVE IndInv'
  BY <1>6, HandleResponseStep
<1>7. ASSUME NEW c \in Clients, PingClient(c) PROVE IndInv'
  BY <1>7, PingClientStep
<1>8. ASSUME NEW c \in Clients, ClientLost(c) PROVE IndInv'
  BY <1>8, ClientLostStep
<1>9. ASSUME \/ \E c \in Clients : Break(c)
             \/ \E s \in Streams : PipeEnds(s) \/ ChildEnds(s)
             \/ UNCHANGED vars
      PROVE  IndInv'
  BY <1>9, EndsStep
<1> QED
  BY <1>1, <1>2, <1>3, <1>4, <1>5, <1>6, <1>7, <1>8, <1>9 DEF Next

\* In every reachable state: requests are numbered, answers and pings keep
\* their order, and what the daemon waits for is what was not answered.
THEOREM IndInvHolds == Spec => []IndInv
BY InitInv, NextInv, PTL DEF Spec

-----------------------------------------------------------------------------
(* The properties.                                                         *)

\* Requests and answers of both sides stay matched: every answer is to an open
\* request and in its order, the daemon waits for exactly its unanswered pings,
\* and only one stop of the service succeeds.
THEOREM AnswersStayMatched == Spec => []AnswersAreMatched
<1>1. ASSUME IndInv PROVE AnswersAreMatched
  <2>0. Types /\ PerClient /\ StopInv
    BY <1>1 DEF IndInv
  <2>1. ASSUME NEW c \in Clients
        PROVE  ClientInv(asked[c], wire[c], inbox[c], client[c], pings[c], pending[c], ponged[c])
    BY <2>0 DEF PerClient
  <2>2. ASSUME NEW c \in Clients, NEW i \in DOMAIN inbox[c]
        PROVE  inbox[c][i].type \in {"request", "response"} /\ inbox[c][i].id \in Nat
    <3>1. inbox[c] \in Seq(Answers_ \cup Pings_)
      BY <2>1 DEF ClientInv, InboxInv
    <3>2. inbox[c][i] \in Answers_ \cup Pings_
      BY <3>1, <2>2
    <3> QED
      BY <3>2, MessageTypes
  <2>3. ASSUME NEW c \in Clients, NEW i \in DOMAIN wire[c]
        PROVE  wire[c][i].type \in {"request", "response"}
    <3>1. wire[c] \in Seq(Requests_ \cup Answers_)
      BY <2>1 DEF ClientInv, WireInv
    <3>2. wire[c][i] \in Requests_ \cup Answers_
      BY <3>1, <2>3
    <3> QED
      BY <3>2, MessageTypes
  <2>4. ASSUME NEW c \in Clients
        PROVE  /\ pings[c] \in 0..MaxPings /\ pending[c] \in SUBSET (0..MaxPings)
    <3>1. pings[c] \in 0..MaxPings /\ InboxInv(asked[c], wire[c], inbox[c], client[c], pings[c], ponged[c])
      BY <2>1 DEF ClientInv, InboxInv
    <3>2. Written(inbox[c]) \subseteq 0..MaxPings
      <4> SUFFICES ASSUME NEW i \in DOMAIN inbox[c], inbox[c][i].type = "request"
                   PROVE  inbox[c][i].id \in 0..MaxPings
        BY DEF Written
      <4>1. inbox[c][i].id \in 0..(pings[c] - 1)
        BY <3>1 DEF InboxInv
      <4> QED
        BY <3>1, <4>1, RequestsAssumption
    <3>3. Unread(wire[c]) \subseteq ponged[c]
      BY <2>1 DEF ClientInv, WireInv, Unread
    <3>4. ponged[c] \subseteq Written(inbox[c])
      BY <3>1 DEF InboxInv
    <3>5. pending[c] = {} \/ pending[c] = (Written(inbox[c]) \ ponged[c]) \cup Unread(wire[c])
      BY <2>1 DEF ClientInv, PendingInv
    <3> QED
      BY <3>1, <3>2, <3>3, <3>4, <3>5
  <2>5. TypeOK
    <3>1. pings \in [Clients -> 0..MaxPings] /\ pending \in [Clients -> SUBSET (0..MaxPings)]
      <4>1. pings = [c \in Clients |-> pings[c]] /\ pending = [c \in Clients |-> pending[c]]
        BY <2>0 DEF Types
      <4> QED
        BY <2>4, <4>1
    <3> QED
      BY <2>0, <2>3, <3>1 DEF Types, TypeOK
  <2>6. AnswersMatchRequests
    <3> SUFFICES ASSUME NEW c \in Clients, NEW i \in Answers(c), NEW j \in Answers(c)
                 PROVE  /\ inbox[c][i].id \in DOMAIN asked[c]
                        /\ i < j => inbox[c][i].id < inbox[c][j].id
      BY DEF AnswersMatchRequests
    <3>1. InboxInv(asked[c], wire[c], inbox[c], client[c], pings[c], ponged[c])
      BY <2>1 DEF ClientInv
    <3> QED
      BY <3>1 DEF InboxInv, Answers
  <2>7. PendingArePings
    <3> SUFFICES ASSUME NEW c \in Clients, client[c] # "absent"
                 PROVE  pending[c] = ({inbox[c][i].id : i \in DOMAIN inbox[c] \ Answers(c)} \ ponged[c])
                          \cup {wire[c][i].id : i \in {k \in DOMAIN wire[c] : wire[c][k].type = "response"}}
      BY DEF PendingArePings
    <3>1. DOMAIN inbox[c] \ Answers(c) = {k \in DOMAIN inbox[c] : inbox[c][k].type = "request"}
      BY <2>2 DEF Answers
    <3>2. pending[c] = (Written(inbox[c]) \ ponged[c]) \cup Unread(wire[c])
      BY <2>1 DEF ClientInv, PendingInv
    <3> QED
      BY <3>1, <3>2 DEF Written, Unread
  <2>8. OneStopSucceeds
    <3> DEFINE T == {x \in UNION {{<<c, i>> : i \in Answers(c)} : c \in Clients} :
                        /\ inbox[x[1]][x[2]].ok
                        /\ asked[x[1]][inbox[x[1]][x[2]].id].method = "stop_service"}
    <3>1. \A x \in T : \E c \in Clients : \E i \in Stops(asked[c], inbox[c]) : x = <<c, i>>
      BY DEF Stops, Answers
    <3> HIDE DEF T
    <3>2. ASSUME NEW x \in T, NEW y \in T PROVE x = y
      <4>1. PICK c \in Clients : \E i \in Stops(asked[c], inbox[c]) : x = <<c, i>>
        BY <3>1
      <4>2. PICK i \in Stops(asked[c], inbox[c]) : x = <<c, i>>
        BY <4>1
      <4>3. PICK d \in Clients : \E j \in Stops(asked[d], inbox[d]) : y = <<d, j>>
        BY <3>1
      <4>4. PICK j \in Stops(asked[d], inbox[d]) : y = <<d, j>>
        BY <4>3
      <4>5. c = d /\ i = j
        BY <2>0, Zenon DEF StopInv
      <4> QED
        BY <4>2, <4>4, <4>5
    <3>5. Cardinality(T) <= 1
      <4>1. CASE T = {}
        BY <4>1, FS_EmptySet
      <4>2. CASE T # {}
        <5>1. PICK x : T = {x}
          BY <3>2, <4>2
        <5>2. Cardinality(T) = 1
          BY <5>1, FS_Singleton
        <5> QED
          BY <5>2
      <4> QED
        BY <4>1, <4>2
    <3> QED
      BY <3>5 DEF OneStopSucceeds, T
  <2> QED
    BY <2>5, <2>6, <2>7, <2>8 DEF AnswersAreMatched
<1> QED
  BY <1>1, IndInvHolds, PTL

\* An entry of the answer to prepare_service.
LEMMA ReportedEntry ==
    ASSUME NEW info, NEW k \in DOMAIN DirectoryKeys
    PROVE  LET r == DirectoryResponse(info, Usable)
           IN  /\ k \in DOMAIN r
               /\ \A i \in DOMAIN r : r[i].key = DirectoryKeys[i] /\ r[i].path = info[DirectoryKeys[i]]
<1>1. ASSUME NEW i \in DOMAIN DirectoryKeys
      PROVE  LET e == DirectoryStateResponse(DirectoryState(DirectoryKeys[i], info[DirectoryKeys[i]], Usable))
             IN  e.key = DirectoryKeys[i] /\ e.path = info[DirectoryKeys[i]]
  BY DEF DirectoryStateResponse, DirectoryState
<1>2. ASSUME NEW i \in DOMAIN DirectoryKeys
      PROVE  DirectoryResponse(info, Usable)[i]
               = DirectoryStateResponse(DirectoryState(DirectoryKeys[i], info[DirectoryKeys[i]], Usable))
  BY DEF DirectoryResponse, Directories
<1>3. DOMAIN DirectoryResponse(info, Usable) = DOMAIN DirectoryKeys
  BY DEF DirectoryResponse
<1> QED
  BY <1>1, <1>2, <1>3

\* The directories the file servers use and those whose old files are removed
\* are the ones reported to the last client that prepared the service, each
\* under its own key, also when two clients prepare in turn.
THEOREM ServedStayReported == Spec => []ServedAreReported
<1>1. ASSUME IndInv PROVE ServedAreReported
  <2> DEFINE Path(key) == CHOOSE i \in DOMAIN reported : reported[i].key = key
  <2> SUFFICES ASSUME reported # <<>>
               PROVE  /\ roots.http = reported[Path("hls_directory")].path
                      /\ roots.vods = reported[Path("vods_directory")].path
                      /\ roots.cods = reported[Path("cods_directory")].path
                      /\ ToSet(monitored) = {roots.http, roots.vods, roots.cods,
                                             reported[Path("timeshifts_directory")].path}
    BY DEF ServedAreReported
  <2>1. PICK info : /\ reported = DirectoryResponse(info, Usable)
                    /\ roots = ServedRoots(info)
                    /\ monitored = <<info["hls_directory"], info["vods_directory"],
                                     info["cods_directory"], info["timeshifts_directory"]>>
    BY <1>1, Zenon DEF IndInv, RootsInv
  <2>2. /\ roots.http = info["hls_directory"] /\ roots.vods = info["vods_directory"]
        /\ roots.cods = info["cods_directory"]
    BY <2>1 DEF ServedRoots
  <2>3. ASSUME NEW k \in DOMAIN DirectoryKeys
        PROVE  reported[Path(DirectoryKeys[k])].path = info[DirectoryKeys[k]]
    <3>1. /\ k \in DOMAIN reported
          /\ \A i \in DOMAIN reported :
                 reported[i].key = DirectoryKeys[i] /\ reported[i].path = info[DirectoryKeys[i]]
      BY <2>1, ReportedEntry
    <3>2. /\ Path(DirectoryKeys[k]) \in DOMAIN reported
          /\ reported[Path(DirectoryKeys[k])].key = DirectoryKeys[k]
      BY <3>1
    <3> QED
      BY <3>1, <3>2
  <2>4. /\ DirectoryKeys[2] = "timeshifts_directory" /\ DirectoryKeys[3] = "hls_directory"
        /\ DirectoryKeys[8] = "vods_directory" /\ DirectoryKeys[9] = "cods_directory"
        /\ 2 \in DOMAIN DirectoryKeys /\ 3 \in DOMAIN DirectoryKeys
        /\ 8 \in DOMAIN DirectoryKeys /\ 9 \in DOMAIN DirectoryKeys
    BY DEF DirectoryKeys
  <2> HIDE DEF Path
  <2>5. /\ reported[Path("hls_directory")].path = info["hls_directory"]
        /\ reported[Path("vods_directory")].path = info["vods_directory"]
        /\ reported[Path("cods_directory")].path = info["cods_directory"]
        /\ reported[Path("timeshifts_directory")].path = info["timeshifts_directory"]
    BY <2>3, <2>4
  <2>6. ToSet(monitored) = {info["hls_directory"], info["vods_directory"],
                            info["cods_directory"], info["timeshifts_directory"]}
    <3>1. DOMAIN monitored = 1..4
      BY <2>1
    <3>2. /\ monitored[1] = info["hls_directory"] /\ monitored[2] = info["vods_directory"]
          /\ monitored[3] = info["cods_directory"] /\ monitored[4] = info["timeshifts_directory"]
      BY <2>1
    <3>3. 1..4 = {1, 2, 3, 4}
      OBVIOUS
    <3>4. ToSet(monitored) = {monitored[i] : i \in {1, 2, 3, 4}}
      BY <3>1, <3>3 DEF ToSet
    <3> QED
      BY <3>2, <3>4
  <2> QED
    BY <2>2, <2>5, <2>6
<1> QED
  BY <1>1, IndInvHolds, PTL
===============================================================================
