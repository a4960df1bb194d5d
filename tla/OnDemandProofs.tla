----------------------------- MODULE OnDemandProofs -----------------------------
(***************************************************************************)
(* Proofs about the vods and cods of OnDemand, for every set of streams,   *)
(* directories and lists, and about the way of a configuration of          *)
(* StreamConfig from a request to the runs of a stream, for every set of   *)
(* requests.                                                               *)
(***************************************************************************)
EXTENDS OnDemand, StreamConfig, FiniteSetTheorems, TLAPS

\* Every step keeps the types.
LEMMA TypeOKStep == TypeOK /\ [Next]_vars => TypeOK'
<1> SUFFICES ASSUME TypeOK, [Next]_vars PROVE TypeOK'
  OBVIOUS
<1> USE DEF TypeOK, ChildStates, FileStates, link_vars,
        child_vars
<1>1. ASSUME NEW list \in SyncLists, ClearVods(list) PROVE TypeOK'
  BY <1>1 DEF ClearVods, NoLinks
<1>2. CASE ClearCods
  BY <1>2 DEF ClearCods, NoLinks
<1>3. CASE InsertLink
  <2> DEFINE s == sync_list[sync_i]
             r == HttpRoots[s][sync_j]
  <2>1. s \in Streams /\ sync_list \in Seq(Streams)
    BY <1>3, OnDemandAssumption DEF InsertLink
  <2>2. s \in Vods \cup Cods /\ sync_j \in 1..Len(HttpRoots[s])
    BY <1>3 DEF InsertLink, OutputsToLink
  <2>3. r \in Roots
    BY <2>1, <2>2, OnDemandAssumption
  <2>4. /\ vods_links_' \in [Roots -> Vods \cup {NoStream}]
        /\ cods_links_' \in [Roots -> Cods \cup {NoStream}]
    BY <1>3, <2>2, <2>3 DEF InsertLink
  <2>5. sync_j' \in Nat \ {0}
    BY <1>3 DEF InsertLink
  <2> QED
    BY <1>3, <2>4, <2>5 DEF InsertLink
<1>4. CASE NextStreamLine
  <2>1. sync_i' \in Nat \ {0} /\ sync_j' \in Nat \ {0}
    BY <1>4 DEF NextStreamLine
  <2> QED
    BY <1>4, <2>1 DEF NextStreamLine
<1>5. CASE SyncDone
  BY <1>5 DEF SyncDone
<1>6. ASSUME NEW r \in Roots,
             Forbid("vods", vods_links_, r) \/ Forbid("cods", cods_links_, r)
      PROVE  TypeOK'
  BY <1>6 DEF Forbid, vars
<1>7. ASSUME NEW r \in Roots, FindVod(r) PROVE TypeOK'
  BY <1>7 DEF FindVod, Find, HttpStates, Streams
<1>8. ASSUME NEW r \in Roots, NEW m3u8 \in BOOLEAN, FindCod(r, m3u8) PROVE TypeOK'
  BY <1>8 DEF FindCod, Find, HttpStates, Streams
<1>9. ASSUME NEW t \in {"vods", "cods"}, http[t].pc = "found", Post(t)
      PROVE  pending' \in Seq(Closures)
  <2>1. http[t] \in [pc : {"found"}, stream : Streams, m3u8 : BOOLEAN, at : Nat]
    BY <1>9 DEF HttpStates, Idle
  <2>2. (t = "cods") \in BOOLEAN
    OBVIOUS
  <2>3. [stream |-> http[t].stream, create |-> http[t].m3u8,
         touch |-> t = "cods", at |-> http[t].at] \in Closures
    BY <2>1, <2>2 DEF Closures
  <2> QED
    BY <1>9, <2>3 DEF Post
<1>10. CASE \E opened \in BOOLEAN : PostVod(opened)
  <2> PICK opened \in BOOLEAN : PostVod(opened)
    BY <1>10
  <2>1. pending' \in Seq(Closures)
    BY <1>9 DEF PostVod
  <2>2. http' \in [{"vods", "cods"} -> HttpStates]
    BY DEF PostVod, HttpStates
  <2> QED
    BY <2>1, <2>2 DEF PostVod
<1>11. CASE PostCod
  <2>1. pending' \in Seq(Closures)
    BY <1>9, <1>11 DEF PostCod
  <2>2. http' \in [{"vods", "cods"} -> HttpStates]
    BY <1>11 DEF PostCod, HttpStates
  <2> QED
    BY <1>11, <2>1, <2>2 DEF PostCod
<1>12. CASE \E started \in BOOLEAN : RunClosure(started)
  <2> PICK started \in BOOLEAN : RunClosure(started)
    BY <1>12
  <2>1. Head(pending) \in Closures /\ pending' \in Seq(Closures)
    BY DEF RunClosure
  <2> DEFINE s == Head(pending).stream
  <2>2. s \in Streams
    BY <2>1 DEF Closures
  <2>3. child' \in [Streams -> ChildStates]
    <3>1. child' = [child EXCEPT ![s] = "running"] \/ child' = child
      BY DEF RunClosure
    <3> QED
      BY <2>2, <3>1
  <2>4. born' \in [Cods -> Nat]
    BY <2>1, <2>2 DEF RunClosure, Closures
  <2>5. age' \in [Cods -> Nat]
    BY <2>2 DEF RunClosure
  <2>6. faults' \in 0..MaxFaults
    BY OnDemandAssumption DEF RunClosure
  <2> QED
    BY <2>1, <2>3, <2>4, <2>5, <2>6 DEF RunClosure
<1>13. ASSUME NEW lost \in SUBSET Expired, CodsTimer(lost) PROVE TypeOK'
  <2>1. Cardinality(lost) \in Nat
    BY OnDemandAssumption, FS_Subset, FS_CardinalityType DEF Expired, Streams
  <2>2. faults' \in 0..MaxFaults
    BY <1>13, <2>1, OnDemandAssumption DEF CodsTimer
  <2> QED
    BY <1>13, <2>2 DEF CodsTimer
<1>14. ASSUME NEW s \in Streams, ChildStatusChanged(s) PROVE TypeOK'
  BY <1>14 DEF ChildStatusChanged
<1>15. ASSUME NEW s \in Streams, RemoveOldFiles(s) PROVE TypeOK'
  BY <1>15 DEF RemoveOldFiles
<1>16. CASE PrepareService
  <2>1. monitored' \in BOOLEAN
    BY <1>16, Zenon DEF PrepareService
  <2> QED
    BY <1>16, <2>1 DEF PrepareService
<1>17. ASSUME NEW s \in Streams, ChildWrites(s) PROVE TypeOK'
  BY <1>17 DEF ChildWrites
<1>18. ASSUME NEW s \in Streams, NEW complete \in BOOLEAN, ChildEnds(s, complete)
       PROVE  TypeOK'
  <2>1. faults' \in 0..MaxFaults
    BY <1>18, OnDemandAssumption DEF ChildEnds
  <2>2. files' \in [Streams -> FileStates]
    BY <1>18 DEF ChildEnds
  <2> QED
    BY <1>18, <2>1, <2>2 DEF ChildEnds
<1>19. CASE Tick
  BY <1>19 DEF Tick
<1>20. CASE UNCHANGED vars
  BY <1>20 DEF vars
<1> QED
  BY <1>1, <1>2, <1>3, <1>4, <1>5, <1>6, <1>7, <1>8, <1>10, <1>11,
     <1>12, <1>13, <1>14, <1>15, <1>16, <1>17, <1>18, <1>19, <1>20
     DEF Next, SyncNext, HttpNext, LoopNext, ProcessNext

\* Type correctness of the streams on demand.
THEOREM TypeCorrect == Spec => []TypeOK
<1>1. Init => TypeOK
  <2> SUFFICES ASSUME Init PROVE TypeOK
    OBVIOUS
  <2>1. monitored \in BOOLEAN
    BY Zenon DEF Init
  <2> QED
    BY <2>1, OnDemandAssumption DEF Init, TypeOK, NoLinks, HttpStates,
       ChildStates, FileStates
<1> QED
  BY <1>1, TypeOKStep, PTL DEF Spec

-----------------------------------------------------------------------------
(* SyncInstallsLinks. While the links are installed, each directory is linked *)
(* to the last stream that offers it among the outputs gone through so far:   *)
(* those of the streams before sync_i, and those before sync_j of that stream.*)

\* Stream number a has offered directory r so far.
HasOffered(kind, a, r) ==
    /\ a \in 1..Len(sync_list)
    /\ sync_list[a] \in kind \ Invalid
    /\ \E b \in 1..Len(HttpRoots[sync_list[a]]) :
        /\ a < sync_i \/ (a = sync_i /\ b < sync_j)
        /\ HttpRoots[sync_list[a]][b] = r

LinkedSoFar(links, kind) ==
    \A r \in Roots :
        \/ links[r] = NoStream /\ \A a \in Nat : ~HasOffered(kind, a, r)
        \/ \E a \in Nat :
            /\ HasOffered(kind, a, r)
            /\ links[r] = sync_list[a]
            /\ \A b \in Nat : HasOffered(kind, b, r) => b <= a

SyncInv ==
    /\ sync_pc = "clear_cods" => vods_links_ = NoLinks
    /\ sync_pc = "add" => /\ sync_i <= Len(sync_list) + 1
                          /\ LinkedSoFar(vods_links_, Vods)
                          /\ LinkedSoFar(cods_links_, Cods)
    /\ SyncInstallsLinks

\* Nothing is offered before the first stream.
LEMMA NothingOfferedYet ==
  ASSUME sync_i = 1, sync_j = 1, NEW kind
  PROVE  LinkedSoFar(NoLinks, kind)
BY DEF LinkedSoFar, HasOffered, NoLinks

\* When the whole list has been gone through, the links are those of the list.
LEMMA AllOffered ==
  ASSUME TypeOK, sync_i = Len(sync_list) + 1, NEW kind, NEW links,
         LinkedSoFar(links, kind)
  PROVE  LinkedToLast(links, kind)
<1>1. sync_list \in Seq(Streams) /\ Len(sync_list) \in Nat
  BY OnDemandAssumption DEF TypeOK
<1>2. ASSUME NEW r \in Roots, NEW a \in Nat
      PROVE  HasOffered(kind, a, r) <=> a \in 1..Len(sync_list) /\ Offers(kind, a, r)
  BY <1>1 DEF HasOffered, Offers
<1> QED
  BY <1>1, <1>2 DEF LinkedSoFar, LinkedToLast

\* One more link.
LEMMA InsertKeepsLinks ==
  ASSUME TypeOK, InsertLink, LinkedSoFar(vods_links_, Vods),
         LinkedSoFar(cods_links_, Cods)
  PROVE  LinkedSoFar(vods_links_, Vods)' /\ LinkedSoFar(cods_links_, Cods)'
<1> DEFINE s == sync_list[sync_i]
           r == HttpRoots[s][sync_j]
<1>1. /\ sync_list \in Seq(Streams)
      /\ sync_i \in 1..Len(sync_list)
      /\ s \in (Vods \cup Cods) \ Invalid
      /\ Vods \cap Cods = {}
      /\ sync_j \in 1..Len(HttpRoots[s])
      /\ Len(HttpRoots[s]) \in Nat
      /\ r \in Roots
      /\ sync_list' = sync_list /\ sync_i' = sync_i /\ sync_j' = sync_j + 1
  BY OnDemandAssumption DEF TypeOK, InsertLink, OutputsToLink, Streams
<1>2. ASSUME NEW kind \in {Vods, Cods}, NEW d \in Roots, NEW a \in Nat
      PROVE  HasOffered(kind, a, d)' <=>
                HasOffered(kind, a, d) \/ (a = sync_i /\ s \in kind /\ d = r)
  <2>1. CASE a # sync_i
    BY <1>1, <2>1 DEF HasOffered, TypeOK
  <2>2. CASE a = sync_i
    <3>0. /\ sync_i \in 1..Len(sync_list) /\ ~(sync_i < sync_i)
          /\ s \in kind <=> s \in kind \ Invalid
      BY <1>1
    <3>1. HasOffered(kind, a, d) <=>
            s \in kind /\ \E b \in 1..Len(HttpRoots[s]) :
                b < sync_j /\ HttpRoots[s][b] = d
      BY <2>2, <3>0, Zenon DEF HasOffered
    <3>2. HasOffered(kind, a, d)' <=>
            s \in kind /\ \E b \in 1..Len(HttpRoots[s]) :
                b < sync_j + 1 /\ HttpRoots[s][b] = d
      <4>1. sync_list' = sync_list /\ sync_i' = sync_i /\ sync_j' = sync_j + 1
        BY <1>1
      <4> QED
        BY <2>2, <3>0, <4>1, Zenon DEF HasOffered
    <3>3. \A b \in 1..Len(HttpRoots[s]) : b < sync_j + 1 <=> b < sync_j \/ b = sync_j
      BY <1>1
    <3> QED
      BY <1>1, <2>2, <3>1, <3>2, <3>3
  <2> QED
    BY <2>1, <2>2
<1>3. LinkedSoFar(vods_links_, Vods)'
  <2> SUFFICES ASSUME NEW d \in Roots
      PROVE  \/ vods_links_'[d] = NoStream /\ \A a \in Nat : ~HasOffered(Vods, a, d)'
             \/ \E a \in Nat :
                 /\ HasOffered(Vods, a, d)'
                 /\ vods_links_'[d] = sync_list'[a]
                 /\ \A b \in Nat : HasOffered(Vods, b, d)' => b <= a
    BY DEF LinkedSoFar
  <2>1. CASE s \in Vods /\ d = r
    <3>1. vods_links_'[d] = s
      BY <1>1, <2>1 DEF TypeOK, InsertLink
    <3>2. \A b \in Nat : HasOffered(Vods, b, d)' => b <= sync_i
      <4>1. \A b \in Nat : HasOffered(Vods, b, d) => b <= sync_i
        BY <1>1 DEF HasOffered
      <4> QED
        BY <1>1, <1>2, <4>1
    <3> QED
      BY <1>1, <1>2, <2>1, <3>1, <3>2
  <2>2. CASE ~(s \in Vods /\ d = r)
    <3>1. vods_links_'[d] = vods_links_[d]
      BY <1>1, <2>2 DEF TypeOK, InsertLink
    <3>2. \A a \in Nat : HasOffered(Vods, a, d)' <=> HasOffered(Vods, a, d)
      BY <1>2, <2>2
    <3> QED
      BY <1>1, <3>1, <3>2 DEF LinkedSoFar
  <2> QED
    BY <2>1, <2>2
<1>4. LinkedSoFar(cods_links_, Cods)'
  <2> SUFFICES ASSUME NEW d \in Roots
      PROVE  \/ cods_links_'[d] = NoStream /\ \A a \in Nat : ~HasOffered(Cods, a, d)'
             \/ \E a \in Nat :
                 /\ HasOffered(Cods, a, d)'
                 /\ cods_links_'[d] = sync_list'[a]
                 /\ \A b \in Nat : HasOffered(Cods, b, d)' => b <= a
    BY DEF LinkedSoFar
  <2>1. CASE s \in Cods /\ d = r
    <3>1. cods_links_'[d] = s
      BY <1>1, <2>1 DEF TypeOK, InsertLink
    <3>2. \A b \in Nat : HasOffered(Cods, b, d)' => b <= sync_i
      <4>1. \A b \in Nat : HasOffered(Cods, b, d) => b <= sync_i
        BY <1>1 DEF HasOffered
      <4> QED
        BY <1>1, <1>2, <4>1
    <3> QED
      BY <1>1, <1>2, <2>1, <3>1, <3>2
  <2>2. CASE ~(s \in Cods /\ d = r)
    <3>1. cods_links_'[d] = cods_links_[d]
      BY <1>1, <2>2 DEF TypeOK, InsertLink
    <3>2. \A a \in Nat : HasOffered(Cods, a, d)' <=> HasOffered(Cods, a, d)
      BY <1>2, <2>2
    <3> QED
      BY <1>1, <3>1, <3>2 DEF LinkedSoFar
  <2> QED
    BY <2>1, <2>2
<1> QED
  BY <1>3, <1>4

\* The next stream.
LEMMA NextLineKeepsLinks ==
  ASSUME TypeOK, NextStreamLine, LinkedSoFar(vods_links_, Vods),
         LinkedSoFar(cods_links_, Cods)
  PROVE  LinkedSoFar(vods_links_, Vods)' /\ LinkedSoFar(cods_links_, Cods)'
<1> DEFINE s == sync_list[sync_i]
<1>1. /\ sync_list \in Seq(Streams)
      /\ sync_i \in 1..Len(sync_list)
      /\ s \in (Vods \cup Cods) \ Invalid => sync_j > Len(HttpRoots[s])
      /\ Len(HttpRoots[s]) \in Nat
      /\ sync_list' = sync_list /\ sync_i' = sync_i + 1 /\ sync_j' = 1
      /\ vods_links_' = vods_links_ /\ cods_links_' = cods_links_
  BY OnDemandAssumption DEF TypeOK, NextStreamLine, OutputsToLink, Streams
<1>2. ASSUME NEW kind \in {Vods, Cods}, NEW d \in Roots, NEW a \in Nat
      PROVE  HasOffered(kind, a, d)' <=> HasOffered(kind, a, d)
  <2> DEFINE T == sync_list[a]
  <2>1. ASSUME T \in kind \ Invalid, NEW b \in 1..Len(HttpRoots[T])
        PROVE  a < sync_i + 1 \/ (a = sync_i + 1 /\ b < 1)
                 <=> a < sync_i \/ (a = sync_i /\ b < sync_j)
    <3>1. sync_i \in Nat /\ sync_j \in Nat
      BY DEF TypeOK
    <3>2. CASE a # sync_i
      BY <3>1, <3>2
    <3>3. CASE a = sync_i
      BY <1>1, <2>1, <3>1, <3>3
    <3> QED
      BY <3>2, <3>3
  <2> QED
    BY <1>1, <2>1, Zenon DEF HasOffered
<1> QED
  BY <1>1, <1>2 DEF LinkedSoFar

\* Every step of a synchronisation keeps SyncInv; the other steps do not touch
\* the links.
LEMMA SyncInvStep == TypeOK /\ SyncInv /\ [Next]_vars => SyncInv'
<1> SUFFICES ASSUME TypeOK, SyncInv, [Next]_vars PROVE SyncInv'
  OBVIOUS
<1>1. ASSUME NEW list \in SyncLists, ClearVods(list) PROVE SyncInv'
  BY <1>1 DEF ClearVods, SyncInv, SyncInstallsLinks, MainLoopFree, NoLinks
<1>2. CASE ClearCods
  <2>1. /\ sync_pc' = "add" /\ sync_i' = 1 /\ sync_j' = 1
        /\ vods_links_' = NoLinks /\ cods_links_' = NoLinks
        /\ sync_list' = sync_list /\ Len(sync_list) \in Nat
    BY <1>2, OnDemandAssumption DEF ClearCods, SyncInv, TypeOK
  <2>2. LinkedSoFar(vods_links_, Vods)' /\ LinkedSoFar(cods_links_, Cods)'
    BY <2>1 DEF LinkedSoFar, HasOffered, NoLinks
  <2> QED
    BY <2>1, <2>2 DEF SyncInv, SyncInstallsLinks, MainLoopFree
<1>3. CASE InsertLink
  <2>1. LinkedSoFar(vods_links_, Vods)' /\ LinkedSoFar(cods_links_, Cods)'
    BY <1>3, InsertKeepsLinks DEF InsertLink, SyncInv
  <2>2. sync_pc' = "add" /\ sync_i' = sync_i /\ sync_list' = sync_list
    BY <1>3 DEF InsertLink
  <2> QED
    BY <1>3, <2>1, <2>2 DEF InsertLink, SyncInv, SyncInstallsLinks, MainLoopFree
<1>4. CASE NextStreamLine
  <2>1. LinkedSoFar(vods_links_, Vods)' /\ LinkedSoFar(cods_links_, Cods)'
    BY <1>4, NextLineKeepsLinks DEF NextStreamLine, SyncInv
  <2>2. /\ sync_pc' = "add" /\ sync_i' = sync_i + 1 /\ sync_list' = sync_list
        /\ sync_i <= Len(sync_list) /\ sync_i \in Nat /\ Len(sync_list) \in Nat
    BY <1>4, OnDemandAssumption DEF NextStreamLine, TypeOK
  <2> QED
    BY <2>1, <2>2 DEF SyncInv, SyncInstallsLinks, MainLoopFree
<1>5. CASE SyncDone
  <2>1. sync_i = Len(sync_list) + 1
    <3>1. sync_list \in Seq(Streams) /\ sync_i \in Nat
      BY OnDemandAssumption DEF TypeOK
    <3>2. sync_i > Len(sync_list) /\ sync_i <= Len(sync_list) + 1
      BY <1>5 DEF SyncDone, SyncInv
    <3> QED
      BY <3>1, <3>2
  <2>2. LinkedToLast(vods_links_, Vods) /\ LinkedToLast(cods_links_, Cods)
    BY <1>5, <2>1, AllOffered DEF SyncDone, SyncInv
  <2>3. /\ vods_links_' = vods_links_ /\ cods_links_' = cods_links_
        /\ sync_list' = sync_list /\ sync_pc' = "idle"
    BY <1>5 DEF SyncDone
  <2>4. LinkedToLast(vods_links_, Vods)' /\ LinkedToLast(cods_links_, Cods)'
    <3>1. \A a, r : /\ Offers(Vods, a, r)' <=> Offers(Vods, a, r)
                    /\ Offers(Cods, a, r)' <=> Offers(Cods, a, r)
      BY <2>3 DEF Offers
    <3>2. LinkedToLast(vods_links_, Vods)'
      BY <2>2, <2>3, <3>1 DEF LinkedToLast
    <3>3. LinkedToLast(cods_links_, Cods)'
      BY <2>2, <2>3, <3>1 DEF LinkedToLast
    <3> QED
      BY <3>2, <3>3
  <2>5. SyncInstallsLinks'
    BY <2>4 DEF SyncInstallsLinks
  <2> QED
    BY <2>3, <2>5 DEF SyncInv
<1>6. CASE UNCHANGED link_vars
  <2>1. /\ vods_links_' = vods_links_ /\ cods_links_' = cods_links_
        /\ sync_list' = sync_list /\ sync_pc' = sync_pc
        /\ sync_i' = sync_i /\ sync_j' = sync_j
    BY <1>6 DEF link_vars
  <2>2. SyncInstallsLinks'
    BY <2>1 DEF SyncInv, SyncInstallsLinks, MainLoopFree, LinkedToLast, Offers
  <2>3. sync_pc = "add" =>
            LinkedSoFar(vods_links_, Vods)' /\ LinkedSoFar(cods_links_, Cods)'
    BY <2>1 DEF SyncInv, LinkedSoFar, HasOffered
  <2> QED
    BY <2>1, <2>2, <2>3 DEF SyncInv, NoLinks
<1>7. HttpNext \/ LoopNext \/ ProcessNext \/ Tick \/ UNCHANGED vars
        => UNCHANGED link_vars
  BY DEF HttpNext, LoopNext, ProcessNext, Forbid, FindVod, FindCod, Find, PostVod,
         PostCod, RunClosure, CodsTimer, ChildStatusChanged, PrepareService,
         RemoveOldFiles, ChildWrites, ChildEnds, Tick, vars, link_vars
<1> QED
  BY <1>1, <1>2, <1>3, <1>4, <1>5, <1>6, <1>7 DEF Next, SyncNext

\* After every synchronisation the links are exactly those of its list,
\* whatever list, directories and streams it brings.
THEOREM SyncIsComplete == Spec => []SyncInstallsLinks
<1>1. Init => SyncInv
  <2> SUFFICES ASSUME Init PROVE SyncInv
    OBVIOUS
  <2>1. Len(sync_list) = 0
    BY DEF Init
  <2>2. LinkedToLast(vods_links_, Vods) /\ LinkedToLast(cods_links_, Cods)
    BY <2>1 DEF Init, LinkedToLast, NoLinks
  <2> QED
    BY <2>2 DEF Init, SyncInv, SyncInstallsLinks
<1>2. SyncInv => SyncInstallsLinks
  BY DEF SyncInv
<1> QED
  BY <1>1, <1>2, SyncInvStep, TypeCorrect, PTL DEF Spec

\* The links are those of the last synchronisation, and of the right kind.
THEOREM LinksAreOfTheList == Spec => []LinksFollowSync
BY TypeCorrect, SyncIsComplete, PTL DEF LinksFollowSync
-----------------------------------------------------------------------------
(* UnlinkedOnlyBySync. What an http thread looked up, what it posted and what  *)
(* runs is noted with the number of the synchronisation it was looked up in.   *)
(* When that is the last one, the cod is on the list of that one, unless the   *)
(* next list has arrived and the cods have not been cleared yet.               *)

\* Some line of the list is about s, and valid.
OnList(s, list) == \E a \in 1..Len(list) : list[a] = s /\ s \notin Invalid

\* Stream s was looked up in synchronisation at; the last one is last.
Current(s, at, last, pc, list) ==
    s \in Cods => /\ at <= last
                  /\ (at = last /\ pc # "clear_cods" => OnList(s, list))

LookupInv ==
    /\ \A t \in {"vods", "cods"} :
        http[t].pc = "found" => Current(http[t].stream, http[t].at, syncs, sync_pc, sync_list)
    /\ \A i \in 1..Len(pending) :
        Current(pending[i].stream, pending[i].at, syncs, sync_pc, sync_list)
    /\ \A s \in Cods : child[s] # "none" => Current(s, born[s], syncs, sync_pc, sync_list)

\* A cod that is linked is on the list, except while the links are those of
\* the list before.
LEMMA LinkedIsOnList ==
  ASSUME TypeOK, SyncInv, NEW r \in Roots, cods_links_[r] # NoStream,
         sync_pc # "clear_cods"
  PROVE  OnList(cods_links_[r], sync_list)
<1>1. CASE sync_pc = "add"
  <2>1. PICK a \in Nat : HasOffered(Cods, a, r) /\ cods_links_[r] = sync_list[a]
    BY <1>1 DEF SyncInv, LinkedSoFar
  <2> QED
    BY <2>1 DEF HasOffered, OnList
<1>2. CASE sync_pc = "idle"
  <2>1. LinkedToLast(cods_links_, Cods)
    BY <1>2 DEF SyncInv, SyncInstallsLinks, MainLoopFree
  <2>2. PICK a \in 1..Len(sync_list) : Offers(Cods, a, r) /\ cods_links_[r] = sync_list[a]
    BY <2>1 DEF LinkedToLast
  <2> QED
    BY <2>2 DEF Offers, OnList
<1> QED
  BY <1>1, <1>2 DEF TypeOK

\* What is current stays so until the cods are cleared, and is then of an
\* earlier synchronisation.
LEMMA CurrentStep ==
  ASSUME TypeOK, [Next]_vars, NEW s, NEW at \in Nat,
         Current(s, at, syncs, sync_pc, sync_list)
  PROVE  Current(s, at, syncs', sync_pc', sync_list')
<1>1. ASSUME NEW list \in SyncLists, ClearVods(list)
      PROVE  Current(s, at, syncs', sync_pc', sync_list')
  BY <1>1 DEF ClearVods, Current
<1>2. CASE ClearCods
  <2>1. syncs' = syncs + 1 /\ syncs \in Nat
    BY <1>2 DEF ClearCods, TypeOK
  <2>2. at <= syncs => at <= syncs' /\ at # syncs'
    BY <2>1
  <2>3. s \in Cods => at <= syncs
    BY DEF Current
  <2> QED
    BY <2>2, <2>3 DEF Current
<1>3. CASE InsertLink \/ NextStreamLine \/ SyncDone
  <2>1. syncs' = syncs /\ sync_list' = sync_list /\ sync_pc # "clear_cods"
    BY <1>3 DEF InsertLink, NextStreamLine, SyncDone
  <2> QED
    BY <2>1 DEF Current
<1>4. CASE UNCHANGED link_vars
  <2>1. syncs' = syncs /\ sync_list' = sync_list /\ sync_pc' = sync_pc
    BY <1>4 DEF link_vars
  <2> QED
    BY <2>1
<1>5. HttpNext \/ LoopNext \/ ProcessNext \/ Tick \/ UNCHANGED vars
        => UNCHANGED link_vars
  BY DEF HttpNext, LoopNext, ProcessNext, Forbid, FindVod, FindCod, Find, PostVod,
         PostCod, RunClosure, CodsTimer, ChildStatusChanged, PrepareService,
         RemoveOldFiles, ChildWrites, ChildEnds, Tick, vars, link_vars
<1> QED
  BY <1>1, <1>2, <1>3, <1>4, <1>5 DEF Next, SyncNext

\* A lookup is of the last synchronisation.
LEMMA FindIsCurrent ==
  ASSUME TypeOK, SyncInv, NEW r \in Roots, NEW t \in {"vods", "cods"},
         FindVod(r) \/ \E m3u8 \in BOOLEAN : FindCod(r, m3u8)
  PROVE  http'[t] = http[t]
           \/ Current(http'[t].stream, http'[t].at, syncs, sync_pc, sync_list)
<1>1. CASE FindVod(r)
  <2>1. /\ http'["vods"].stream = vods_links_[r] /\ vods_links_[r] # NoStream
        /\ http'["cods"] = http["cods"]
    BY <1>1 DEF FindVod, Find, TypeOK
  <2>2. vods_links_[r] \notin Cods
    BY <2>1, OnDemandAssumption DEF TypeOK
  <2> QED
    BY <2>1, <2>2 DEF Current
<1>2. ASSUME NEW m3u8 \in BOOLEAN, FindCod(r, m3u8)
      PROVE  http'[t] = http[t]
               \/ Current(http'[t].stream, http'[t].at, syncs, sync_pc, sync_list)
  <2>1. /\ http'["cods"].stream = cods_links_[r] /\ cods_links_[r] # NoStream
        /\ http'["cods"].at = syncs /\ http'["vods"] = http["vods"]
    BY <1>2 DEF FindCod, Find, TypeOK
  <2>2. Current(cods_links_[r], syncs, syncs, sync_pc, sync_list)
    BY <2>1, LinkedIsOnList DEF Current, TypeOK
  <2> QED
    BY <2>1, <2>2
<1> QED
  BY <1>1, <1>2

\* A step other than a lookup: the threads have nothing new.
LEMMA NoNewLookup ==
  ASSUME TypeOK, [Next]_vars, NEW t \in {"vods", "cods"},
         ~ \E r \in Roots : FindVod(r) \/ \E m3u8 \in BOOLEAN : FindCod(r, m3u8)
  PROVE  http'[t] = http[t] \/ http'[t] = Idle
<1>1. CASE PostCod \/ \E opened \in BOOLEAN : PostVod(opened)
  BY <1>1 DEF PostCod, PostVod, TypeOK
<1>2. CASE \E r \in Roots : Forbid("vods", vods_links_, r) \/ Forbid("cods", cods_links_, r)
  BY <1>2 DEF Forbid, vars
<1>3. CASE SyncNext \/ LoopNext \/ ProcessNext \/ Tick \/ UNCHANGED vars
  BY <1>3 DEF SyncNext, ClearVods, ClearCods, InsertLink, NextStreamLine, SyncDone,
     LoopNext, RunClosure, CodsTimer, ChildStatusChanged, PrepareService, RemoveOldFiles,
     ProcessNext, ChildWrites, ChildEnds, Tick, vars
<1> QED
  BY <1>1, <1>2, <1>3 DEF Next, HttpNext

\* A closure that waits was waiting before, or is of what a thread has found.
LEMMA ClosureOrigin ==
  ASSUME TypeOK, [Next]_vars, NEW i \in 1..Len(pending')
  PROVE  \/ \E k \in 1..Len(pending) : pending'[i] = pending[k]
         \/ \E t \in {"vods", "cods"} : /\ http[t].pc = "found"
                                       /\ pending'[i].stream = http[t].stream
                                       /\ pending'[i].at = http[t].at
<1>0. pending \in Seq(Closures)
  BY DEF TypeOK
<1>1. ASSUME NEW t \in {"vods", "cods"}, http[t].pc = "found", Post(t)
      PROVE  \/ \E k \in 1..Len(pending) : pending'[i] = pending[k]
             \/ /\ pending'[i].stream = http[t].stream
                /\ pending'[i].at = http[t].at
  <2> DEFINE c == [stream |-> http[t].stream, create |-> http[t].m3u8,
                   touch |-> t = "cods", at |-> http[t].at]
  <2>1. c.stream = http[t].stream /\ c.at = http[t].at
    OBVIOUS
  <2>2. pending' = Append(pending, c)
    BY <1>1 DEF Post
  <2> HIDE DEF c
  <2>3. i \in 1..Len(pending) \/ i = Len(pending) + 1
    BY <1>0, <2>2
  <2>4. CASE i \in 1..Len(pending)
    BY <1>0, <2>2, <2>4
  <2>5. CASE i = Len(pending) + 1
    BY <1>0, <2>1, <2>2, <2>5
  <2> QED
    BY <2>3, <2>4, <2>5
<1>2. CASE PostCod
  BY <1>1, <1>2 DEF PostCod
<1>3. ASSUME NEW opened \in BOOLEAN, PostVod(opened)
      PROVE  \/ \E k \in 1..Len(pending) : pending'[i] = pending[k]
             \/ \E t \in {"vods", "cods"} : /\ http[t].pc = "found"
                                           /\ pending'[i].stream = http[t].stream
                                           /\ pending'[i].at = http[t].at
  <2>1. http["vods"].pc = "found" /\ (pending' = pending \/ Post("vods"))
    BY <1>3 DEF PostVod
  <2>2. CASE pending' = pending
    BY <2>2
  <2> QED
    BY <1>1, <2>1, <2>2
<1>4. CASE \E started \in BOOLEAN : RunClosure(started)
  <2>1. pending # <<>> /\ pending' = Tail(pending)
    BY <1>4 DEF RunClosure
  <2>2. i + 1 \in 1..Len(pending) /\ pending'[i] = pending[i + 1]
    BY <1>0, <2>1
  <2> QED
    BY <2>2
<1>5. CASE UNCHANGED pending
  BY <1>5
<1>6. \/ PostCod \/ \E opened \in BOOLEAN : PostVod(opened)
      \/ \E started \in BOOLEAN : RunClosure(started)
      \/ UNCHANGED pending
  BY DEF Next, SyncNext, ClearVods, ClearCods, InsertLink, NextStreamLine, SyncDone,
     HttpNext, Forbid, FindVod, FindCod, Find, LoopNext, CodsTimer, ChildStatusChanged,
     PrepareService, RemoveOldFiles, ProcessNext, ChildWrites, ChildEnds, Tick, vars, child_vars
<1> QED
  BY <1>2, <1>3, <1>4, <1>5, <1>6

\* A child was there before, or is started by the first closure.
LEMMA ChildOrigin ==
  ASSUME TypeOK, [Next]_vars, NEW s \in Cods, child'[s] # "none"
  PROVE  \/ child[s] # "none" /\ born'[s] = born[s]
         \/ pending # <<>> /\ s = pending[1].stream /\ born'[s] = pending[1].at
<1>0. s \in Streams /\ pending \in Seq(Closures)
  BY DEF TypeOK, Streams
<1>1. ASSUME NEW started \in BOOLEAN, RunClosure(started)
      PROVE  \/ child[s] # "none" /\ born'[s] = born[s]
             \/ pending # <<>> /\ s = pending[1].stream /\ born'[s] = pending[1].at
  <2> DEFINE c == Head(pending)
             starts == c.create /\ started /\ child[c.stream] = "none"
  <2>1. pending # <<>> /\ c = pending[1]
    BY <1>0, <1>1 DEF RunClosure
  <2>2. CASE starts
    <3>1. /\ child' = [child EXCEPT ![c.stream] = "running"]
          /\ born' = [r \in Cods |-> IF r = c.stream THEN c.at ELSE born[r]]
      BY <1>1, <2>2 DEF RunClosure
    <3> HIDE DEF c
    <3> QED
      BY <1>0, <2>1, <3>1 DEF TypeOK
  <2>3. CASE ~starts
    <3>1. child' = child /\ born' = born
      BY <1>1, <2>3 DEF RunClosure
    <3> QED
      BY <3>1
  <2> QED
    BY <2>2, <2>3
<1>2. ASSUME NEW lost \in SUBSET Expired, CodsTimer(lost)
      PROVE  child[s] # "none" /\ born'[s] = born[s]
  BY <1>0, <1>2 DEF CodsTimer, Expired
<1>3. ASSUME NEW x \in Streams, ChildStatusChanged(x)
      PROVE  child[s] # "none" /\ born'[s] = born[s]
  BY <1>0, <1>3 DEF ChildStatusChanged, TypeOK
<1>4. ASSUME NEW x \in Streams, NEW complete \in BOOLEAN, ChildEnds(x, complete)
      PROVE  child[s] # "none" /\ born'[s] = born[s]
  BY <1>0, <1>4 DEF ChildEnds, TypeOK
<1>5. CASE UNCHANGED <<child, born>>
  BY <1>5
<1>6. \/ \E started \in BOOLEAN : RunClosure(started)
      \/ \E lost \in SUBSET Expired : CodsTimer(lost)
      \/ \E x \in Streams : ChildStatusChanged(x)
      \/ \E x \in Streams : \E complete \in BOOLEAN : ChildEnds(x, complete)
      \/ UNCHANGED <<child, born>>
  BY DEF Next, SyncNext, ClearVods, ClearCods, InsertLink, NextStreamLine, SyncDone,
     HttpNext, Forbid, FindVod, FindCod, Find, PostVod, PostCod, LoopNext,
     PrepareService, RemoveOldFiles, ProcessNext, ChildWrites, Tick, vars, child_vars
<1> QED
  BY <1>1, <1>2, <1>3, <1>4, <1>5, <1>6

\* Every step keeps what is noted current.
LEMMA LookupInvStep == TypeOK /\ SyncInv /\ LookupInv /\ [Next]_vars => LookupInv'
<1> SUFFICES ASSUME TypeOK, SyncInv, LookupInv, [Next]_vars PROVE LookupInv'
  OBVIOUS
<1> DEFINE Now(s, at)  == Current(s, at, syncs, sync_pc, sync_list)
           Then(s, at) == Current(s, at, syncs', sync_pc', sync_list')
<1>0. TypeOK'
  BY TypeOKStep
<1>1. ASSUME NEW s, NEW at \in Nat, Now(s, at) PROVE Then(s, at)
  BY <1>1, CurrentStep
<1>2. ASSUME NEW t \in {"vods", "cods"}, http[t].pc = "found"
      PROVE  http[t].at \in Nat /\ Now(http[t].stream, http[t].at)
  <2>1. http[t] \in [pc : {"found"}, stream : Streams, m3u8 : BOOLEAN, at : Nat]
    BY <1>2 DEF TypeOK, HttpStates, Idle
  <2> QED
    BY <1>2, <2>1 DEF LookupInv
<1>3. ASSUME NEW i \in 1..Len(pending)
      PROVE  pending[i].at \in Nat /\ Now(pending[i].stream, pending[i].at)
  <2>1. pending[i] \in Closures
    BY DEF TypeOK
  <2> QED
    BY <2>1 DEF LookupInv, Closures
<1>4. ASSUME NEW s \in Cods, child[s] # "none" PROVE born[s] \in Nat /\ Now(s, born[s])
  BY <1>4 DEF LookupInv, TypeOK
<1>5. ASSUME NEW t \in {"vods", "cods"}, http'[t].pc = "found"
      PROVE  Then(http'[t].stream, http'[t].at)
  <2>1. http'[t].at \in Nat /\ http'[t] # Idle
    <3>1. http'[t] \in [pc : {"found"}, stream : Streams, m3u8 : BOOLEAN, at : Nat]
      BY <1>0, <1>5 DEF TypeOK, HttpStates, Idle
    <3> QED
      BY <1>5, <3>1 DEF Idle
  <2>2. http'[t] = http[t] \/ Now(http'[t].stream, http'[t].at)
    <3>1. CASE \E r \in Roots : FindVod(r) \/ \E m3u8 \in BOOLEAN : FindCod(r, m3u8)
      BY <3>1, FindIsCurrent
    <3>2. CASE ~ \E r \in Roots : FindVod(r) \/ \E m3u8 \in BOOLEAN : FindCod(r, m3u8)
      BY <2>1, <3>2, NoNewLookup
    <3> QED
      BY <3>1, <3>2
  <2>3. Now(http'[t].stream, http'[t].at)
    BY <1>2, <1>5, <2>2
  <2> HIDE DEF Now, Then
  <2> QED
    BY <1>1, <2>1, <2>3
<1>6. ASSUME NEW i \in 1..Len(pending') PROVE Then(pending'[i].stream, pending'[i].at)
  <2>1. \/ \E k \in 1..Len(pending) : pending'[i] = pending[k]
        \/ \E t \in {"vods", "cods"} : /\ http[t].pc = "found"
                                      /\ pending'[i].stream = http[t].stream
                                      /\ pending'[i].at = http[t].at
    BY ClosureOrigin
  <2> HIDE DEF Now, Then
  <2>2. pending'[i].at \in Nat /\ Now(pending'[i].stream, pending'[i].at)
    BY <1>2, <1>3, <2>1
  <2> QED
    BY <1>1, <2>2
<1>7. ASSUME NEW s \in Cods, child'[s] # "none" PROVE Then(s, born'[s])
  <2>1. \/ child[s] # "none" /\ born'[s] = born[s]
        \/ pending # <<>> /\ s = pending[1].stream /\ born'[s] = pending[1].at
    BY <1>7, ChildOrigin
  <2>2. pending # <<>> => 1 \in 1..Len(pending)
    BY DEF TypeOK
  <2> HIDE DEF Now, Then
  <2>3. born'[s] \in Nat /\ Now(s, born'[s])
    BY <1>3, <1>4, <2>1, <2>2
  <2> QED
    BY <1>1, <2>3
<1> QED
  BY <1>5, <1>6, <1>7 DEF LookupInv, Current, OnList

\* A cod that the timer cannot see was overtaken by a synchronisation, or all
\* its directories belong to other cods.
THEOREM UnlinkedBySyncOnly == Spec => []UnlinkedOnlyBySync
<1>1. Init => SyncInv /\ LookupInv
  <2> SUFFICES ASSUME Init PROVE SyncInv /\ LookupInv
    OBVIOUS
  <2>1. Len(sync_list) = 0 /\ Len(pending) = 0
    BY DEF Init
  <2>2. LinkedToLast(vods_links_, Vods) /\ LinkedToLast(cods_links_, Cods)
    BY <2>1 DEF Init, LinkedToLast, NoLinks
  <2>3. SyncInv
    BY <2>2 DEF Init, SyncInv, SyncInstallsLinks
  <2>4. \A t \in {"vods", "cods"} : http[t].pc # "found"
    BY DEF Init, Idle
  <2>5. \A s \in Cods : child[s] = "none"
    BY DEF Init, Streams
  <2> QED
    BY <2>1, <2>3, <2>4, <2>5 DEF LookupInv
<1>2. ASSUME TypeOK, SyncInv, LookupInv PROVE UnlinkedOnlyBySync
  <2> SUFFICES ASSUME NEW s \in Cods, MainLoopFree, child[s] # "none", ~(born[s] < syncs),
                      NEW b \in 1..Len(HttpRoots[s])
               PROVE  cods_links_[HttpRoots[s][b]] # NoStream
    BY DEF UnlinkedOnlyBySync
  <2>0. Current(s, born[s], syncs, sync_pc, sync_list) /\ born[s] \in Nat /\ syncs \in Nat
    BY <1>2 DEF LookupInv, TypeOK
  <2>1. born[s] = syncs /\ sync_pc # "clear_cods"
    <3>1. born[s] <= syncs
      BY <2>0 DEF Current
    <3> QED
      BY <2>0, <3>1 DEF MainLoopFree
  <2>2. PICK a \in 1..Len(sync_list) : sync_list[a] = s /\ s \notin Invalid
    BY <2>0, <2>1 DEF Current, OnList
  <2> DEFINE r == HttpRoots[s][b]
  <2>3. r \in Roots
    BY OnDemandAssumption DEF Streams
  <2>4. Offers(Cods, a, r)
    BY <2>2 DEF Offers
  <2>5. LinkedToLast(cods_links_, Cods)
    BY <1>2 DEF SyncInv, SyncInstallsLinks
  <2>6. PICK k \in 1..Len(sync_list) : cods_links_[r] = sync_list[k]
    BY <2>2, <2>3, <2>4, <2>5 DEF LinkedToLast
  <2>7. sync_list[k] \in Streams
    BY <1>2, OnDemandAssumption DEF TypeOK
  <2> QED
    BY <2>6, <2>7, OnDemandAssumption
<1> QED
  BY <1>1, <1>2, SyncInvStep, LookupInvStep, TypeCorrect, PTL DEF Spec

-----------------------------------------------------------------------------
(* Configurations: the inductive invariant.                                *)

RecorderTypes == {"TIMESHIFT_RECORDER", "CATCHUP"}
VodTypes == {"VOD_ENCODE", "VOD_RELAY"}

\* The daemon has forked a process for the configuration; the process has
\* accepted it.
Forked == {"forked", "exec", "exit_failure", "terminated", "aborted", "running"}
Execed == {"exec", "terminated", "aborted", "running"}

\* The types of streams a process is made for.
MadeTypes == {"RELAY", "ENCODE", "TIMESHIFT_PLAYER", "TIMESHIFT_RECORDER", "CATCHUP", "TEST_LIFE",
              "VOD_RELAY", "VOD_ENCODE", "COD_RELAY", "COD_ENCODE", "EVENT", "SCREEN"}

\* What CreateChildStream has checked of a configuration.
IsChecked(c) ==
    /\ Reads(c, "id", "string") /\ Reads(c, "type", "int") /\ CanRead(c, "input")
    /\ TypeOf(c) \in MadeTypes
    /\ (TypeOf(c) \notin RecorderTypes => CanRead(c, "output"))

\* Every option whose validator refuses it was warned of.
Unwarned(c, W) ==
    \A k \in DOMAIN c \ {"stream_link_path"} :
        Validity(k, c[k]) \subseteq {"INVALID", "UNKNOWN"} => k \in W

\* The CHECK of make_config: a recorder with no chunk duration.
ZeroChunks(made) == /\ made.class = "TimeshiftConfig"
                    /\ Val(made.fields["timeshift_chunk_duration"]) = 0

\* The daemon: options have values, and a process is forked only for what was
\* checked and, where a validator refused it, warned of.
DaemonInv ==
    /\ \A k \in DOMAIN config : IsValue(config[k])
    /\ warned \subseteq DOMAIN config
    /\ stage \in Forked => /\ IsChecked(config)
                           /\ dinfo = MakeStreamInfo(config, TRUE)
                           /\ Unwarned(config, warned)
    /\ stage \notin Forked => dinfo = Nothing /\ warned = {}

\* A vod that comes from a synchronisation is to keep its files.
LineInv ==
    via = "sync" /\ stage \in {"linked", "requested"} \cup Forked =>
        /\ "type" \in DOMAIN config
        /\ (TypeOf(config) \in VodTypes => /\ "cleanup_ts" \in DOMAIN config
                                           /\ config["cleanup_ts"] = Bool(FALSE))

\* The process: it knows what the daemon knows, ends only for the reasons
\* make_config has, and otherwise has the Config that make_config reads.
ProcessInv ==
    /\ pinfo = IF stage \in Execed THEN dinfo ELSE Nothing
    /\ stage = "terminated" => NeedsOutput(config) /\ ~CanRead(config, "output")
    /\ stage = "aborted" => AttemptsNoInteger(config) \/ ZeroChunks(MakeConfigOf(config, 1))
    /\ stage = "running" => /\ ~(NeedsOutput(config) /\ ~CanRead(config, "output"))
                            /\ ~ZeroChunks(MakeConfigOf(config, 1))
                            /\ \E attempts \in 1..IntMax : conf = MakeConfigOf(config, attempts)
    /\ stage # "running" => conf = Nothing

\* The runs: a copy is made of config_ for the run it is made in.
CopyInv ==
    /\ runs \in 0..MaxRuns /\ misread \in BOOLEAN
    /\ copy = Nothing \/ /\ stage = "running"
                         /\ \E path, works : copy = make_config_copy(conf, path, works, runs)

Stages == {"received", "refused", "line", "linked", "ignored", "requested", "forked", "exec",
           "exit_failure", "terminated", "aborted", "running"}

ConfigInv == /\ stage \in Stages /\ request \in Requests
             /\ DaemonInv /\ LineInv /\ ProcessInv /\ CopyInv

\* The kind and the value of each sort of common::Value.
LEMMA KindFacts ==
    /\ \A i : Kind(Num(i)) = "int" /\ Val(Num(i)) = i
    /\ \A b : Kind(Bool(b)) = "bool" /\ Val(Bool(b)) = b
    /\ \A s : Kind(Str(s)) = "string" /\ Val(Str(s)) = s
    /\ \A l : Kind(List(l)) = "list" /\ Val(List(l)) = l
    /\ \A h : Kind(Hash(h)) = "hash" /\ Val(Hash(h)) = h
  BY DEF Kind, Val, Num, Bool, Str, List, Hash

\* Every value that is built has exactly one kind.
LEMMA ValueFacts ==
    /\ \A i \in Int : IsValue(Num(i))
    /\ \A b : IsValue(Bool(b))
    /\ \A s : IsValue(Str(s))
    /\ \A l : IsValue(List(l))
    /\ \A h : IsValue(Hash(h))
<1>1. ASSUME NEW x PROVE /\ Num(x) = [k \in {"int"} |-> x]
                         /\ Bool(x) = [k \in {"bool"} |-> x]
                         /\ Str(x) = [k \in {"string"} |-> x]
                         /\ List(x) = [k \in {"list"} |-> x]
                         /\ Hash(x) = [k \in {"hash"} |-> x]
  BY DEF Num, Bool, Str, List, Hash
<1>2. ASSUME NEW v, NEW K, NEW x, v = [k \in {K} |-> x], Kind(v) = K, Val(v) = x,
             K = "int" => x \in Int
      PROVE  IsValue(v)
  BY <1>2 DEF IsValue
<1>3. ASSUME NEW x \in Int PROVE IsValue(Num(x))
  BY <1>1, <1>2, KindFacts
<1>4. ASSUME NEW x PROVE IsValue(Bool(x)) /\ IsValue(Str(x)) /\ IsValue(List(x)) /\ IsValue(Hash(x))
  BY <1>1, <1>2, KindFacts
<1> QED
  BY <1>3, <1>4

\* json_object_get_int gives an integer.
LEMMA ClampIsInt == \A i \in Int : Clamp(i) \in Int
  BY IntMaxAssumption DEF Clamp

\* MakeValueFromJson gives each option a value with one kind.
LEMMA MadeValues ==
    ASSUME NEW r \in Requests, Kind(r) = "hash"
    PROVE  LET c == Val(MakeValueFromJson(r)) IN \A k \in DOMAIN c : IsValue(c[k])
<1> DEFINE c == Val(MakeValueFromJson(r))
<1>1. \A k \in DOMAIN Val(r) : IsValue(Val(r)[k])
  BY RequestsAssumption
<1>2. c = [k \in DOMAIN Val(r) |-> OptionFromJson(Val(r)[k])]
  BY KindFacts DEF MakeValueFromJson, Level
<1>3. ASSUME NEW v, IsValue(v) PROVE IsValue(OptionFromJson(v))
  <2>1. CASE Kind(v) = "int"
    <3>1. OptionFromJson(v) = Num(Clamp(Val(v)))
      BY <2>1 DEF OptionFromJson, Level
    <3>2. Clamp(Val(v)) \in Int
      BY <1>3, <2>1, ClampIsInt DEF IsValue
    <3> QED
      BY <3>1, <3>2, ValueFacts
  <2>2. CASE Kind(v) = "list"
    <3>1. OptionFromJson(v) = List([i \in DOMAIN Val(v) |-> UrlFromJson(Val(v)[i])])
      BY <2>2 DEF OptionFromJson, Level
    <3> QED
      BY <3>1, ValueFacts
  <2>3. CASE Kind(v) = "hash"
    <3>1. OptionFromJson(v) = Hash([k \in DOMAIN Val(v) |-> UrlFromJson(Val(v)[k])])
      BY <2>3 DEF OptionFromJson, Level
    <3> QED
      BY <3>1, ValueFacts
  <2>4. CASE Kind(v) \notin {"int", "list", "hash"}
    <3>1. OptionFromJson(v) = v
      BY <2>4 DEF OptionFromJson, Level
    <3> QED
      BY <1>3, <3>1
  <2> QED
    BY <2>1, <2>2, <2>3, <2>4
<1> HIDE DEF c
<1> QED
  BY <1>1, <1>2, <1>3 DEF c

\* The names of the options that options.cpp checks against a range.
LEMMA RangedNames ==
    RangedArgs = {"mfxh264enc.preset", "mfxh264enc.gop-size", "nvh264enc.preset", "nvh265enc.preset",
        "x264enc.speed-preset", "x264enc.threads", "x264enc.key-int-max", "x264enc.vbv-buf-capacity",
        "x264enc.rc-lookahead", "x264enc.qp-max", "x264enc.me", "vaapih264enc.keyframe-period",
        "vaapih264enc.max-bframes", "vaapih264enc.num-slices", "vaapih264enc.init-qp",
        "vaapih264enc.min-qp", "vaapih264enc.cpb-length"}
  BY DEF RangedArgs, EncoderRanges, GpuEncoderRanges, X264Ranges, VaapiRanges

\* No option has two validators.
LEMMA ArgsApart ==
    /\ RangedArgs \cap (AnyInteger \cup AnyString \cup Inverted \cup {"x264enc.tune"}) = {}
    /\ AnyInteger \cap (AnyString \cup Inverted \cup {"x264enc.tune"}) = {}
    /\ AnyString \cap (Inverted \cup {"x264enc.tune"}) = {}
    /\ "x264enc.tune" \notin Inverted
    /\ "type" \notin RangedArgs \cup AnyInteger \cup AnyString \cup Inverted \cup {"x264enc.tune"}
  BY RangedNames DEF AnyInteger, AnyString, Inverted

\* A configuration that no validator finds fatal has a type of fastotv.
LEMMA TypeRange ==
    ASSUME NEW c, ~FatalIn(c), Reads(c, "type", "int"), IsValue(c["type"])
    PROVE  Val(c["type"]) \in 0..13
<1> DEFINE v == c["type"]
<1>1. "type" \in DOMAIN c /\ Kind(v) = "int" /\ Val(v) \in Int
  BY DEF Reads, IsValue
<1>2. "type" \notin NotValidated \cup Durations \cup Rates \cup DOMAIN SupportedNames
  BY DEF NotValidated, NotValidatedArgs, Durations, Rates, SupportedNames
<1>3. Validity("type", v) = validate_type(v)
  BY <1>2, ArgsApart DEF Validity
<1>4. validate_type(v) # {"FATAL"}
  BY <1>1, <1>3 DEF FatalIn
<1>5. Len(TypeNames) - 1 = 13
  BY DEF TypeNames
<1>6. validate_range(v, 0, 13) = {"VALID"}
  BY <1>4, <1>5 DEF validate_type
<1>7. Val(v) >= 0 /\ Val(v) <= 13
  BY <1>6 DEF validate_range, Verdict
<1> QED
  BY <1>1, <1>7

\* What CreateChildStream lets through has a type a stream is made for.
LEMMA TypeMade ==
    ASSUME NEW c, ~FatalIn(c), Reads(c, "type", "int"), IsValue(c["type"]),
           TypeOf(c) \notin {"PROXY", "VOD_PROXY"}
    PROVE  TypeOf(c) \in MadeTypes
<1> DEFINE n == Val(c["type"])
<1>1. n \in 0..13
  BY TypeRange
<1>2. TypeOf(c) = TypeNames[n + 1]
  BY DEF TypeOf
<1> HIDE DEF n
<1>3. \A i \in 1..14 : TypeNames[i] \in MadeTypes \cup {"PROXY", "VOD_PROXY"}
  <2> SUFFICES ASSUME NEW i \in 1..14 PROVE TypeNames[i] \in MadeTypes \cup {"PROXY", "VOD_PROXY"}
    OBVIOUS
  <2>1. \/ i = 1 \/ i = 2 \/ i = 3 \/ i = 4 \/ i = 5 \/ i = 6 \/ i = 7
        \/ i = 8 \/ i = 9 \/ i = 10 \/ i = 11 \/ i = 12 \/ i = 13 \/ i = 14
    OBVIOUS
  <2> QED
    BY <2>1 DEF TypeNames, MadeTypes
<1>4. n + 1 \in 1..14
  BY <1>1
<1> QED
  BY <1>2, <1>3, <1>4

\* An option that is not touched is read as before.
LEMMA ReadsKept ==
    ASSUME NEW c, NEW d, NEW x, NEW kind, (x \in DOMAIN d) <=> (x \in DOMAIN c),
           x \in DOMAIN c => d[x] = c[x]
    PROVE  Reads(d, x, kind) <=> Reads(c, x, kind)
  BY DEF Reads

\* An option that is inserted besides changes nothing that was checked, and
\* MakeStreamInfo gives the same information.
LEMMA CheckedKept ==
    ASSUME NEW c, NEW k, NEW v, IsChecked(c), k \notin {"id", "type", "input", "output"}
    PROVE  /\ IsChecked(Insert(c, k, v)) /\ TypeOf(Insert(c, k, v)) = TypeOf(c)
           /\ MakeStreamInfo(Insert(c, k, v), TRUE) = MakeStreamInfo(c, TRUE)
<1> DEFINE d == Insert(c, k, v)
<1>1. DOMAIN d = DOMAIN c \cup {k} /\ \A x \in DOMAIN c : x # k => d[x] = c[x]
  BY DEF Insert
<1> HIDE DEF d
<1>2. \A x \in {"id", "type", "input", "output"} :
         /\ x \in DOMAIN d <=> x \in DOMAIN c
         /\ x \in DOMAIN c => d[x] = c[x]
  BY <1>1
<1>3. /\ Reads(d, "id", "string") /\ Reads(d, "type", "int") /\ CanRead(d, "input")
      /\ (CanRead(d, "output") <=> CanRead(c, "output"))
  BY <1>2, ReadsKept DEF IsChecked, CanRead
<1>4. d["id"] = c["id"] /\ d["type"] = c["type"] /\ d["input"] = c["input"]
  BY <1>2 DEF IsChecked, CanRead, Reads
<1>5. TypeOf(d) = TypeOf(c) /\ read_input(d) = read_input(c)
  BY <1>4 DEF TypeOf, read_input
<1>6. TypeOf(c) \notin RecorderTypes => read_output(d) = read_output(c)
  BY <1>2 DEF IsChecked, CanRead, Reads, read_output
<1>7. IsChecked(d)
  BY <1>3, <1>5 DEF IsChecked
<1>8. MakeStreamInfo(d, TRUE) = MakeStreamInfo(c, TRUE)
  BY <1>4, <1>5, <1>6 DEF MakeStreamInfo, RecorderTypes
<1> QED
  BY <1>5, <1>7, <1>8 DEF d

\* The class make_config chooses for each type of stream.
LEMMA ClassesOfTypes ==
    ASSUME NEW t \in MadeTypes
    PROVE  /\ ClassOf(t) \in {"AudioVideoConfig", "RelayConfig", "VodRelayConfig", "EncodeConfig",
                              "VodEncodeConfig", "TimeshiftConfig"}
           /\ (ClassOf(t) = "TimeshiftConfig" <=> t \in RecorderTypes)
           /\ (ClassOf(t) \in {"VodRelayConfig", "VodEncodeConfig"} <=> t \in VodTypes)
  BY DEF MadeTypes, ClassOf, RecorderTypes, VodTypes

\* A TimeshiftConfig has a chunk duration, by default 120.
LEMMA DurationField ==
    /\ "timeshift_chunk_duration" \in DOMAIN DefaultsOf("TimeshiftConfig")
    /\ DefaultsOf("TimeshiftConfig")["timeshift_chunk_duration"] = Num(120)
<1> DEFINE k == "timeshift_chunk_duration"
           D == Joined(RelayDefaults, TimeshiftDefaults)
<1>1. DefaultsOf("TimeshiftConfig") = Joined(AudioVideoDefaults, D)
  BY DEF DefaultsOf
<1>2. k \in DOMAIN TimeshiftDefaults /\ TimeshiftDefaults[k] = Num(120)
  BY DEF TimeshiftDefaults
<1>3. k \notin DOMAIN RelayDefaults /\ k \notin DOMAIN AudioVideoDefaults
  BY DEF RelayDefaults, AudioVideoDefaults
<1>4. k \in DOMAIN D /\ D[k] = Num(120)
  BY <1>2, <1>3 DEF Joined
<1> HIDE DEF D
<1> QED
  BY <1>1, <1>3, <1>4 DEF Joined

\* The configurations of vods have cleanup_ts.
LEMMA CleanupField ==
    ASSUME NEW class \in {"VodRelayConfig", "VodEncodeConfig"}
    PROVE  "cleanup_ts" \in DOMAIN DefaultsOf(class)
<1>1. "cleanup_ts" \in DOMAIN VodDefaults
  BY DEF VodDefaults
<1>3. CASE class = "VodRelayConfig"
  <2>1. DefaultsOf(class) = Joined(AudioVideoDefaults, Joined(RelayDefaults, VodDefaults))
    BY <1>3 DEF DefaultsOf
  <2>2. "cleanup_ts" \in DOMAIN Joined(RelayDefaults, VodDefaults)
    BY <1>1 DEF Joined
  <2> QED
    BY <2>1, <2>2 DEF Joined
<1>4. CASE class = "VodEncodeConfig"
  <2>1. DefaultsOf(class) = Joined(AudioVideoDefaults, Joined(EncodeDefaults, VodDefaults))
    BY <1>4 DEF DefaultsOf
  <2>2. "cleanup_ts" \in DOMAIN Joined(EncodeDefaults, VodDefaults)
    BY <1>1 DEF Joined
  <2> QED
    BY <2>1, <2>2 DEF Joined
<1> QED
  BY <1>3, <1>4

\* Every validated option of an encoder is in the tables of
\* InitVideoEncodersWithArgs, and these hold no other options.
LEMMA TablesAgree ==
    /\ RangedArgs \cup AnyInteger \cup {"x264enc.tune"} \subseteq IntArgs
    /\ AnyString \subseteq StrArgs
    /\ IntArgs \cup StrArgs \cup FlagArgs \subseteq EncoderOptions
<1>2. RangedArgs \cup AnyInteger \cup {"x264enc.tune"} \subseteq IntArgs
  BY RangedNames DEF AnyInteger, IntArgs
<1>3. AnyString \subseteq StrArgs
  BY DEF AnyString, StrArgs
<1>4. IntArgs \cup StrArgs \cup FlagArgs \subseteq EncoderOptions
  BY RangedNames DEF IntArgs, StrArgs, FlagArgs, EncoderOptions, Inverted, AnyInteger, AnyString, NotValidatedArgs
<1> QED
  BY <1>2, <1>3, <1>4

\* The options of encoders are none of the general options of FindOption.
LEMMA NamesApart ==
    ASSUME NEW k \in IntArgs \cup StrArgs, k \notin NotValidatedArgs
    PROVE  /\ k \notin NotValidated \cup Durations \cup Rates \cup DOMAIN SupportedNames
           /\ k \notin {"id", "type", "feedback_directory", "log_level", "input", "output",
                        "restart_attempts", "timeshift_dir", "timeshift_chunk_life_time",
                        "timeshift_delay", "volume", "size", "cleanup_ts", "framerate",
                        "aspect_ratio", "audio_select", "decklink_video_mode"}
  BY DEF IntArgs, StrArgs, NotValidated, Durations, Rates, SupportedNames

\* An option of an encoder that its validator does not refuse has the kind
\* CheckAndSetValue reads it with.
LEMMA ValidatedArg ==
    ASSUME NEW k \in EncoderOptions \ (NotValidatedArgs \cup Inverted), NEW v,
           ~(Validity(k, v) \subseteq {"INVALID", "UNKNOWN"})
    PROVE  \/ k \in IntArgs /\ Kind(v) = "int"
           \/ k \in StrArgs /\ Kind(v) = "string"
<1>1. \/ k \in RangedArgs \cup AnyInteger \cup {"x264enc.tune"}
      \/ k \in AnyString
  BY DEF EncoderOptions
<1>2. k \in IntArgs \cup StrArgs /\ k \notin Inverted
  BY <1>1, TablesAgree
<1> DEFINE Found ==
      CASE k \in RangedArgs -> validate_range(v, RangeOf(k)[2], RangeOf(k)[3])
        [] k = "x264enc.tune" -> validate_x264_tune(v)
        [] k \in Inverted -> validate_inverted(v)
        [] k \in AnyInteger -> dummy_validator_integer(v)
        [] k \in AnyString -> dummy_validator_string(v)
        [] OTHER -> {"UNKNOWN"}
<1>3. Validity(k, v) = Found
  BY <1>2, NamesApart DEF Validity
<1>4. CASE k \in RangedArgs
  <2>1. Found = validate_range(v, RangeOf(k)[2], RangeOf(k)[3])
    BY <1>4, ArgsApart
  <2>2. Kind(v) = "int"
    BY <1>3, <2>1 DEF validate_range, Verdict
  <2> QED
    BY <1>4, <2>2, TablesAgree
<1>5. CASE k \notin RangedArgs /\ k = "x264enc.tune"
  <2>1. Found = validate_x264_tune(v)
    BY <1>5, ArgsApart
  <2>2. Kind(v) = "int"
    BY <1>3, <2>1 DEF validate_x264_tune, IsInt, Verdict
  <2> QED
    BY <1>5, <2>2, TablesAgree
<1>6. CASE k \notin RangedArgs /\ k # "x264enc.tune" /\ k \in AnyInteger
  <2>1. Found = dummy_validator_integer(v)
    BY <1>2, <1>6, ArgsApart
  <2>2. Kind(v) = "int"
    BY <1>3, <2>1 DEF dummy_validator_integer, validate_range, Verdict
  <2> QED
    BY <1>6, <2>2, TablesAgree
<1>7. CASE k \notin RangedArgs \cup AnyInteger \cup {"x264enc.tune"} /\ k \in AnyString
  <2>1. Found = dummy_validator_string(v)
    BY <1>2, <1>7, ArgsApart
  <2>2. Kind(v) = "string"
    BY <1>3, <2>1 DEF dummy_validator_string, Verdict
  <2> QED
    BY <1>7, <2>2, TablesAgree
<1> QED
  BY <1>1, <1>4, <1>5, <1>6, <1>7

\* The CHECK of make_config fails exactly for a recorder whose request holds a
\* chunk duration of zero.
LEMMA DurationRead ==
    ASSUME NEW c, \A k \in DOMAIN c : IsValue(c[k]), TypeOf(c) \in MadeTypes, NEW a
    PROVE  ZeroChunks(MakeConfigOf(c, a)) <=> ZeroDuration(c)
<1> DEFINE k == "timeshift_chunk_duration"
           made == MakeConfigOf(c, a)
<1>1. made.class = ClassOf(TypeOf(c)) /\ made.fields = ReadFields(c, DefaultsOf(made.class))
  BY DEF MakeConfigOf
<1>2. made.class = "TimeshiftConfig" <=> TypeOf(c) \in {"TIMESHIFT_RECORDER", "CATCHUP"}
  BY <1>1, ClassesOfTypes DEF RecorderTypes
<1> HIDE DEF made
<1>3. SUFFICES ASSUME made.class = "TimeshiftConfig"
               PROVE  Val(made.fields[k]) = 0 <=> k \in DOMAIN c /\ c[k] = Num(0)
  BY <1>2, <1>3 DEF ZeroChunks, ZeroDuration, made
<1>4. made.fields[k] = ReadField(c, k, Num(120))
  BY <1>1, <1>3, DurationField DEF ReadFields
<1>5. KindOf(k) = "int" /\ Parses(k, c[k])
  BY DEF KindOf, Parses
<1>6. Reads(c, k, "int") <=> k \in DOMAIN c /\ Kind(c[k]) = "int"
  BY DEF Reads
<1>7. Val(Num(120)) = 120 /\ Val(Num(0)) = 0 /\ Kind(Num(0)) = "int"
  BY KindFacts
<1>8. CASE Reads(c, k, "int")
  <2>1. made.fields[k] = c[k]
    BY <1>4, <1>5, <1>8 DEF ReadField
  <2>2. c[k] = [x \in {"int"} |-> Val(c[k])]
    BY <1>6, <1>8 DEF IsValue
  <2>3. Val(c[k]) = 0 => c[k] = [x \in {"int"} |-> 0]
    BY <2>2
  <2>4. Num(0) = [x \in {"int"} |-> 0]
    BY DEF Num
  <2> QED
    BY <1>6, <1>7, <1>8, <2>1, <2>3, <2>4
<1>9. CASE ~Reads(c, k, "int")
  <2>1. made.fields[k] = Num(120)
    BY <1>4, <1>5, <1>9 DEF ReadField
  <2>2. ~(k \in DOMAIN c /\ c[k] = Num(0))
    BY <1>6, <1>7, <1>9
  <2> QED
    BY <1>7, <2>1, <2>2
<1> QED
  BY <1>8, <1>9

\* cleanup_ts is read as AddStreamLine has set it.
LEMMA CleanupRead ==
    ASSUME NEW c, NEW class \in {"VodRelayConfig", "VodEncodeConfig"},
           "cleanup_ts" \in DOMAIN c, c["cleanup_ts"] = Bool(FALSE)
    PROVE  ReadFields(c, DefaultsOf(class))["cleanup_ts"] = Bool(FALSE)
<1> DEFINE k == "cleanup_ts"
           default == DefaultsOf(class)[k]
<1>1. ReadFields(c, DefaultsOf(class))[k] = ReadField(c, k, default)
  BY CleanupField DEF ReadFields
<1> HIDE DEF default
<1>2. KindOf(k) = "bool" /\ Parses(k, c[k])
  BY DEF KindOf, Parses
<1>3. Reads(c, k, "bool")
  BY KindFacts DEF Reads
<1>4. ReadField(c, k, default) = c[k]
  BY <1>2, <1>3 DEF ReadField
<1> QED
  BY <1>1, <1>4

\* The arguments of an encoder are options of the request.
LEMMA ArgsOfConfig ==
    ASSUME NEW c
    PROVE  DOMAIN InitVideoEncodersWithArgs(c) \subseteq DOMAIN c \cap EncoderOptions
<1> DEFINE S == CheckAndSetValue(c, IntArgs, "int") \cup CheckAndSetValue(c, StrArgs, "string")
           F == {f \in FlagArgs : Reads(c, f, "bool") /\ Val(c[f])}
           args == InitVideoEncodersWithArgs(c)
<1>1. args = Joined([k \in S |-> c[k]], [k \in F |-> Num(1)])
  BY DEF InitVideoEncodersWithArgs
<1>2. S \cup F \subseteq DOMAIN c /\ S \subseteq IntArgs \cup StrArgs /\ F \subseteq FlagArgs
  BY DEF CheckAndSetValue, Reads
<1> HIDE DEF S, F, args
<1>3. DOMAIN args = S \cup F
  BY <1>1 DEF Joined
<1>4. DOMAIN args \subseteq DOMAIN c \cap EncoderOptions
  BY <1>2, <1>3, TablesAgree
<1> QED
  BY <1>4 DEF args

\* An option of the right kind becomes an argument with its value.
LEMMA ArgIsRead ==
    ASSUME NEW c, NEW k, \/ k \in IntArgs /\ Reads(c, k, "int")
                         \/ k \in StrArgs /\ Reads(c, k, "string")
    PROVE  /\ k \in DOMAIN InitVideoEncodersWithArgs(c)
           /\ InitVideoEncodersWithArgs(c)[k] = c[k]
<1> DEFINE S == CheckAndSetValue(c, IntArgs, "int") \cup CheckAndSetValue(c, StrArgs, "string")
           F == {f \in FlagArgs : Reads(c, f, "bool") /\ Val(c[f])}
           args == InitVideoEncodersWithArgs(c)
<1>1. args = Joined([x \in S |-> c[x]], [x \in F |-> Num(1)])
  BY DEF InitVideoEncodersWithArgs
<1>2. k \in S
  BY DEF CheckAndSetValue
<1> HIDE DEF S, F
<1>3. k \in DOMAIN args /\ args[k] = c[k]
  BY <1>1, <1>2 DEF Joined
<1> QED
  BY <1>3

\* An option of an encoder the log has not warned of is an argument.
LEMMA UnwarnedArgs ==
    ASSUME NEW c, NEW W, Unwarned(c, W),
           NEW k \in (DOMAIN c \cap EncoderOptions) \ (NotValidatedArgs \cup Inverted \cup W)
    PROVE  /\ k \in DOMAIN InitVideoEncodersWithArgs(c)
           /\ InitVideoEncodersWithArgs(c)[k] = c[k]
<1>1. k # "stream_link_path"
  BY RangedNames DEF EncoderOptions, NotValidatedArgs, AnyInteger, AnyString, Inverted
<1>2. ~(Validity(k, c[k]) \subseteq {"INVALID", "UNKNOWN"})
  BY <1>1 DEF Unwarned
<1>3. \/ k \in IntArgs /\ Kind(c[k]) = "int"
      \/ k \in StrArgs /\ Kind(c[k]) = "string"
  BY <1>2, ValidatedArg
<1>4. \/ k \in IntArgs /\ Reads(c, k, "int")
      \/ k \in StrArgs /\ Reads(c, k, "string")
  BY <1>3 DEF Reads
<1> QED
  BY <1>4, ArgIsRead

\* An input that was read is a uri of no run; a link generated for it keeps
\* the uri of the request.
LEMMA UrlsOfInput ==
    ASSUME NEW c, NEW i \in DOMAIN read_input(c)
    PROVE  /\ IsUri(read_input(c)[i]) /\ read_input(c)[i].run = 0
           /\ \A path, works, run :
                 /\ Generate(read_input(c)[i], path, works, run).uri = read_input(c)[i].uri
                 /\ Generate(read_input(c)[i], path, works, run).run \in {0, run}
<1> DEFINE u == read_input(c)[i]
<1>1. PICK h : u = MakeUrl(h)
  BY DEF read_input, ConvertFromString
<1>2. DOMAIN u = {"uri", "run", "streamlink", "http_root"} /\ u.run = 0
  <2>1. DOMAIN MakeUrl(h) = {"uri", "run", "streamlink", "http_root"}
    BY Zenon DEF MakeUrl
  <2>2. MakeUrl(h).run = 0
    BY DEF MakeUrl
  <2> QED
    BY <1>1, <2>1, <2>2
<1> HIDE DEF u
<1>3. ASSUME NEW path, NEW works, NEW run
      PROVE  /\ Generate(u, path, works, run).uri = u.uri
             /\ Generate(u, path, works, run).run \in {0, run}
  BY <1>2 DEF Generate
<1> QED
  BY <1>2, <1>3 DEF u, IsUri

\* The invariant holds when a request arrives.
LEMMA ConfigInitInv == InitConfig => ConfigInv
<1> SUFFICES ASSUME InitConfig PROVE ConfigInv
  OBVIOUS
<1> USE DEF InitConfig
<1>1. stage \in Stages /\ stage \notin Forked /\ stage \notin Execed /\ stage # "running"
      /\ stage \notin {"linked", "requested"} /\ stage \notin {"terminated", "aborted"}
  BY DEF Stages, Forked, Execed
<1>2. DaemonInv
  BY <1>1 DEF DaemonInv, EmptyConfig
<1>3. LineInv
  BY <1>1 DEF LineInv
<1>4. ProcessInv
  BY <1>1 DEF ProcessInv
<1>5. CopyInv
  <2>1. runs \in 0..MaxRuns
    BY MaxRunsAssumption
  <2>2. misread \in BOOLEAN /\ copy = Nothing
    OBVIOUS
  <2> QED
    BY <2>1, <2>2 DEF CopyInv
<1> QED
  BY <1>1, <1>2, <1>3, <1>4, <1>5 DEF ConfigInv

\* A step of the daemon before the fork keeps the invariant if it keeps the
\* values of the options and what a synchronisation has set.
LEMMA BeforeTheFork ==
    ASSUME ConfigInv, stage \in {"received", "line", "linked", "requested"},
           stage' \in {"line", "linked", "requested", "refused", "ignored"},
           \A k \in DOMAIN config' : IsValue(config'[k]), LineInv',
           UNCHANGED <<request, warned, dinfo, pinfo, conf, copy, runs, misread>>
    PROVE  ConfigInv'
<1>1. /\ stage \notin Forked /\ stage' \notin Forked /\ stage' \in Stages
      /\ stage \notin Execed /\ stage' \notin Execed
      /\ stage # "running" /\ stage' \notin {"running", "terminated", "aborted"}
  BY DEF Forked, Execed, Stages
<1>2. dinfo = Nothing /\ warned = {} /\ pinfo = Nothing /\ conf = Nothing /\ copy = Nothing
  BY <1>1 DEF ConfigInv, DaemonInv, ProcessInv, CopyInv
<1>3. DaemonInv'
  BY <1>1, <1>2 DEF DaemonInv
<1>4. ProcessInv'
  BY <1>1, <1>2 DEF ProcessInv
<1>5. CopyInv'
  BY <1>1, <1>2 DEF ConfigInv, CopyInv
<1>6. request' \in Requests
  BY DEF ConfigInv
<1> QED
  BY <1>1, <1>3, <1>4, <1>5, <1>6 DEF ConfigInv

\* Parsing the request keeps the invariant.
LEMMA MakeConfigFromJsonStep ==
    ASSUME ConfigInv, MakeConfigFromJson PROVE ConfigInv'
<1>1. stage = "received" /\ UNCHANGED <<request, via, warned, dinfo, pinfo, conf, copy, runs, misread>>
  BY DEF MakeConfigFromJson
<1>2. request \in Requests /\ \A k \in DOMAIN config : IsValue(config[k])
  BY DEF ConfigInv, DaemonInv
<1>3. \A k \in DOMAIN config' : IsValue(config'[k])
  <2>1. CASE Kind(request) = "hash"
    BY <1>2, <2>1, MadeValues DEF MakeConfigFromJson
  <2>2. CASE Kind(request) # "hash"
    BY <1>2, <2>2 DEF MakeConfigFromJson
  <2> QED
    BY <2>1, <2>2
<1>4. stage' \in {"line", "requested", "refused"} /\ (stage' = "requested" => via # "sync")
  BY DEF MakeConfigFromJson
<1>5. LineInv'
  BY <1>1, <1>4 DEF LineInv, Forked
<1> QED
  BY <1>1, <1>3, <1>4, <1>5, BeforeTheFork

\* A line of a synchronisation keeps the invariant: a vod keeps its files.
LEMMA AddStreamLineStep ==
    ASSUME ConfigInv, AddStreamLine PROVE ConfigInv'
<1>1. stage = "line" /\ UNCHANGED <<request, via, warned, dinfo, pinfo, conf, copy, runs, misread>>
  BY DEF AddStreamLine
<1>2. \A k \in DOMAIN config : IsValue(config[k])
  BY DEF ConfigInv, DaemonInv
<1> DEFINE d == Insert(config, "cleanup_ts", Bool(FALSE))
<1>3. /\ stage' \in {"linked", "ignored"}
      /\ config' \in {config, d}
      /\ stage' = "linked" => /\ "type" \in DOMAIN config
                              /\ (TypeOf(config) \in VodTypes => config' = d)
  BY DEF AddStreamLine, StreamInfoOk, Reads, VodTypes
<1>4. /\ DOMAIN d = DOMAIN config \cup {"cleanup_ts"} /\ d["cleanup_ts"] = Bool(FALSE)
      /\ \A x \in DOMAIN config : x # "cleanup_ts" => d[x] = config[x]
  BY DEF Insert
<1> HIDE DEF d
<1>5. \A k \in DOMAIN d : IsValue(d[k])
  BY <1>2, <1>4, ValueFacts
<1>6. \A k \in DOMAIN config' : IsValue(config'[k])
  BY <1>2, <1>3, <1>5
<1>7. LineInv'
  <2> SUFFICES ASSUME stage' = "linked"
               PROVE  /\ "type" \in DOMAIN config'
                      /\ (TypeOf(config') \in VodTypes => /\ "cleanup_ts" \in DOMAIN config'
                                                          /\ config'["cleanup_ts"] = Bool(FALSE))
    BY <1>3 DEF LineInv, Forked
  <2>1. "type" \in DOMAIN config /\ "type" \in DOMAIN d /\ d["type"] = config["type"]
    BY <1>3, <1>4
  <2>2. TypeOf(d) = TypeOf(config)
    BY <2>1 DEF TypeOf
  <2>3. CASE config' = d
    BY <1>4, <2>1, <2>3
  <2>4. CASE config' = config
    BY <1>3, <1>4, <2>1, <2>4
  <2> QED
    BY <1>3, <2>3, <2>4
<1> QED
  BY <1>1, <1>3, <1>6, <1>7, BeforeTheFork

\* The http request for a link keeps the invariant.
LEMMA RequestLinkStep ==
    ASSUME ConfigInv, RequestLink PROVE ConfigInv'
<1>1. /\ stage = "linked" /\ stage' = "requested"
      /\ UNCHANGED <<request, via, config, warned, dinfo, pinfo, conf, copy, runs, misread>>
  BY DEF RequestLink
<1>2. LineInv /\ \A k \in DOMAIN config' : IsValue(config'[k])
  BY <1>1 DEF ConfigInv, DaemonInv
<1>3. LineInv'
  BY <1>1, <1>2 DEF LineInv
<1> QED
  BY <1>1, <1>2, <1>3, BeforeTheFork

\* Validation and fork keep the invariant: what the process will rely on has
\* been checked, and what a validator refuses has been warned of.
LEMMA CreateChildStreamStep ==
    ASSUME ConfigInv, CreateChildStream PROVE ConfigInv'
<1>1. stage = "requested" /\ UNCHANGED <<request, via, pinfo, conf, copy, runs, misread>>
  BY DEF CreateChildStream
<1>2. \A k \in DOMAIN config : IsValue(config[k])
  BY DEF ConfigInv, DaemonInv
<1>3. CASE stage' = "refused"
  <2>1. UNCHANGED <<config, warned, dinfo>>
    BY <1>3 DEF CreateChildStream
  <2>2. LineInv'
    BY <1>3 DEF LineInv, Forked
  <2> QED
    BY <1>1, <1>2, <1>3, <2>1, <2>2, BeforeTheFork
<1>4. CASE stage' # "refused"
  <2>1. PICK bad \in DirFailures(config), W \in Warnings(config), path \in LinkPaths :
          /\ ~FatalIn(config) /\ StreamInfoOk(config, TRUE, bad)
          /\ stage' = "forked" /\ warned' = W
          /\ dinfo' = MakeStreamInfo(config, TRUE)
          /\ config' = Insert(config, "stream_link_path", Str(path))
    BY <1>4 DEF CreateChildStream
  <2>2. IsChecked(config)
    <3>1. Reads(config, "id", "string") /\ Reads(config, "type", "int") /\ CanRead(config, "input")
      BY <2>1 DEF StreamInfoOk
    <3>2. TypeOf(config) \in MadeTypes
      <4>1. IsValue(config["type"]) /\ TypeOf(config) \notin {"PROXY", "VOD_PROXY"}
        BY <1>2, <2>1, <3>1 DEF StreamInfoOk, Reads
      <4> QED
        BY <2>1, <3>1, <4>1, TypeMade
    <3>3. TypeOf(config) \notin RecorderTypes => CanRead(config, "output")
      BY <2>1 DEF StreamInfoOk, FoldersOk, RecorderTypes
    <3> QED
      BY <3>1, <3>2, <3>3 DEF IsChecked
  <2>3. /\ IsChecked(config') /\ TypeOf(config') = TypeOf(config)
        /\ MakeStreamInfo(config', TRUE) = MakeStreamInfo(config, TRUE)
    BY <2>1, <2>2, CheckedKept
  <2>4. /\ DOMAIN config' = DOMAIN config \cup {"stream_link_path"}
        /\ config'["stream_link_path"] = Str(path)
        /\ \A x \in DOMAIN config : x # "stream_link_path" => config'[x] = config[x]
    BY <2>1 DEF Insert
  <2>5. \A k \in DOMAIN config' : IsValue(config'[k])
    BY <1>2, <2>4, ValueFacts
  <2>6. W \subseteq DOMAIN config /\ \A k \in DOMAIN config :
           Validity(k, config[k]) \subseteq {"INVALID", "UNKNOWN"} => k \in W
    BY DEF Warnings
  <2>7. Unwarned(config', W) /\ W \subseteq DOMAIN config'
    BY <2>4, <2>6 DEF Unwarned
  <2>8. stage' \in Forked \cap Stages /\ stage' \notin Execed
        /\ stage' \notin {"running", "terminated", "aborted"}
        /\ stage \notin Execed /\ stage # "running"
    BY <1>1, <2>1 DEF Forked, Stages, Execed
  <2>9. DaemonInv'
    BY <2>1, <2>3, <2>5, <2>7, <2>8 DEF DaemonInv
  <2>10. LineInv'
    <3> SUFFICES ASSUME via = "sync"
                 PROVE  /\ "type" \in DOMAIN config'
                        /\ (TypeOf(config') \in VodTypes => /\ "cleanup_ts" \in DOMAIN config'
                                                            /\ config'["cleanup_ts"] = Bool(FALSE))
      BY <1>1 DEF LineInv
    <3>1. /\ "type" \in DOMAIN config
          /\ (TypeOf(config) \in VodTypes => /\ "cleanup_ts" \in DOMAIN config
                                             /\ config["cleanup_ts"] = Bool(FALSE))
      BY <1>1 DEF ConfigInv, LineInv
    <3> QED
      BY <2>3, <2>4, <3>1
  <2>11. pinfo = Nothing /\ conf = Nothing /\ copy = Nothing
    BY <2>8 DEF ConfigInv, ProcessInv, CopyInv
  <2>12. ProcessInv'
    BY <1>1, <2>8, <2>11 DEF ProcessInv
  <2>13. CopyInv'
    BY <1>1, <2>11 DEF ConfigInv, CopyInv
  <2>14. request' \in Requests
    BY <1>1 DEF ConfigInv
  <2> QED
    BY <2>8, <2>9, <2>10, <2>12, <2>13, <2>14 DEF ConfigInv
<1> QED
  BY <1>3, <1>4

\* The process makes the information of the daemon again.
LEMMA StreamExecStep ==
    ASSUME ConfigInv, StreamExec PROVE ConfigInv'
<1>1. /\ stage = "forked"
      /\ UNCHANGED <<request, via, config, warned, dinfo, conf, tinfo, copy, runs, misread>>
  BY DEF StreamExec
<1>2. \/ stage' = "exec" /\ pinfo' = MakeStreamInfo(config, TRUE)
      \/ stage' = "exit_failure" /\ pinfo' = pinfo
  BY DEF StreamExec
<1>3. /\ stage \in Forked /\ stage' \in Forked \cap Stages /\ stage \notin Execed
      /\ (stage' \in Execed <=> stage' = "exec")
      /\ stage # "running" /\ stage' \notin {"running", "terminated", "aborted"}
  BY <1>1, <1>2 DEF Forked, Stages, Execed
<1>4. dinfo = MakeStreamInfo(config, TRUE) /\ pinfo = Nothing /\ conf = Nothing /\ copy = Nothing
  BY <1>3 DEF ConfigInv, DaemonInv, ProcessInv, CopyInv
<1>5. DaemonInv'
  BY <1>1, <1>3 DEF ConfigInv, DaemonInv
<1>6. LineInv'
  BY <1>1, <1>3 DEF ConfigInv, LineInv
<1>7. ProcessInv'
  BY <1>1, <1>2, <1>3, <1>4 DEF ProcessInv
<1>8. CopyInv'
  BY <1>1, <1>4 DEF ConfigInv, CopyInv
<1>9. request' \in Requests
  BY <1>1 DEF ConfigInv
<1> QED
  BY <1>3, <1>5, <1>6, <1>7, <1>8, <1>9 DEF ConfigInv

\* make_config ends the process only for the reasons the invariant names.
LEMMA InitControllerStep ==
    ASSUME ConfigInv, InitController PROVE ConfigInv'
<1>1. /\ stage = "exec"
      /\ UNCHANGED <<request, via, config, warned, dinfo, pinfo, copy, runs, misread>>
  BY DEF InitController
<1> DEFINE NoOutputs == NeedsOutput(config) /\ ~CanRead(config, "output")
<1>2. PICK a \in RestartAttempts(config) :
        \/ stage' = "terminated" /\ NoOutputs /\ conf' = conf
        \/ /\ stage' = "aborted" /\ conf' = conf
           /\ a <= 0 \/ ZeroChunks(MakeConfigOf(config, a))
        \/ /\ stage' = "running" /\ ~NoOutputs
           /\ ~(a <= 0) /\ ~ZeroChunks(MakeConfigOf(config, a))
           /\ conf' = MakeConfigOf(config, a)
  BY DEF InitController, ZeroChunks
<1> HIDE DEF NoOutputs
<1>3. /\ stage \in Forked /\ stage' \in Forked \cap Stages /\ stage \in Execed /\ stage' \in Execed
      /\ stage # "running"
  BY <1>1, <1>2 DEF Forked, Stages, Execed
<1>4. conf = Nothing /\ copy = Nothing /\ pinfo = dinfo
  BY <1>3 DEF ConfigInv, ProcessInv, CopyInv
<1>5. /\ \A k \in DOMAIN config : IsValue(config[k])
      /\ TypeOf(config) \in MadeTypes
  BY <1>3 DEF ConfigInv, DaemonInv, IsChecked
<1>6. ZeroChunks(MakeConfigOf(config, a)) <=> ZeroChunks(MakeConfigOf(config, 1))
  BY <1>5, DurationRead
<1>7. a \in {0, 10, 11} /\ (a = 0 => AttemptsNoInteger(config))
  BY DEF RestartAttempts, AttemptsNoInteger, kDefaultRestartAttempts
<1>8. DaemonInv'
  BY <1>1, <1>3 DEF ConfigInv, DaemonInv
<1>9. LineInv'
  BY <1>1, <1>3 DEF ConfigInv, LineInv
<1>10. ProcessInv'
  <2>1. CASE stage' = "terminated"
    BY <1>1, <1>2, <1>3, <1>4, <2>1 DEF ProcessInv, NoOutputs
  <2>2. CASE stage' = "aborted"
    <3>1. AttemptsNoInteger(config) \/ ZeroChunks(MakeConfigOf(config, 1))
      BY <1>2, <1>6, <1>7, <2>2
    <3>2. conf' = Nothing
      BY <1>2, <1>4, <2>2
    <3> QED
      BY <1>1, <1>3, <1>4, <2>2, <3>1, <3>2 DEF ProcessInv
  <2>3. CASE stage' = "running"
    <3>1. ~NoOutputs /\ ~ZeroChunks(MakeConfigOf(config, 1)) /\ conf' = MakeConfigOf(config, a)
      BY <1>2, <1>6, <2>3
    <3>2. a \in 1..IntMax
      BY <1>2, <1>7, <2>3, IntMaxAssumption
    <3>3. \E attempts \in 1..IntMax : conf' = MakeConfigOf(config, attempts)
      BY <3>1, <3>2
    <3> QED
      BY <1>1, <1>3, <1>4, <2>3, <3>1, <3>3 DEF ProcessInv, NoOutputs
  <2> QED
    BY <1>2, <2>1, <2>2, <2>3
<1>11. CopyInv'
  BY <1>1, <1>4 DEF ConfigInv, CopyInv
<1>12. request' \in Requests
  BY <1>1 DEF ConfigInv
<1> QED
  BY <1>3, <1>8, <1>9, <1>10, <1>11, <1>12 DEF ConfigInv

\* A run works on a copy: config_ stays as make_config made it.
LEMMA RunStreamStep ==
    ASSUME ConfigInv, RunStream PROVE ConfigInv'
<1>1. /\ stage = "running" /\ runs < MaxRuns /\ runs' = runs + 1 /\ misread' \in BOOLEAN
      /\ UNCHANGED <<request, via, stage, config, warned, dinfo, pinfo, conf, tinfo>>
  BY DEF RunStream
<1>2. \E path, works : copy' = make_config_copy(conf, path, works, runs + 1)
  BY DEF RunStream
<1>3. CopyInv'
  BY <1>1, <1>2, MaxRunsAssumption DEF ConfigInv, CopyInv
<1>4. DaemonInv' /\ LineInv'
  BY <1>1 DEF ConfigInv, DaemonInv, LineInv
<1>5. ProcessInv'
  BY <1>1 DEF ConfigInv, ProcessInv
<1> QED
  BY <1>1, <1>3, <1>4, <1>5 DEF ConfigInv

\* The inductive invariant of a configuration holds in every reachable state.
THEOREM ConfigInvHolds == SpecConfig => []ConfigInv
<1>1. ConfigInv /\ [NextConfig]_config_vars => ConfigInv'
  <2> SUFFICES ASSUME ConfigInv, [NextConfig]_config_vars PROVE ConfigInv'
    OBVIOUS
  <2>1. CASE UNCHANGED config_vars
    BY <2>1 DEF config_vars, ConfigInv, DaemonInv, LineInv, ProcessInv, CopyInv
  <2>2. CASE Done
    BY <2>1, <2>2 DEF Done
  <2>3. CASE MakeConfigFromJson
    BY <2>3, MakeConfigFromJsonStep
  <2>4. CASE AddStreamLine
    BY <2>4, AddStreamLineStep
  <2>5. CASE RequestLink
    BY <2>5, RequestLinkStep
  <2>6. CASE CreateChildStream
    BY <2>6, CreateChildStreamStep
  <2>7. CASE StreamExec
    BY <2>7, StreamExecStep
  <2>8. CASE InitController
    BY <2>8, InitControllerStep
  <2>9. CASE RunStream
    BY <2>9, RunStreamStep
  <2> QED
    BY <2>1, <2>2, <2>3, <2>4, <2>5, <2>6, <2>7, <2>8, <2>9 DEF NextConfig
<1> QED
  BY <1>1, ConfigInitInv, PTL DEF SpecConfig

\* For every set of requests: a process terminates only for a recorder with
\* several inputs and no outputs, a CHECK of make_config fails only for a chunk
\* duration of zero or restart attempts that are no integer, and neither a
\* recorder without its outputs nor one with a zero duration ever runs.
THEOREM AcceptedConfigurationsRun == SpecConfig => []AcceptedConfigurationRuns
<1>1. ConfigInv => AcceptedConfigurationRuns
  <2> SUFFICES ASSUME ConfigInv PROVE AcceptedConfigurationRuns
    OBVIOUS
  <2>1. stage \in {"terminated", "aborted", "running"} =>
           /\ \A k \in DOMAIN config : IsValue(config[k])
           /\ IsChecked(config) /\ TypeOf(config) \in MadeTypes
    BY DEF ConfigInv, DaemonInv, Forked, IsChecked
  <2>2. ASSUME stage = "terminated" PROVE BadRecorder(config)
    <3>1. NeedsOutput(config) /\ ~CanRead(config, "output")
      BY <2>2 DEF ConfigInv, ProcessInv
    <3>2. TypeOf(config) \in RecorderTypes
      BY <2>1, <2>2, <3>1 DEF IsChecked
    <3> QED
      BY <3>1, <3>2 DEF BadRecorder, NeedsOutput, RecorderTypes
  <2>3. ASSUME stage = "aborted" PROVE ZeroDuration(config) \/ AttemptsNoInteger(config)
    <3>1. AttemptsNoInteger(config) \/ ZeroChunks(MakeConfigOf(config, 1))
      BY <2>3 DEF ConfigInv, ProcessInv
    <3> QED
      BY <2>1, <2>3, <3>1, DurationRead
  <2>4. ASSUME stage = "running" PROVE ~BadRecorder(config) /\ ~ZeroDuration(config)
    <3>1. /\ ~(NeedsOutput(config) /\ ~CanRead(config, "output"))
          /\ ~ZeroChunks(MakeConfigOf(config, 1))
      BY <2>4 DEF ConfigInv, ProcessInv
    <3>2. ~BadRecorder(config)
      BY <3>1 DEF BadRecorder, NeedsOutput
    <3> QED
      BY <2>1, <2>4, <3>1, <3>2, DurationRead
  <2> QED
    BY <2>2, <2>3, <2>4 DEF AcceptedConfigurationRuns
<1> QED
  BY <1>1, ConfigInvHolds, PTL

\* A Config is what make_config reads from the configuration that was checked.
LEMMA MadeConfigFacts ==
    ASSUME ConfigInv, conf # Nothing
    PROVE  /\ IsChecked(config) /\ dinfo = MakeStreamInfo(config, TRUE) /\ Unwarned(config, warned)
           /\ conf.class = ClassOf(TypeOf(config)) /\ conf.type = TypeOf(config)
           /\ conf.attempts \in 1..IntMax
           /\ conf.input = read_input(config)
           /\ conf.output = IF NeedsOutput(config) THEN read_output(config) ELSE <<>>
           /\ conf.fields = ReadFields(config, DefaultsOf(conf.class))
           /\ conf.class \in {"EncodeConfig", "VodEncodeConfig"} =>
                 conf.args = InitVideoEncodersWithArgs(config)
<1>1. stage = "running" /\ stage \in Forked
  BY DEF ConfigInv, ProcessInv, Forked
<1>2. PICK a \in 1..IntMax : conf = MakeConfigOf(config, a)
  BY <1>1 DEF ConfigInv, ProcessInv
<1>3. IsChecked(config) /\ dinfo = MakeStreamInfo(config, TRUE) /\ Unwarned(config, warned)
  BY <1>1 DEF ConfigInv, DaemonInv
<1>4. /\ conf.class = ClassOf(TypeOf(config)) /\ conf.type = TypeOf(config)
      /\ conf.attempts = a
      /\ conf.input = read_input(config)
      /\ conf.output = IF NeedsOutput(config) THEN read_output(config) ELSE <<>>
      /\ conf.fields = ReadFields(config, DefaultsOf(ClassOf(TypeOf(config))))
      /\ ClassOf(TypeOf(config)) \in {"EncodeConfig", "VodEncodeConfig"} =>
                 conf.args = InitVideoEncodersWithArgs(config)
  BY <1>2 DEF MakeConfigOf
<1> QED
  BY <1>3, <1>4

\* For every set of requests: the daemon and the process, which both call
\* MakeStreamInfo, know the same stream, and its Config is complete.
THEOREM ConfigStaysAgreed == SpecConfig => []ConfigIsAgreed
<1>1. ConfigInv => ConfigIsAgreed
  <2> SUFFICES ASSUME ConfigInv PROVE ConfigIsAgreed
    OBVIOUS
  <2>1. /\ stage \in Stages /\ warned \subseteq DOMAIN config
        /\ runs \in 0..MaxRuns /\ misread \in BOOLEAN
    BY DEF ConfigInv, DaemonInv, CopyInv
  <2>2. ASSUME conf # Nothing
        PROVE  /\ conf.attempts \in 1..IntMax
               /\ DOMAIN conf.fields = DOMAIN DefaultsOf(conf.class)
               /\ \A i \in DOMAIN conf.input : IsUri(conf.input[i])
    <3>1. DOMAIN conf.fields = DOMAIN DefaultsOf(conf.class)
      BY <2>2, MadeConfigFacts DEF ReadFields
    <3>2. \A i \in DOMAIN conf.input : IsUri(conf.input[i])
      BY <2>2, MadeConfigFacts, UrlsOfInput
    <3> QED
      BY <2>2, <3>1, <3>2, MadeConfigFacts
  <2>3. ASSUME pinfo # Nothing PROVE pinfo = dinfo /\ pinfo.id = GetSid(config)
    <3>1. stage \in Execed /\ pinfo = dinfo
      BY <2>3 DEF ConfigInv, ProcessInv
    <3>2. stage \in Forked
      BY <3>1 DEF Execed, Forked
    <3>3. dinfo = MakeStreamInfo(config, TRUE) /\ Reads(config, "id", "string")
      BY <3>2 DEF ConfigInv, DaemonInv, IsChecked
    <3>4. dinfo.id = Val(config["id"])
      BY <3>3 DEF MakeStreamInfo
    <3> QED
      BY <3>1, <3>3, <3>4 DEF GetSid
  <2>4. ASSUME conf # Nothing
        PROVE  /\ conf.input = dinfo.input /\ conf.type = dinfo.type
               /\ (conf.class # "TimeshiftConfig" => conf.output = dinfo.output)
    <3>1. /\ dinfo.input = read_input(config) /\ dinfo.type = TypeOf(config)
          /\ (TypeOf(config) \notin RecorderTypes => dinfo.output = read_output(config))
      BY <2>4, MadeConfigFacts DEF MakeStreamInfo, RecorderTypes
    <3>2. conf.class # "TimeshiftConfig" => TypeOf(config) \notin RecorderTypes
      BY <2>4, MadeConfigFacts, ClassesOfTypes DEF IsChecked
    <3>3. TypeOf(config) \notin RecorderTypes => conf.output = read_output(config)
      BY <2>4, MadeConfigFacts DEF NeedsOutput, RecorderTypes
    <3> QED
      BY <2>4, <3>1, <3>2, <3>3, MadeConfigFacts
  <2>5. ConfigTypeOK
    BY <2>1, <2>2 DEF ConfigTypeOK, Stages
  <2>6. DaemonAndProcessAgree
    BY <2>3, <2>4 DEF DaemonAndProcessAgree
  <2> QED
    BY <2>5, <2>6 DEF ConfigIsAgreed
<1> QED
  BY <1>1, ConfigInvHolds, PTL

\* For every set of requests and number of runs: no option of an encoder is
\* lost unseen between ValidateConfig and InitVideoEncodersWithArgs, every run
\* has fresh links, and a vod on demand keeps its files.
THEOREM RequestsReachRuns == SpecConfig => []RequestReachesRun
<1>1. ConfigInv => RequestReachesRun
  <2> SUFFICES ASSUME ConfigInv PROVE RequestReachesRun
    OBVIOUS
  <2>1. NoWarningNoLoss
    <3> SUFFICES ASSUME conf # Nothing, conf.class \in {"EncodeConfig", "VodEncodeConfig"}
                 PROVE
          /\ \A k \in (DOMAIN config \cap EncoderOptions) \ (NotValidatedArgs \cup Inverted \cup warned) :
                k \in DOMAIN conf.args /\ conf.args[k] = config[k]
          /\ DOMAIN conf.args \subseteq DOMAIN config \cap EncoderOptions
      BY DEF NoWarningNoLoss
    <3>1. conf.args = InitVideoEncodersWithArgs(config) /\ Unwarned(config, warned)
      BY MadeConfigFacts
    <3> QED
      BY <3>1, ArgsOfConfig, UnwarnedArgs
  <2>2. LinksAreFresh
    <3> SUFFICES ASSUME copy # Nothing, NEW i \in DOMAIN copy.input
                 PROVE  copy.input[i].uri = dinfo.input[i].uri /\ copy.input[i].run \in {0, runs}
      BY DEF LinksAreFresh
    <3>1. PICK path, works : copy = make_config_copy(conf, path, works, runs)
      BY DEF ConfigInv, CopyInv
    <3>2. stage = "running"
      BY DEF ConfigInv, CopyInv
    <3>3. PICK a : conf = MakeConfigOf(config, a)
      BY <3>2 DEF ConfigInv, ProcessInv
    <3>4. dinfo.input = read_input(config)
      BY <3>2 DEF ConfigInv, DaemonInv, MakeStreamInfo, Forked
    <3>5. conf.input = read_input(config) /\ "input" \in DOMAIN conf
      BY <3>3 DEF MakeConfigOf
    <3>6. copy.input = [n \in DOMAIN conf.input |-> Generate(conf.input[n], path, works[n], runs)]
      BY <3>1, <3>5 DEF make_config_copy
    <3>7. i \in DOMAIN read_input(config)
          /\ copy.input[i] = Generate(read_input(config)[i], path, works[i], runs)
      BY <3>5, <3>6
    <3> QED
      BY <3>4, <3>7, UrlsOfInput
  <2>3. OnDemandVodKeepsFiles
    <3> SUFFICES ASSUME via = "sync", conf # Nothing,
                        conf.class \in {"VodRelayConfig", "VodEncodeConfig"}
                 PROVE  conf.fields["cleanup_ts"] = Bool(FALSE)
      BY DEF OnDemandVodKeepsFiles
    <3>1. TypeOf(config) \in VodTypes
      BY MadeConfigFacts, ClassesOfTypes DEF IsChecked
    <3>2. stage \in Forked
      BY DEF ConfigInv, ProcessInv, Forked
    <3>3. "cleanup_ts" \in DOMAIN config /\ config["cleanup_ts"] = Bool(FALSE)
      BY <3>1, <3>2 DEF ConfigInv, LineInv
    <3>4. conf.fields = ReadFields(config, DefaultsOf(conf.class))
      BY MadeConfigFacts
    <3> QED
      BY <3>3, <3>4, CleanupRead
  <2> QED
    BY <2>1, <2>2, <2>3 DEF RequestReachesRun
<1> QED
  BY <1>1, ConfigInvHolds, PTL
===============================================================================
