-------------------------- MODULE Retrieval_proof --------------------------
(***************************************************************************)
(* Proofs that what is retrieved ends up where it belongs.  The workers of a *)
(* crawl share no file, lose no line of visited.url and stop promptly, for   *)
(* every number of workers and every web; a download over MMS stores every   *)
(* byte in its place, for every length of the header and the packets, every   *)
(* block and every thing the server sends besides what it was asked for; the  *)
(* pthreads of a download over RTSP store their windows, and their files,     *)
(* joined, are the stream, for every stream, bit rate and number of pthreads. *)
(***************************************************************************)
EXTENDS Crawler, MCStreams, Blocks_proof, FiniteSetTheorems, SequenceTheorems, TLAPS

-----------------------------------------------------------------------------
(* A crawl. *)

Places == {"loop", "fetchUrl", "wait", "checkUrl", "getfileseq", "fetchHtmlPage",
           "saveUnvisited", "saveVisited", "parse", "broadcast", "hung", "end"}

\* The vectors stay empty: nothing is ever known.
Lists == list \in [Names -> [vector : {<<>>}, pos : {0}, file : Seq(Urls)]]

Types ==
    /\ m_running \in BOOLEAN
    /\ uriQue \in Seq(Urls) /\ htmlContent \in [Workers -> Seq(Urls)]
    /\ pc \in [Workers -> Places]
    /\ url \in [Workers -> Urls]
    /\ fseq \in Nat /\ taken \in 0 .. MaxTaken /\ received \in Nat
    /\ seq \in [Workers -> Nat]
    /\ late \in [Workers -> 0 .. 1]

At(A) == {w \in Workers : pc[w] \in A}
Count(A) == Cardinality(At(A))

\* A worker that has taken a link still may get a number for it, and receive it, once.
Numbered == fseq + Count({"checkUrl", "getfileseq"}) <= taken
Received == received + Count({"checkUrl", "getfileseq", "fetchHtmlPage"}) <= taken

\* The number of a worker was given, and to it alone.
Given ==
    /\ \A w \in Workers : seq[w] <= fseq
    /\ \A w \in Workers : pc[w] \in Fetching => seq[w] < fseq

\* A worker that is about to take a link after stop() has taken none before.
TakenLate == \A w \in Workers : m_running \/ pc[w] \in {"fetchUrl", "wait"} => late[w] = 0
LateIsTaken == \A w \in Workers : late[w] <= taken

VisitedLines == received = Len(list["visited"].file) + Count({"saveVisited"})

IInv == /\ Types /\ Lists /\ Numbered /\ Received /\ Given /\ TakenLate /\ LateIsTaken
        /\ VisitedLines /\ FilesAreNotShared
-----------------------------------------------------------------------------
(***************************************************************************)
(* How many workers are at some places, when one of them goes on.           *)
(***************************************************************************)
LEMMA CountType == ASSUME NEW A PROVE IsFiniteSet(At(A)) /\ Count(A) \in Nat
BY CrawlerAssumption, FS_Subset, FS_CardinalityType DEF At, Count

(* A step that sends worker w to a place leaves every other worker where it is. *)
LEMMA Moves ==
  ASSUME Types, NEW w \in Workers, NEW to \in Places, Go(w, to)
  PROVE  /\ pc' \in [Workers -> Places] /\ pc'[w] = to
         /\ \A v \in Workers : v # w => pc'[v] = pc[v]
BY DEF Types, Go

(* Such a step changes the number of workers inside a region by w alone. *)
LEMMA Counted ==
  ASSUME Types, NEW w \in Workers, NEW to \in Places, Go(w, to), NEW A
  PROVE  /\ (pc[w] \in A <=> to \in A) => Count(A)' = Count(A)
         /\ pc[w] \in A /\ to \notin A => Count(A)' = Count(A) - 1
         /\ pc[w] \notin A /\ to \in A => Count(A)' = Count(A) + 1
<1>1. pc'[w] = to /\ \A v \in Workers : v # w => pc'[v] = pc[v]
  BY Moves
<1>2. CASE pc[w] \in A <=> to \in A
  <2>1. At(A)' = At(A)
    BY <1>1, <1>2 DEF At
  <2> QED
    BY <1>2, <2>1, Zenon DEF Count
<1>3. CASE pc[w] \in A /\ to \notin A
  <2>1. At(A)' = At(A) \ {w} /\ w \in At(A)
    BY <1>1, <1>3 DEF At
  <2>2. Cardinality(At(A) \ {w}) = Cardinality(At(A)) - 1
    BY <2>1, CountType, FS_RemoveElement
  <2> QED
    BY <1>3, <2>1, <2>2 DEF Count
<1>4. CASE pc[w] \notin A /\ to \in A
  <2>1. At(A)' = At(A) \cup {w} /\ w \notin At(A)
    BY <1>1, <1>4 DEF At
  <2>2. Cardinality(At(A) \cup {w}) = Cardinality(At(A)) + 1
    BY <2>1, CountType, FS_AddElement
  <2> QED
    BY <1>4, <2>1, <2>2 DEF Count
<1> QED
  BY <1>2, <1>3, <1>4

(***************************************************************************)
(* A flush of lists without vectors changes nothing.                        *)
(***************************************************************************)
LEMMA FlushedIsSame == ASSUME Lists PROVE [n \in Names |-> Flushed(list[n])] = list
<1>1. ASSUME NEW n \in Names PROVE Flushed(list[n]) = list[n]
  <2>1. list[n] \in [vector : {<<>>}, pos : {0}, file : Seq(Urls)]
    BY DEF Lists
  <2>2. list[n].vector = <<>> /\ list[n].pos = 0 /\ list[n].file \in Seq(Urls)
    BY <2>1
  <2>3. SubSeq(<<>>, 1, 0) = <<>>
    BY SubSeqEmpty
  <2>4. list[n].file \o <<>> = list[n].file
    BY <2>2, ConcatEmptySeq
  <2>5. Flushed(list[n]) = [vector |-> <<>>, pos |-> 0, file |-> list[n].file]
    BY <2>2, <2>3, <2>4, EmptySeq DEF Flushed
  <2> QED
    BY <2>1, <2>5
<1> QED
  BY <1>1 DEF Lists

(***************************************************************************)
(* A line saved is a line more.                                             *)
(***************************************************************************)
LEMMA SaveAddsALine ==
  ASSUME Lists, NEW n \in Names, NEW u \in Urls, list' = [list EXCEPT ![n] = Save(@, u)]
  PROVE  /\ Lists' /\ \A m \in Names : m # n => list'[m] = list[m]
         /\ Len(list'[n].file) = Len(list[n].file) + 1
<1>1. list[n] \in [vector : {<<>>}, pos : {0}, file : Seq(Urls)]
  BY DEF Lists
<1>2. Append(list[n].file, u) \in Seq(Urls) /\ Len(Append(list[n].file, u)) = Len(list[n].file) + 1
  BY <1>1, AppendProperties
<1>3. Save(list[n], u) \in [vector : {<<>>}, pos : {0}, file : Seq(Urls)]
      /\ Save(list[n], u).file = Append(list[n].file, u)
  BY <1>1, <1>2 DEF Save
<1>4. list'[n] = Save(list[n], u) /\ \A m \in Names : m # n => list'[m] = list[m]
  BY DEF Lists
<1>5. Lists'
  BY <1>3 DEF Lists
<1> QED
  BY <1>2, <1>3, <1>4, <1>5

(***************************************************************************)
(* Init.                                                                    *)
(***************************************************************************)
LEMMA InitHolds == Init => IInv
<1> SUFFICES ASSUME Init PROVE IInv
  OBVIOUS
<1>1. ASSUME NEW A, "loop" \notin A PROVE Count(A) = 0
  <2>1. At(A) = {}
    BY <1>1 DEF At, Init
  <2> QED
    BY <2>1, FS_EmptySet DEF Count
<1>2. Types
  BY CrawlerAssumption DEF Init, Types, Places
<1>3. NewList \in [vector : {<<>>}, pos : {0}, file : Seq(Urls)] /\ Len(NewList.file) = 0
  BY DEF NewList
<1>4. Lists
  BY <1>3 DEF Init, Lists
<1>5. Count({"checkUrl", "getfileseq"}) = 0 /\ Count({"checkUrl", "getfileseq", "fetchHtmlPage"}) = 0
      /\ Count({"saveVisited"}) = 0
  BY <1>1
<1>6. Numbered /\ Received
  BY <1>5 DEF Init, Numbered, Received
<1>7. Len(list["visited"].file) = 0
  BY <1>3 DEF Init, Names
<1>8. VisitedLines
  BY <1>5, <1>7 DEF Init, VisitedLines
<1>9. Given /\ TakenLate /\ LateIsTaken /\ FilesAreNotShared
  BY DEF Init, Given, TakenLate, LateIsTaken, FilesAreNotShared, Fetching
<1> QED
  BY <1>2, <1>4, <1>6, <1>8, <1>9 DEF IInv

(***************************************************************************)
(* IInv is what is to be shown.                                             *)
(***************************************************************************)
LEMMA IInvImplies == IInv => CrawlInv
<1> SUFFICES ASSUME IInv PROVE CrawlInv
  OBVIOUS
<1>1. \A A : Count(A) \in Nat
  BY CountType
<1>2. fseq \in 0 .. taken /\ received \in 0 .. taken
  BY <1>1 DEF IInv, Types, Numbered, Received
<1>3. \A n \in Names : list[n].pos <= Len(list[n].vector)
  <2> SUFFICES ASSUME NEW n \in Names PROVE list[n].pos <= Len(list[n].vector)
    OBVIOUS
  <2>1. list[n] \in [vector : {<<>>}, pos : {0}, file : Seq(Urls)]
    BY DEF IInv, Lists
  <2>2. list[n].pos = 0 /\ list[n].vector = <<>>
    BY <2>1
  <2> QED
    BY <2>2
<1>4. \A i \in DOMAIN uriQue : uriQue[i] \in Urls
  BY ElementOfSeq, LenProperties DEF IInv, Types
<1>5. seq \in [Workers -> 0 .. fseq] /\ late \in [Workers -> 0 .. MaxTaken]
  <2>1. seq \in [Workers -> Nat] /\ fseq \in Nat /\ \A w \in Workers : seq[w] <= fseq
    BY DEF IInv, Types, Given
  <2>2. late \in [Workers -> 0 .. 1] /\ taken \in 0 .. MaxTaken /\ \A w \in Workers : late[w] <= taken
    BY DEF IInv, Types, LateIsTaken
  <2>3. seq \in [Workers -> 0 .. fseq]
    BY <2>1
  <2> QED
    BY <2>2, <2>3, CrawlerAssumption
<1>6. TypeOK
  BY <1>2, <1>3, <1>4, <1>5 DEF IInv, Types, TypeOK, Places
<1>7. StopIsPrompt
  <2>1. late \in [Workers -> 0 .. 1]
    BY DEF IInv, Types
  <2> QED
    BY <2>1 DEF StopIsPrompt
<1>8. VisitedFileIsExact
  <2>1. {w \in Workers : pc[w] = "saveVisited"} = At({"saveVisited"})
    BY DEF At
  <2> QED
    BY <2>1 DEF IInv, VisitedLines, VisitedFileIsExact, Count
<1> QED
  BY <1>6, <1>7, <1>8 DEF IInv, CrawlInv

(***************************************************************************)
(* What the actions of a worker change.                                     *)
(***************************************************************************)
LEMMA KnownLinksAreLinks ==
  ASSUME Types, NEW w \in Workers, parseHyperlinks(w)
  PROVE  uriQue' \in Seq(Urls)
<1> DEFINE new == {i \in DOMAIN htmlContent[w] : ~Known(htmlContent[w][i])}
<1>1. PICK it \in [1 .. Cardinality(new) -> new] :
         uriQue' = uriQue \o [i \in DOMAIN it |-> htmlContent[w][it[i]]]
  BY DEF parseHyperlinks
<1>2. htmlContent[w] \in Seq(Urls) /\ uriQue \in Seq(Urls)
  BY DEF Types
<1>3. \A i \in DOMAIN htmlContent[w] : htmlContent[w][i] \in Urls
  BY <1>2, ElementOfSeq, LenProperties
<1>4. IsFiniteSet(new)
  <2>1. DOMAIN htmlContent[w] = 1 .. Len(htmlContent[w]) /\ Len(htmlContent[w]) \in Nat
    BY <1>2, LenProperties
  <2>2. IsFiniteSet(DOMAIN htmlContent[w])
    BY <2>1, FS_Interval
  <2> QED
    BY <2>2, FS_Subset
<1>5. Cardinality(new) \in Nat
  BY <1>4, FS_CardinalityType
<1> HIDE DEF new
<1>6. DOMAIN it = 1 .. Cardinality(new) /\ \A i \in DOMAIN it : it[i] \in DOMAIN htmlContent[w]
  BY <1>1 DEF new
<1>7. \A i \in 1 .. Cardinality(new) : htmlContent[w][it[i]] \in Urls
  BY <1>3, <1>6
<1>8. [i \in 1 .. Cardinality(new) |-> htmlContent[w][it[i]]] \in Seq(Urls)
  BY <1>5, <1>7, IsASeq
<1> QED
  BY <1>1, <1>2, <1>6, <1>8, ConcatProperties

(* A fetched page leaves the worker with an address, links and a place of their *)
(* types, so fetchHtmlPage is an instance of the step FetchedAs. *)
LEMMA FetchedTypes ==
  ASSUME Types, NEW w \in Workers, fetchHtmlPage(w)
  PROVE  \E u \in Urls, content \in Seq(Urls),
            to \in {"loop", "saveUnvisited", "saveVisited", "hung"} : FetchedAs(w, u, content, to)
<1>1. PICK u \in Redirects[url[w]] \cup {url[w]} :
          LET more == htmlContent[w] \o Links[u] IN
          \/ FetchedAs(w, u, htmlContent[w], "loop")
          \/ FetchedAs(w, u, more, "saveUnvisited")
          \/ FetchedAs(w, u, Links[u], "saveVisited")
          \/ FetchedAs(w, u, htmlContent[w], "saveVisited")
          \/ FetchedAs(w, u, more, "loop")
          \/ FetchedAs(w, u, htmlContent[w], "hung")
  BY DEF fetchHtmlPage
<1>2. u \in Urls
  <2>1. url[w] \in Urls /\ Redirects[url[w]] \subseteq Urls
    BY CrawlerAssumption DEF Types
  <2> QED
    BY <2>1
<1>3. htmlContent[w] \in Seq(Urls) /\ Links[u] \in Seq(Urls)
  BY <1>2, CrawlerAssumption DEF Types
<1>4. htmlContent[w] \o Links[u] \in Seq(Urls)
  BY <1>3, ConcatProperties
<1> QED
  BY <1>1, <1>2, <1>3, <1>4

(***************************************************************************)
(* Every step keeps the types.                                              *)
(***************************************************************************)
LEMMA TypesKept == ASSUME IInv, [Next]_vars PROVE Types'
<1> USE DEF Types
<1>0. Types /\ TakenLate
  BY DEF IInv
<1>1. ASSUME NEW w \in Workers, NEW to \in Places, Go(w, to) PROVE pc' \in [Workers -> Places]
  BY <1>0, <1>1, Moves
<1> HIDE DEF Go
<1>2. ASSUME NEW w \in Workers, Loop(w) PROVE Types'
  BY <1>0, <1>1, <1>2 DEF Loop, Places
<1>3. ASSUME NEW w \in Workers, fetchUrl(w) PROVE Types'
  <2>1. CASE uriQue = <<>> /\ Go(w, "wait") /\ UNCHANGED <<url, uriQue, taken, late>>
    BY <1>0, <1>1, <1>3, <2>1 DEF fetchUrl, Places
  <2>2. CASE uriQue # <<>> /\ taken < MaxTaken /\ Go(w, "checkUrl")
             /\ url' = [url EXCEPT ![w] = Head(uriQue)] /\ uriQue' = Tail(uriQue)
             /\ taken' = taken + 1 /\ late' = [late EXCEPT ![w] = @ + IF m_running THEN 0 ELSE 1]
    <3>1. Head(uriQue) \in Urls /\ Tail(uriQue) \in Seq(Urls)
      BY <1>0, <2>2, HeadTailProperties
    <3>2. late[w] = 0
      BY <1>0, <1>3 DEF fetchUrl, TakenLate
    <3>3. (late[w] + IF m_running THEN 0 ELSE 1) \in 0 .. 1
      BY <3>2
    <3>4. late' \in [Workers -> 0 .. 1]
      BY <1>0, <2>2, <3>3
    <3>5. taken' \in 0 .. MaxTaken
      BY <1>0, <2>2, CrawlerAssumption
    <3>6. url' \in [Workers -> Urls] /\ uriQue' \in Seq(Urls)
      BY <1>0, <2>2, <3>1
    <3>7. pc' \in [Workers -> Places]
      BY <1>1, <2>2 DEF Places
    <3>8. UNCHANGED <<m_running, fseq, seq, htmlContent, received>>
      BY <1>3 DEF fetchUrl
    <3> QED
      BY <1>0, <3>4, <3>5, <3>6, <3>7, <3>8
  <2> QED
    BY <1>3, <2>1, <2>2 DEF fetchUrl
<1>4. ASSUME NEW w \in Workers, SpuriousWakeup(w) PROVE Types'
  BY <1>0, <1>1, <1>4 DEF SpuriousWakeup, Places
<1>5. ASSUME NEW w \in Workers, checkUrl(w) PROVE Types'
  BY <1>0, <1>1, <1>5 DEF checkUrl, Places
<1>6. ASSUME NEW w \in Workers, getfileseq(w) PROVE Types'
  BY <1>0, <1>1, <1>6 DEF getfileseq, Places
<1>7. ASSUME NEW w \in Workers, fetchHtmlPage(w) PROVE Types'
  <2>1. PICK u \in Urls, content \in Seq(Urls),
             to \in {"loop", "saveUnvisited", "saveVisited", "hung"} : FetchedAs(w, u, content, to)
    BY <1>0, <1>7, FetchedTypes
  <2>2. url' \in [Workers -> Urls] /\ htmlContent' \in [Workers -> Seq(Urls)]
    BY <1>0, <2>1 DEF FetchedAs
  <2>3. received' \in Nat
    BY <1>0, <2>1 DEF FetchedAs
  <2>4. pc' \in [Workers -> Places]
    BY <1>1, <2>1 DEF FetchedAs, Places
  <2>5. UNCHANGED <<m_running, uriQue, list, fseq, seq, taken, late>>
    BY <1>7 DEF fetchHtmlPage
  <2> QED
    BY <1>0, <2>2, <2>3, <2>4, <2>5
<1>8. ASSUME NEW w \in Workers, saveUnvisitedUrl(w) \/ saveVisitedUrl(w) PROVE Types'
  BY <1>0, <1>1, <1>8 DEF saveUnvisitedUrl, saveVisitedUrl, Places
<1>9. ASSUME NEW w \in Workers, parseHyperlinks(w) PROVE Types'
  <2>1. uriQue' \in Seq(Urls)
    BY <1>0, <1>9, KnownLinksAreLinks
  <2>2. Go(w, "broadcast") /\ UNCHANGED <<m_running, fseq, url, seq, htmlContent, received, taken, late>>
    BY <1>9 DEF parseHyperlinks
  <2> QED
    BY <1>0, <1>1, <2>1, <2>2 DEF Places
<1>10. ASSUME NEW w \in Workers, broadcast(w) PROVE Types'
  BY <1>0, <1>10 DEF broadcast, Places
<1>11. CASE stop \/ UNCHANGED vars
  BY <1>0, <1>11 DEF stop, vars
<1> QED
  BY <1>2, <1>3, <1>4, <1>5, <1>6, <1>7, <1>8, <1>9, <1>10, <1>11 DEF Next, Run

(***************************************************************************)
(* No step puts anything into the vectors: a flush changes nothing, a save   *)
(* adds a line to the file.                                                 *)
(***************************************************************************)
LEMMA ListsKept == ASSUME IInv, [Next]_vars PROVE Lists'
<1>1. Lists /\ Types
  BY DEF IInv
<1>2. ASSUME NEW w \in Workers, saveUnvisitedUrl(w) PROVE Lists'
  BY <1>1, <1>2, SaveAddsALine DEF saveUnvisitedUrl, Names, Types
<1>3. ASSUME NEW w \in Workers, saveVisitedUrl(w) PROVE Lists'
  BY <1>1, <1>3, SaveAddsALine DEF saveVisitedUrl, Names, Types
<1>4. ASSUME NEW w \in Workers, checkUrl(w) PROVE Lists'
  <2>1. list' = list
    BY <1>1, <1>4, FlushedIsSame DEF checkUrl
  <2> QED
    BY <1>1, <2>1 DEF Lists
<1>5. ASSUME NEW w \in Workers, parseHyperlinks(w) PROVE Lists'
  <2>1. list' = list
    BY <1>1, <1>5, FlushedIsSame DEF parseHyperlinks
  <2> QED
    BY <1>1, <2>1 DEF Lists
<1>6. CASE list' = list
  BY <1>1, <1>6 DEF Lists
<1> QED
  BY <1>2, <1>3, <1>4, <1>5, <1>6
  DEF Next, Run, vars, stop, Loop, fetchUrl, SpuriousWakeup, getfileseq, fetchHtmlPage, broadcast

(***************************************************************************)
(* A link that is taken is numbered once and received once; a page that is   *)
(* received is a line of visited.url, or about to be one.                    *)
(***************************************************************************)
Counts == Numbered /\ Received /\ VisitedLines

Numbering == {"checkUrl", "getfileseq"}
Receiving == {"checkUrl", "getfileseq", "fetchHtmlPage"}
Saving == {"saveVisited"}

(* A step that takes, saves and receives nothing, and at most moves one worker *)
(* on, keeps the counters of links in agreement with the workers. *)
LEMMA CountsStay ==
  ASSUME IInv, UNCHANGED <<fseq, received, taken>>, Len(list'["visited"].file) = Len(list["visited"].file),
         Count(Numbering)' = Count(Numbering) \/ Count(Numbering)' = Count(Numbering) - 1,
         Count(Receiving)' = Count(Receiving) \/ Count(Receiving)' = Count(Receiving) - 1,
         Count(Saving)' = Count(Saving)
  PROVE  Counts'
<1>1. Numbered /\ Received /\ VisitedLines /\ Types
  BY DEF IInv
<1>2. Count(Numbering) \in Nat /\ Count(Receiving) \in Nat
  BY CountType
<1>3. fseq + Count(Numbering)' <= taken
  BY <1>1, <1>2 DEF Numbered, Types, Numbering
<1>4. received + Count(Receiving)' <= taken
  BY <1>1, <1>2 DEF Received, Types, Receiving
<1>5. Numbered'
  BY <1>3 DEF Numbered, Numbering
<1>6. Received'
  BY <1>4 DEF Received, Receiving
<1>7. VisitedLines'
  BY <1>1 DEF VisitedLines, Saving
<1> QED
  BY <1>5, <1>6, <1>7 DEF Counts

(* Every step keeps the counters of links in agreement with the workers. *)
LEMMA CountsKept == ASSUME IInv, [Next]_vars PROVE Counts'
<1> USE DEF Numbering, Receiving, Saving
<1>1. Types /\ Lists /\ Numbered /\ Received /\ VisitedLines
  BY DEF IInv
<1>2. /\ Count(Numbering) \in Nat /\ Count(Receiving) \in Nat /\ Count(Saving) \in Nat
      /\ fseq \in Nat /\ taken \in Nat /\ received \in Nat
  BY <1>1, CountType, CrawlerAssumption DEF Types
<1>3. ASSUME NEW w \in Workers, NEW to \in Places, Go(w, to), pc[w] \notin Saving, to \notin Receiving \cup Saving,
             UNCHANGED <<fseq, received, taken, list>>
      PROVE  Counts'
  <2>1. Count(Saving)' = Count(Saving)
    BY <1>1, <1>3, Counted
  <2>2. Count(Numbering)' = Count(Numbering) \/ Count(Numbering)' = Count(Numbering) - 1
    BY <1>1, <1>3, Counted
  <2>3. Count(Receiving)' = Count(Receiving) \/ Count(Receiving)' = Count(Receiving) - 1
    BY <1>1, <1>3, Counted
  <2> QED
    BY <1>3, <2>1, <2>2, <2>3, CountsStay
<1>4. ASSUME NEW w \in Workers, Loop(w) \/ SpuriousWakeup(w) PROVE Counts'
  BY <1>3, <1>4 DEF Loop, SpuriousWakeup, Places
<1>5. ASSUME NEW w \in Workers, fetchUrl(w) PROVE Counts'
  <2>1. CASE Go(w, "wait") /\ UNCHANGED <<url, uriQue, taken, late>>
    BY <1>3, <1>5, <2>1 DEF fetchUrl, Places
  <2>2. CASE Go(w, "checkUrl") /\ taken' = taken + 1
    <3>1. Count(Numbering)' = Count(Numbering) + 1 /\ Count(Receiving)' = Count(Receiving) + 1
          /\ Count(Saving)' = Count(Saving)
      BY <1>1, <1>5, <2>2, Counted DEF fetchUrl, Places
    <3>2. UNCHANGED <<list, fseq, received>>
      BY <1>5 DEF fetchUrl
    <3>3. fseq' + Count(Numbering)' <= taken'
      BY <1>1, <1>2, <2>2, <3>1, <3>2 DEF Numbered
    <3>4. received' + Count(Receiving)' <= taken'
      BY <1>1, <1>2, <2>2, <3>1, <3>2 DEF Received
    <3> QED
      BY <1>1, <3>1, <3>2, <3>3, <3>4 DEF Counts, Numbered, Received, VisitedLines
  <2> QED
    BY <1>5, <2>1, <2>2 DEF fetchUrl
<1>6. ASSUME NEW w \in Workers, checkUrl(w) PROVE Counts'
  <2>1. list' = list
    BY <1>1, <1>6, FlushedIsSame DEF checkUrl
  <2>2. CASE Go(w, "loop")
    BY <1>3, <1>6, <2>1, <2>2 DEF checkUrl, Places
  <2>3. CASE Go(w, "getfileseq")
    <3>1. Count(Numbering)' = Count(Numbering) /\ Count(Receiving)' = Count(Receiving)
          /\ Count(Saving)' = Count(Saving)
      BY <1>1, <1>6, <2>3, Counted DEF checkUrl, Places
    <3> QED
      BY <1>6, <2>1, <3>1, CountsStay DEF checkUrl
  <2> QED
    BY <1>6, <2>2, <2>3 DEF checkUrl
<1>7. ASSUME NEW w \in Workers, getfileseq(w) PROVE Counts'
  <2>1. pc[w] = "getfileseq" /\ Go(w, "fetchHtmlPage") /\ fseq' = fseq + 1 /\ UNCHANGED <<list, received, taken>>
    BY <1>7 DEF getfileseq
  <2>2. Count(Numbering)' = Count(Numbering) - 1 /\ Count(Receiving)' = Count(Receiving)
        /\ Count(Saving)' = Count(Saving)
    BY <1>1, <2>1, Counted DEF Places
  <2>3. fseq' + Count(Numbering)' <= taken'
    BY <1>1, <1>2, <2>1, <2>2 DEF Numbered
  <2> QED
    BY <1>1, <2>1, <2>2, <2>3 DEF Counts, Numbered, Received, VisitedLines
<1>8. ASSUME NEW w \in Workers, fetchHtmlPage(w) PROVE Counts'
  <2>1. PICK u \in Urls, content \in Seq(Urls),
             to \in {"loop", "saveUnvisited", "saveVisited", "hung"} : FetchedAs(w, u, content, to)
    BY <1>1, <1>8, FetchedTypes
  <2>2. pc[w] = "fetchHtmlPage" /\ Go(w, to) /\ UNCHANGED <<list, fseq, taken>>
    BY <1>8, <2>1 DEF fetchHtmlPage, FetchedAs
  <2>3. received' = received + IF to = "saveVisited" THEN 1 ELSE 0
    BY <2>1 DEF FetchedAs
  <2>4. CASE to # "saveVisited"
    <3>1. received' = received
      BY <1>2, <2>3, <2>4
    <3> QED
      BY <1>3, <2>2, <2>4, <3>1 DEF Places
  <2>5. CASE to = "saveVisited"
    <3>1. received' = received + 1
      BY <2>3, <2>5
    <3>2. Count(Numbering)' = Count(Numbering) /\ Count(Receiving)' = Count(Receiving) - 1
          /\ Count(Saving)' = Count(Saving) + 1
      BY <1>1, <2>2, <2>5, Counted DEF Places
    <3>3. received' + Count(Receiving)' <= taken'
      BY <1>1, <1>2, <2>2, <3>1, <3>2 DEF Received
    <3>4. Len(list["visited"].file) \in Nat
      <4>1. list["visited"] \in [vector : {<<>>}, pos : {0}, file : Seq(Urls)]
        BY <1>1 DEF Lists, Names
      <4>2. list["visited"].file \in Seq(Urls)
        BY <4>1
      <4> QED
        BY <4>2, LenProperties
    <3>5. received' = Len(list'["visited"].file) + Count(Saving)'
      <4>1. Len(list'["visited"].file) = Len(list["visited"].file)
        BY <2>2
      <4>2. received = Len(list["visited"].file) + Count(Saving)
        BY <1>1 DEF VisitedLines
      <4> HIDE DEF Numbering, Receiving, Saving
      <4>3. PICK lines \in Nat : lines = Len(list["visited"].file)
        BY <3>4
      <4>6. received = lines + Count(Saving)
        BY <4>2, <4>3, Zenon
      <4>4. received + 1 = lines + (Count(Saving) + 1)
        BY <1>2, <4>6
      <4>5. received' = lines + Count(Saving)'
        BY <3>1, <3>2, <4>4, Zenon
      <4> QED
        BY <4>1, <4>3, <4>5
    <3> QED
      BY <1>1, <2>2, <3>2, <3>3, <3>5 DEF Counts, Numbered, Received, VisitedLines
  <2> QED
    BY <2>4, <2>5
<1>9. ASSUME NEW w \in Workers, saveUnvisitedUrl(w) PROVE Counts'
  <2>1. Len(list'["visited"].file) = Len(list["visited"].file)
    BY <1>1, <1>9, SaveAddsALine DEF saveUnvisitedUrl, Names, Types
  <2>2. Count(Numbering)' = Count(Numbering) /\ Count(Receiving)' = Count(Receiving)
        /\ Count(Saving)' = Count(Saving)
    BY <1>1, <1>9, Counted DEF saveUnvisitedUrl, Places
  <2> QED
    BY <1>9, <2>1, <2>2, CountsStay DEF saveUnvisitedUrl
<1>10. ASSUME NEW w \in Workers, saveVisitedUrl(w) PROVE Counts'
  <2>1. Len(list'["visited"].file) = Len(list["visited"].file) + 1
    BY <1>1, <1>10, SaveAddsALine DEF saveVisitedUrl, Names, Types
  <2>2. Count(Numbering)' = Count(Numbering) /\ Count(Receiving)' = Count(Receiving)
        /\ Count(Saving)' = Count(Saving) - 1
    BY <1>1, <1>10, Counted DEF saveVisitedUrl, Places
  <2>3. UNCHANGED <<fseq, received, taken>>
    BY <1>10 DEF saveVisitedUrl
  <2>4. Len(list["visited"].file) \in Nat
    <3>1. list["visited"] \in [vector : {<<>>}, pos : {0}, file : Seq(Urls)]
      BY <1>1 DEF Lists, Names
    <3>2. list["visited"].file \in Seq(Urls)
      BY <3>1
    <3> QED
      BY <3>2, LenProperties
  <2>5. received' = Len(list'["visited"].file) + Count(Saving)'
    BY <1>1, <1>2, <2>1, <2>2, <2>3, <2>4 DEF VisitedLines
  <2> QED
    BY <1>1, <2>2, <2>3, <2>5 DEF Counts, Numbered, Received, VisitedLines
<1>11. ASSUME NEW w \in Workers, parseHyperlinks(w) PROVE Counts'
  <2>1. list' = list
    BY <1>1, <1>11, FlushedIsSame DEF parseHyperlinks
  <2> QED
    BY <1>3, <1>11, <2>1 DEF parseHyperlinks, Places
<1>12. ASSUME UNCHANGED <<fseq, received, taken, list>>,
              \A A \in {Numbering, Receiving, Saving} : At(A)' = At(A)
       PROVE  Counts'
  <2>1. Count(Numbering)' = Count(Numbering) /\ Count(Receiving)' = Count(Receiving)
        /\ Count(Saving)' = Count(Saving)
    BY <1>12, Zenon DEF Count
  <2> QED
    BY <1>12, <2>1, CountsStay
<1>13. ASSUME NEW w \in Workers, broadcast(w) PROVE Counts'
  <2>1. \A A \in {Numbering, Receiving, Saving} : At(A)' = At(A)
    BY <1>1, <1>13 DEF broadcast, At, Types
  <2> QED
    BY <1>12, <1>13, <2>1 DEF broadcast
<1>14. CASE stop \/ UNCHANGED vars
  <2>1. UNCHANGED <<fseq, received, taken, list, pc>>
    BY <1>14 DEF stop, vars
  <2> QED
    BY <1>12, <2>1 DEF At
<1> QED
  BY <1>4, <1>5, <1>6, <1>7, <1>8, <1>9, <1>10, <1>11, <1>13, <1>14 DEF Next, Run

(***************************************************************************)
(* A number is given to one worker.                                         *)
(***************************************************************************)
LEMMA NumbersKept == ASSUME IInv, [Next]_vars PROVE Given' /\ FilesAreNotShared'
<1>1. Types /\ Given /\ FilesAreNotShared
  BY DEF IInv
<1>2. ASSUME UNCHANGED <<seq, fseq>>, \A v \in Workers : pc'[v] \in Fetching => pc[v] \in Fetching
      PROVE  Given' /\ FilesAreNotShared'
  BY <1>1, <1>2 DEF Given, FilesAreNotShared
<1>3. ASSUME NEW w \in Workers, NEW to \in Places, Go(w, to), to \in Fetching => pc[w] \in Fetching,
             UNCHANGED <<seq, fseq>>
      PROVE  Given' /\ FilesAreNotShared'
  <2>1. \A v \in Workers : pc'[v] \in Fetching => pc[v] \in Fetching
    BY <1>1, <1>3, Moves
  <2> QED
    BY <1>2, <1>3, <2>1
<1>4. ASSUME NEW w \in Workers, Loop(w) \/ SpuriousWakeup(w) \/ fetchUrl(w) \/ checkUrl(w)
      PROVE  Given' /\ FilesAreNotShared'
  BY <1>3, <1>4 DEF Loop, SpuriousWakeup, fetchUrl, checkUrl, Places, Fetching
<1>5. ASSUME NEW w \in Workers, saveUnvisitedUrl(w) \/ saveVisitedUrl(w) \/ parseHyperlinks(w)
      PROVE  Given' /\ FilesAreNotShared'
  BY <1>3, <1>5 DEF saveUnvisitedUrl, saveVisitedUrl, parseHyperlinks, Places, Fetching
<1>6. ASSUME NEW w \in Workers, fetchHtmlPage(w) PROVE Given' /\ FilesAreNotShared'
  <2>1. PICK u \in Urls, content \in Seq(Urls),
             to \in {"loop", "saveUnvisited", "saveVisited", "hung"} : FetchedAs(w, u, content, to)
    BY <1>1, <1>6, FetchedTypes
  <2>2. pc[w] = "fetchHtmlPage" /\ Go(w, to) /\ UNCHANGED <<seq, fseq>>
    BY <1>6, <2>1 DEF fetchHtmlPage, FetchedAs
  <2> QED
    BY <1>3, <2>2 DEF Places, Fetching
<1>7. ASSUME NEW w \in Workers, getfileseq(w) PROVE Given' /\ FilesAreNotShared'
  <2>1. seq'[w] = fseq /\ fseq' = fseq + 1 /\ \A v \in Workers : v # w => seq'[v] = seq[v] /\ pc'[v] = pc[v]
    BY <1>1, <1>7 DEF getfileseq, Types, Go
  <2>2. \A v \in Workers : seq[v] \in Nat /\ fseq \in Nat /\ seq[v] <= fseq /\ (pc[v] \in Fetching => seq[v] < fseq)
    BY <1>1 DEF Given, Types
  <2>3. Given'
    BY <2>1, <2>2 DEF Given
  <2>4. FilesAreNotShared'
    <3> SUFFICES ASSUME NEW u \in Workers, NEW v \in Workers, u # v, pc'[u] \in Fetching, pc'[v] \in Fetching
                 PROVE  seq'[u] # seq'[v]
      BY DEF FilesAreNotShared
    <3>1. CASE u = w
      BY <2>1, <2>2, <3>1
    <3>2. CASE v = w
      BY <2>1, <2>2, <3>2
    <3>3. CASE u # w /\ v # w
      BY <1>1, <2>1, <3>3 DEF FilesAreNotShared
    <3> QED
      BY <3>1, <3>2, <3>3
  <2> QED
    BY <2>3, <2>4
<1>8. ASSUME NEW w \in Workers, broadcast(w) PROVE Given' /\ FilesAreNotShared'
  <2>1. \A v \in Workers : pc'[v] \in Fetching => pc[v] \in Fetching
    BY <1>1, <1>8 DEF broadcast, Fetching, Types
  <2> QED
    BY <1>2, <1>8, <2>1 DEF broadcast
<1>9. CASE stop \/ UNCHANGED vars
  BY <1>2, <1>9 DEF stop, vars
<1> QED
  BY <1>4, <1>5, <1>6, <1>7, <1>8, <1>9 DEF Next, Run

(***************************************************************************)
(* A worker that has taken a link after stop() does not come back for more. *)
(***************************************************************************)
LEMMA LateKept == ASSUME IInv, [Next]_vars PROVE TakenLate' /\ LateIsTaken'
<1>1. Types /\ TakenLate /\ LateIsTaken
  BY DEF IInv
<1>2. taken \in Nat
  BY <1>1, CrawlerAssumption DEF Types
<1>3. ASSUME UNCHANGED <<late, taken>>, m_running' => m_running,
             \A v \in Workers : pc'[v] \in {"fetchUrl", "wait"} => m_running \/ pc[v] \in {"fetchUrl", "wait"}
      PROVE  TakenLate' /\ LateIsTaken'
  BY <1>1, <1>3 DEF TakenLate, LateIsTaken
<1>4. ASSUME NEW w \in Workers, NEW to \in Places, Go(w, to),
             to \in {"fetchUrl", "wait"} => m_running \/ pc[w] \in {"fetchUrl", "wait"},
             UNCHANGED <<late, taken, m_running>>
      PROVE  TakenLate' /\ LateIsTaken'
  <2>1. \A v \in Workers : pc'[v] \in {"fetchUrl", "wait"} => m_running \/ pc[v] \in {"fetchUrl", "wait"}
    BY <1>1, <1>4, Moves
  <2> QED
    BY <1>3, <1>4, <2>1
<1>5. ASSUME NEW w \in Workers, Loop(w) \/ SpuriousWakeup(w) \/ checkUrl(w) \/ getfileseq(w)
      PROVE  TakenLate' /\ LateIsTaken'
  BY <1>4, <1>5 DEF Loop, SpuriousWakeup, checkUrl, getfileseq, Places
<1>6. ASSUME NEW w \in Workers, saveUnvisitedUrl(w) \/ saveVisitedUrl(w) \/ parseHyperlinks(w)
      PROVE  TakenLate' /\ LateIsTaken'
  BY <1>4, <1>6 DEF saveUnvisitedUrl, saveVisitedUrl, parseHyperlinks, Places
<1>7. ASSUME NEW w \in Workers, fetchHtmlPage(w) PROVE TakenLate' /\ LateIsTaken'
  <2>1. PICK u \in Urls, content \in Seq(Urls),
             to \in {"loop", "saveUnvisited", "saveVisited", "hung"} : FetchedAs(w, u, content, to)
    BY <1>1, <1>7, FetchedTypes
  <2>2. Go(w, to) /\ UNCHANGED <<late, taken, m_running>>
    BY <1>7, <2>1 DEF fetchHtmlPage, FetchedAs
  <2> QED
    BY <1>4, <2>2 DEF Places
<1>8. ASSUME NEW w \in Workers, fetchUrl(w) PROVE TakenLate' /\ LateIsTaken'
  <2>1. CASE Go(w, "wait") /\ UNCHANGED <<url, uriQue, taken, late>>
    BY <1>4, <1>8, <2>1 DEF fetchUrl, Places
  <2>2. CASE Go(w, "checkUrl") /\ taken' = taken + 1
             /\ late' = [late EXCEPT ![w] = @ + IF m_running THEN 0 ELSE 1]
    <3>1. late[w] = 0
      BY <1>1, <1>8 DEF fetchUrl, TakenLate
    <3>2. pc'[w] = "checkUrl" /\ m_running' = m_running
          /\ \A v \in Workers : v # w => pc'[v] = pc[v] /\ late'[v] = late[v]
      BY <1>1, <1>8, <2>2, Moves DEF fetchUrl, Places, Types
    <3>3. late'[w] = IF m_running THEN 0 ELSE 1
      BY <1>1, <2>2, <3>1 DEF Types
    <3>4. TakenLate'
      BY <1>1, <3>2, <3>3 DEF TakenLate
    <3>5. \A v \in Workers : late[v] \in 0 .. 1 /\ late[v] <= taken
      BY <1>1 DEF Types, LateIsTaken
    <3>6. LateIsTaken'
      BY <1>2, <2>2, <3>2, <3>3, <3>5 DEF LateIsTaken
    <3> QED
      BY <3>4, <3>6
  <2> QED
    BY <1>8, <2>1, <2>2 DEF fetchUrl
<1>9. ASSUME NEW w \in Workers, broadcast(w) PROVE TakenLate' /\ LateIsTaken'
  <2>1. \A v \in Workers : pc'[v] \in {"fetchUrl", "wait"} => m_running \/ pc[v] \in {"fetchUrl", "wait"}
    BY <1>1, <1>9 DEF broadcast, Types
  <2> QED
    BY <1>3, <1>9, <2>1 DEF broadcast
<1>10. CASE stop \/ UNCHANGED vars
  BY <1>3, <1>10 DEF stop, vars
<1> QED
  BY <1>5, <1>6, <1>7, <1>8, <1>9, <1>10 DEF Next, Run

-----------------------------------------------------------------------------
(***************************************************************************)
(* Two workers never write the same file, visited.url names a page once for  *)
(* every time it was received, and after stop() a worker takes at most one   *)
(* more link, however many workers there are and whatever the pages link to. *)
(***************************************************************************)
THEOREM CrawlIsOrderly == Spec => []CrawlInv
<1>1. IInv /\ [Next]_vars => IInv'
  BY TypesKept, ListsKept, CountsKept, NumbersKept, LateKept DEF IInv, Counts
<1> QED
  BY <1>1, InitHolds, IInvImplies, PTL DEF Spec

-----------------------------------------------------------------------------
(* A download over MMS. *)

Introduced == {"sent01", "sent02", "sent05", "sent15"}
Dialogue == Introduced \cup {"header", "sent33"}
Reads == {"recv", "read", "got", "write"}
Stages == Dialogue \cup Reads \cup {"run", "connect", "open", "noinfo", "idle", "done"}
LinkStates == {"up", "lost", "ended", "garbage", "shifted"}
Bytes == Mms!Positions \cup {Mms!Foreign}
MmsSessions == [buf : Seq(Bytes), pstart : {Mms!None} \cup Nat, eos : BOOLEAN, playing : BOOLEAN]
Servers == [kind : {"plain", "live", "big header"}, next : 0 .. Packets, stream : {1, 2}, link : LinkStates,
            extras : Nat]

MmsTypes ==
    /\ stage \in Stages /\ caller \in {"info", "thread"}
    /\ Status \in {"IDLE", "CONNECTING", "DOWNLOADING", "ALLDONE", "MAXTRYS"}
    /\ FileSize \in {Mms!None, 0, Mms!FileLen} /\ Ref \in 0 .. MAXRETRYCONN + 1
    /\ RemoteStartPos \in Nat /\ RemoteEndPos \in 0 .. Mms!FileLen /\ LocalStartPos \in Nat
    /\ RemoteBytesReceived \in Nat /\ BlkSize \in Nat /\ Length \in Nat
    /\ m_sthrow \in 0 .. PacketLen - 1 /\ m_hsio \in 0 .. HeaderLen
    /\ data \in Seq(Bytes) /\ Len(data) <= MMS_BUF_SIZE /\ len \in 0 .. MMS_BUF_SIZE
    /\ session \in MmsSessions /\ Len(session.buf) <= PacketLen
    /\ server \in Servers
    /\ file \in [Mms!Positions -> Bytes \cup {Mms!Hole}]

\* A session is introduced, or introduced again while it plays.
Again == stage \in {"header", "sent33"} /\ session.playing

\* Who is at which stage: a query for the size ends before a pthread begins, and what a pthread
\* connects for is not complete yet.
Course ==
    /\ caller = "info" => Status = "IDLE" /\ ~session.playing
                          /\ stage \in Dialogue \cup {"connect", "open", "noinfo", "idle"}
    /\ caller = "thread" => FileSize = Mms!FileLen /\ stage \notin {"noinfo", "idle"}
    /\ stage = "idle" => FileSize = Mms!FileLen
    /\ caller = "thread" /\ stage \notin {"run", "done", "recv"} => RemoteStartPos < RemoteEndPos
    /\ stage \in Dialogue /\ ~session.playing => Ref <= MAXRETRYCONN
    /\ Status = "ALLDONE" => stage = "done"

\* Until the first packet is asked for, nothing of the stream is there.
Opening ==
    /\ stage \in Introduced \cup {"open"} => ~session.playing
    /\ stage \in Dialogue \cup {"open"} /\ ~session.playing =>
          /\ session.buf = <<>> /\ session.pstart = Mms!None /\ ~session.eos
          /\ server.next = 0 /\ server.stream = 1 /\ server.link \in {"up", "lost"}

\* Where a packet begins in the file, and the packet whose bytes the session hands out next.
PacketAt(n) == HeaderLen + n * PacketLen
Due(s, v) == IF v.next < s.pstart THEN s.pstart ELSE v.next
First(s) == IF s.pstart = Mms!None THEN 0 ELSE s.pstart

\* What the session s hands out next belongs at the place p of the file, which is not before the
\* packet that was asked for; of another stream at least as much is left as of this one.
Ahead(p, s, v) ==
    /\ \A i \in 1 .. Len(s.buf) : s.buf[i] \in {p + i - 1, Mms!Foreign}
    /\ PacketAt(First(s)) <= p + Len(s.buf)
    /\ v.link = "up" => PacketAt(Due(s, v)) <= p + Len(s.buf)
    /\ v.link = "up" /\ v.stream = 1 => PacketAt(Due(s, v)) = p + Len(s.buf)
    /\ s.eos => s.buf = <<>> /\ (v.link = "ended" \/ v.next = Packets)

\* The bytes d belong at the place p of the file.
InOrder(p, d) == \A i \in 1 .. Len(d) : d[i] \in {p + i - 1, Mms!Foreign}

Left == RemoteEndPos - RemoteStartPos
Whole == m_hsio = HeaderLen

\* The stream was cut short, or no packet is left of it.
NoneLeft == Mms!Cut \/ RemoteStartPos >= Mms!PacketsEnd

\* Between two reads: the rest of the header, or the stream from the packet that was asked for.
BetweenReads ==
    stage = "recv" =>
        /\ session.playing /\ m_hsize = HeaderLen
        /\ Length = Left \/ (Length = 0 /\ NoneLeft)
        /\ Length > 0 /\ ~Whole => m_sthrow = 0 /\ RemoteStartPos = m_hsio /\ Ahead(HeaderLen, session, server)
        /\ Length > 0 /\ Whole => Ahead(RemoteStartPos - m_sthrow, session, server)

\* In a read, the first m_sthrow bytes lie before the pthread's position.
InRead ==
    stage \in {"read", "got"} \/ Again =>
        /\ session.playing /\ m_hsize = HeaderLen /\ Whole
        /\ Length = Left /\ len \in 1 .. Length /\ Len(data) <= len
        /\ InOrder(RemoteStartPos - m_sthrow, data)
        /\ Ahead(RemoteStartPos - m_sthrow + Len(data), session, server)

\* Before a write, what was thrown away is gone.
BeforeWrite ==
    stage = "write" =>
        /\ session.playing /\ m_hsize = HeaderLen
        /\ Length = Left /\ Len(data) <= Length /\ m_sthrow = 0
        /\ InOrder(RemoteStartPos, data)
        /\ ~Whole => RemoteStartPos + Len(data) = m_hsio /\ Ahead(HeaderLen, session, server)
        /\ Whole => Ahead(RemoteStartPos + Len(data), session, server)

\* A new stream is introduced in the middle of a read; a read without a byte is the end.
Turns ==
    /\ Again => /\ session.buf = <<>> /\ ~session.eos /\ Len(data) < len
                /\ Mms!Running /\ server.stream = 1
    /\ stage = "got" /\ data = <<>> => NoneLeft

MmsInd ==
    /\ MmsTypes /\ Course /\ Opening
    /\ BetweenReads /\ InRead /\ BeforeWrite /\ Turns
    /\ Mms!StoredInPlace /\ Mms!StaysInItsBlock /\ Mms!DoneMeansDone

-----------------------------------------------------------------------------
\* What a pthread has, and what has come of the stream.
block == <<caller, FileSize, RemoteStartPos, RemoteEndPos, LocalStartPos, RemoteBytesReceived, BlkSize, file>>
counters == <<Length, m_hsio, m_hsize, m_sthrow, data, len>>

(* The types of the constants, without the product in the assumption. *)
LEMMA Widths ==
  /\ HeaderLen \in Nat /\ PacketLen \in Nat \ {0} /\ Packets \in Nat /\ IndexLen \in Nat
  /\ MMS_BUF_SIZE \in Nat \ {0} /\ MAXRETRYCONN \in Nat
<1>1. HeaderLen \in Nat /\ PacketLen \in Nat \ {0}
  BY MmsAssumption
<1>2. Packets \in Nat /\ IndexLen \in Nat
  BY MmsAssumption
<1>3. MMS_BUF_SIZE \in Nat \ {0}
  BY MmsAssumption
<1>4. MAXRETRYCONN \in Nat
  BY MmsAssumption
<1> QED
  BY <1>1, <1>2, <1>3, <1>4

(* What a step changes of the server and of the session, by the field. *)
LEMMA LinkMoves ==
  ASSUME NEW s \in Servers, NEW l \in LinkStates, NEW t, t = [s EXCEPT !.link = l]
  PROVE  t \in Servers /\ t.link = l /\ t.next = s.next /\ t.stream = s.stream
BY DEF Servers

(* The same when the server goes on to packet n ... *)
LEMMA NextMoves ==
  ASSUME NEW s \in Servers, NEW n \in 0 .. Packets, NEW t, t = [s EXCEPT !.next = n]
  PROVE  t \in Servers /\ t.next = n /\ t.link = s.link /\ t.stream = s.stream
BY DEF Servers

(* ... when it sends a packet more than was asked for ... *)
LEMMA ExtrasCount == \A s \in Servers : s.extras \in Nat /\ s.extras + 1 \in Nat
<1> SUFFICES ASSUME NEW s \in Servers PROVE s.extras \in Nat
  OBVIOUS
<1> QED
  BY DEF Servers

(* ... whose number only counts ... *)
LEMMA ExtraMoves ==
  ASSUME NEW s \in Servers, NEW t, t = [s EXCEPT !.extras = @ + 1]
  PROVE  t \in Servers /\ t.next = s.next /\ t.link = s.link /\ t.stream = s.stream
<1> DEFINE more == s.extras + 1
<1>1. more \in Nat
  BY ExtrasCount
<1>2. t = [s EXCEPT !.extras = more]
  OBVIOUS
<1> QED
  <2> HIDE DEF more
  <2> QED
    BY <1>1, <1>2 DEF Servers

(* ... when the header grows ... *)
LEMMA KindMoves ==
  ASSUME NEW s \in Servers, NEW k \in {"plain", "big header"}, NEW t, t = [s EXCEPT !.kind = k]
  PROVE  t \in Servers
BY DEF Servers

(* ... and when the session is given other bytes ... *)
LEMMA BufMoves ==
  ASSUME NEW s \in MmsSessions, NEW b \in Seq(Bytes), NEW t, t = [s EXCEPT !.buf = b]
  PROVE  t \in MmsSessions /\ t.buf = b /\ t.pstart = s.pstart /\ t.eos = s.eos /\ t.playing = s.playing
BY DEF MmsSessions

(* ... or the end of the stream. *)
LEMMA EosMoves ==
  ASSUME NEW s \in MmsSessions, NEW t, t = [s EXCEPT !.eos = TRUE]
  PROVE  t \in MmsSessions /\ t.eos /\ t.buf = s.buf /\ t.pstart = s.pstart /\ t.playing = s.playing
BY DEF MmsSessions

(* A server at the beginning of a stream has a next packet, the first. *)
LEMMA BeginsIs ==
  ASSUME server \in Servers, NEW n \in {1, 2}, NEW e \in Nat, server' = Mms!Begins(n, e)
  PROVE  server' \in Servers /\ server'.next = 0 /\ server'.stream = n /\ server'.link = "up"
<1>1. server.kind \in {"plain", "live", "big header"}
  BY DEF Servers
<1>2. 0 \in 0 .. Packets
  BY Widths
<1> QED
  BY <1>1, <1>2 DEF Servers, LinkStates, Mms!Begins

(* Packets lie one after the other from the end of the header to the index. *)
LEMMA PacketsLie ==
  /\ Mms!FileLen \in Nat /\ Mms!PacketsEnd \in Nat
  /\ PacketAt(Packets) = Mms!PacketsEnd /\ Mms!PacketsEnd <= Mms!FileLen
  /\ \A n \in Nat : PacketAt(n) \in Nat /\ PacketAt(n + 1) = PacketAt(n) + PacketLen
  /\ \A m, n \in Nat : m <= n => PacketAt(m) <= PacketAt(n)
<1>1. \A n \in Nat : n * PacketLen \in Nat /\ (n + 1) * PacketLen = n * PacketLen + PacketLen
  BY MmsAssumption
<1>2. \A m, n \in Nat : m <= n => m * PacketLen <= n * PacketLen
  BY MmsAssumption
<1>3. PacketAt(Packets) = Mms!PacketsEnd /\ Mms!PacketsEnd \in Nat
  BY MmsAssumption DEF Mms!PacketsEnd, PacketAt
<1>6. Mms!FileLen \in Nat /\ Mms!PacketsEnd <= Mms!FileLen
  BY <1>3, Widths DEF Mms!FileLen
<1>4. \A n \in Nat : PacketAt(n) \in Nat /\ PacketAt(n + 1) = PacketAt(n) + PacketLen
  BY <1>1, MmsAssumption DEF PacketAt
<1>5. \A m, n \in Nat : m <= n => PacketAt(m) <= PacketAt(n)
  BY <1>1, <1>2, MmsAssumption DEF PacketAt
<1> QED
  BY <1>3, <1>4, <1>5, <1>6

(* The bytes of a packet are those of its place, or of no place at all. *)
LEMMA PacketIs ==
  ASSUME NEW n \in 0 .. Packets - 1
  PROVE  /\ Mms!PacketBytes(n) \in Seq(Bytes) /\ Len(Mms!PacketBytes(n)) = PacketLen
         /\ \A i \in 1 .. PacketLen : Mms!PacketBytes(n)[i] \in {PacketAt(n) + i - 1, Mms!Foreign}
         /\ Mms!Mixed => \A i \in 1 .. PacketLen : Mms!PacketBytes(n)[i] = Mms!Foreign
<1> DEFINE b == Mms!PacketBytes(n)
<1>1. b = [i \in 1 .. PacketLen |-> IF Mms!Mixed THEN Mms!Foreign ELSE PacketAt(n) + i - 1]
  BY DEF Mms!PacketBytes, PacketAt
<1> HIDE DEF b
<1>2. n \in Nat /\ n + 1 \in Nat /\ Packets \in Nat /\ n + 1 <= Packets
  BY MmsAssumption
<1>3. PacketAt(n) \in Nat /\ PacketAt(n) + PacketLen <= Mms!FileLen /\ Mms!FileLen \in Nat
      /\ PacketLen \in Nat \ {0}
  <2>1. PacketAt(n) \in Nat /\ PacketAt(n + 1) = PacketAt(n) + PacketLen /\ PacketAt(n + 1) <= PacketAt(Packets)
    BY <1>2, PacketsLie
  <2> QED
    BY <2>1, PacketsLie, Widths
<1>4. \A i \in 1 .. PacketLen : b[i] \in {PacketAt(n) + i - 1, Mms!Foreign} /\ b[i] \in Bytes
  <2> SUFFICES ASSUME NEW i \in 1 .. PacketLen
               PROVE  b[i] \in {PacketAt(n) + i - 1, Mms!Foreign} /\ b[i] \in Bytes
    OBVIOUS
  <2>1. b[i] = Mms!Foreign \/ b[i] = PacketAt(n) + i - 1
    BY <1>1
  <2>2. PacketAt(n) + i - 1 \in 0 .. Mms!FileLen - 1
    BY <1>3
  <2> QED
    BY <2>1, <2>2 DEF Bytes, Mms!Positions
<1>5. b \in Seq(Bytes) /\ Len(b) = PacketLen
  BY <1>1, <1>4, MmsAssumption
<1> QED
  BY <1>1, <1>4, <1>5 DEF b

(* What is no packet of this stream is foreign from the first byte to the last. *)
LEMMA GarbageIs ==
  ASSUME Mms!Mixed
  PROVE  /\ Mms!PacketBytes(0) \in Seq(Bytes) /\ Len(Mms!PacketBytes(0)) = PacketLen
         /\ \A i \in 1 .. PacketLen : Mms!PacketBytes(0)[i] = Mms!Foreign
<1> DEFINE b == Mms!PacketBytes(0)
<1>1. b = [i \in 1 .. PacketLen |-> Mms!Foreign]
  BY DEF Mms!PacketBytes
<1> HIDE DEF b
<1>2. \A i \in 1 .. PacketLen : b[i] = Mms!Foreign /\ b[i] \in Bytes
  BY <1>1 DEF Bytes
<1>3. b \in Seq(Bytes) /\ Len(b) = PacketLen
  BY <1>1, <1>2, Widths
<1> QED
  BY <1>2, <1>3 DEF b

(***************************************************************************)
(* A failed attempt takes nothing back; a task goes on with the next.       *)
(***************************************************************************)
LEMMA AttemptEnds ==
  ASSUME MmsInd, Mms!Attempted(FALSE), UNCHANGED block, caller = "thread",
         Ref' \in 0 .. MAXRETRYCONN + 1, session' \in MmsSessions, Len(session'.buf) <= PacketLen,
         server' \in Servers, UNCHANGED counters
  PROVE  MmsInd'
<1>1. stage' \in {"run", "done"} /\ Status' \in {"IDLE", "MAXTRYS"}
  BY DEF Mms!Attempted
<1>2. MmsTypes'
  BY <1>1 DEF MmsInd, MmsTypes, block, counters, Stages
<1>3. Course'
  BY <1>1 DEF MmsInd, Course, block, Dialogue, Introduced
<1>4. Opening' /\ BetweenReads' /\ InRead' /\ BeforeWrite' /\ Turns'
  BY <1>1 DEF Opening, BetweenReads, InRead, BeforeWrite, Turns, Again, Dialogue, Introduced
<1>5. Mms!StoredInPlace' /\ Mms!StaysInItsBlock' /\ Mms!DoneMeansDone'
  BY <1>1 DEF MmsInd, block, Mms!StoredInPlace, Mms!StaysInItsBlock, Mms!DoneMeansDone
<1> QED
  BY <1>2, <1>3, <1>4, <1>5 DEF MmsInd

(***************************************************************************)
(* Until a packet is asked for, only the session and the server move.        *)
(***************************************************************************)
LEMMA OpeningGoesOn ==
  ASSUME MmsInd, UNCHANGED block, UNCHANGED <<counters, Status, TryAttempts>>,
         stage \in Dialogue \cup {"connect", "open"},
         stage' \in Dialogue \cup {"connect", "open"},
         Status # "ALLDONE",
         caller = "thread" => RemoteStartPos < RemoteEndPos,
         Ref' \in 0 .. MAXRETRYCONN + 1, stage' \in Dialogue => Ref' <= MAXRETRYCONN,
         session' \in MmsSessions, Len(session'.buf) <= PacketLen, server' \in Servers,
         stage' # "connect" => ~session'.playing,
         caller = "info" => ~session'.playing,
         Opening'
  PROVE  MmsInd'
<1>1. stage' \in Dialogue => ~session'.playing
  BY DEF Dialogue, Introduced
<1>2. MmsTypes'
  BY DEF MmsInd, MmsTypes, block, counters, Stages
<1>3. Course'
  BY DEF MmsInd, Course, block, Dialogue, Introduced
<1>4. BetweenReads' /\ InRead' /\ BeforeWrite' /\ Turns'
  BY <1>1 DEF BetweenReads, InRead, BeforeWrite, Turns, Again, Dialogue, Introduced
<1>5. Mms!StoredInPlace' /\ Mms!StaysInItsBlock' /\ Mms!DoneMeansDone'
  BY DEF MmsInd, block, Mms!StoredInPlace, Mms!StaysInItsBlock, Mms!DoneMeansDone
<1> QED
  BY <1>2, <1>3, <1>4, <1>5 DEF MmsInd

(***************************************************************************)
(* Up to the first packet.                                                  *)
(***************************************************************************)
LEMMA RunKeeps == MmsInd /\ Mms!run => MmsInd'
<1> SUFFICES ASSUME MmsInd, Mms!run PROVE MmsInd'
  OBVIOUS
<1>1. /\ stage = "run" /\ caller = "thread"
      /\ UNCHANGED block /\ UNCHANGED <<counters, session, server, TryAttempts>>
      /\ \/ BlkSize = RemoteBytesReceived /\ stage' = "done" /\ Status' = "ALLDONE" /\ Ref' = Ref
         \/ BlkSize # RemoteBytesReceived /\ stage' = "connect" /\ Status' = "CONNECTING" /\ Ref' = 0
  BY DEF Mms!run, Mms!block, Mms!client, Mms!reading, block, counters, MmsInd, Course, MmsTypes, Dialogue,
     Introduced
<1>2. MmsTypes'
  BY <1>1, Widths DEF MmsInd, MmsTypes, block, counters, Stages
<1>3. RemoteStartPos <= RemoteEndPos /\ (BlkSize = RemoteBytesReceived <=> RemoteStartPos = RemoteEndPos)
  BY <1>1 DEF MmsInd, MmsTypes, Mms!StaysInItsBlock
<1>4. Course'
  BY <1>1, <1>3 DEF MmsInd, MmsTypes, Course, block, Dialogue, Introduced
<1>5. Opening' /\ BetweenReads' /\ InRead' /\ BeforeWrite' /\ Turns'
  BY <1>1 DEF Opening, BetweenReads, InRead, BeforeWrite, Turns, Again, Dialogue, Introduced
<1>6. Mms!StoredInPlace' /\ Mms!StaysInItsBlock'
  BY <1>1 DEF MmsInd, block, Mms!StoredInPlace, Mms!StaysInItsBlock
<1>7. Mms!DoneMeansDone'
  <2>1. RemoteEndPos \in Nat
    BY PacketsLie DEF MmsInd, MmsTypes
  <2>2. RemoteEndPos >= Mms!MinOf(RemoteEndPos, Mms!PacketsEnd)
    BY <2>1, PacketsLie DEF Mms!MinOf
  <2> QED
    BY <1>1, <1>3, <2>2 DEF block, Mms!DoneMeansDone
<1> QED
  BY <1>2, <1>4, <1>5, <1>6, <1>7 DEF MmsInd

(* A connection begins with a fresh session; after MAXRETRYCONN of them the attempt has failed. *)
LEMMA ConnectKeeps == MmsInd /\ Mms!Connect => MmsInd'
<1> SUFFICES ASSUME MmsInd, Mms!Connect PROVE MmsInd'
  OBVIOUS
<1>1. /\ stage = "connect" /\ UNCHANGED block /\ UNCHANGED counters
      /\ session' = Mms!FreshSession
      /\ server' = Mms!Begins(1, 0)
  BY DEF Mms!Connect, Mms!block, Mms!client, Mms!reading, block, counters
<1>2. /\ session' \in MmsSessions /\ session'.buf = <<>> /\ session'.pstart = Mms!None
      /\ ~session'.eos /\ ~session'.playing /\ Len(session'.buf) = 0
  BY <1>1 DEF Mms!FreshSession, MmsSessions
<1>3. server \in Servers
  BY DEF MmsInd, MmsTypes
<1>4. server' \in Servers /\ server'.next = 0 /\ server'.stream = 1 /\ server'.link = "up"
  BY <1>1, <1>3, BeginsIs
<1>5. /\ Ref \in 0 .. MAXRETRYCONN + 1 /\ Status # "ALLDONE" /\ PacketLen \in Nat
      /\ caller \in {"info", "thread"}
      /\ caller = "thread" => RemoteStartPos < RemoteEndPos
  BY <1>1, Widths DEF MmsInd, MmsTypes, Course
<1>6. CASE Ref > MAXRETRYCONN /\ Mms!Failed /\ Ref' = Ref /\ caller = "thread"
  BY <1>1, <1>2, <1>4, <1>5, <1>6, AttemptEnds DEF Mms!Failed
<1>7. CASE Ref > MAXRETRYCONN /\ Mms!Failed /\ Ref' = Ref /\ caller = "info"
  <2>1. stage' = "noinfo" /\ Status' = Status /\ Status = "IDLE"
    BY <1>7 DEF Mms!Failed, MmsInd, Course
  <2>2. MmsTypes'
    BY <1>1, <1>2, <1>4, <1>5, <1>7, <2>1 DEF MmsInd, MmsTypes, block, counters, Stages
  <2>3. Course' /\ Opening' /\ BetweenReads' /\ InRead' /\ BeforeWrite' /\ Turns'
    BY <1>1, <1>2, <1>7, <2>1 DEF Course, block, Opening, BetweenReads, InRead, BeforeWrite, Turns, Again,
                                  Dialogue, Introduced
  <2>4. Mms!StoredInPlace' /\ Mms!StaysInItsBlock' /\ Mms!DoneMeansDone'
    BY <1>1, <2>1 DEF MmsInd, block, Mms!StoredInPlace, Mms!StaysInItsBlock, Mms!DoneMeansDone
  <2> QED
    BY <2>2, <2>3, <2>4 DEF MmsInd
<1>8. CASE /\ ~(Ref > MAXRETRYCONN)
           /\ \/ stage' = "sent01" /\ UNCHANGED <<Ref, Status, TryAttempts>>
              \/ Ref' = Ref + 1 /\ stage' = "connect" /\ UNCHANGED <<Status, TryAttempts>>
  <2>1. Opening'
    BY <1>2, <1>4 DEF Opening
  <2>2. Ref' \in 0 .. MAXRETRYCONN + 1 /\ (stage' \in Dialogue => Ref' <= MAXRETRYCONN)
    BY <1>5, <1>8, Widths DEF Dialogue, Introduced
  <2>3. stage' \in Dialogue \cup {"connect", "open"} /\ UNCHANGED <<counters, Status, TryAttempts>>
    BY <1>1, <1>8 DEF Dialogue, Introduced
  <2> QED
    BY <1>1, <1>2, <1>4, <1>5, <2>1, <2>2, <2>3, OpeningGoesOn
<1>9. IF Ref > MAXRETRYCONN THEN Mms!Failed /\ UNCHANGED Ref
      ELSE \/ stage' = "sent01" /\ UNCHANGED <<Ref, Status, TryAttempts>>
           \/ Mms!Retry
  BY DEF Mms!Connect
<1>10. CASE Ref > MAXRETRYCONN
  <2>1. Mms!Failed /\ Ref' = Ref
    BY <1>9, <1>10
  <2>2. CASE caller = "thread"
    BY <1>6, <1>10, <2>1, <2>2
  <2>3. CASE caller = "info"
    BY <1>7, <1>10, <2>1, <2>3
  <2> QED
    BY <1>5, <2>2, <2>3
<1>11. CASE ~(Ref > MAXRETRYCONN)
  BY <1>8, <1>9, <1>11 DEF Mms!Retry
<1> QED
  BY <1>10, <1>11

(* An answer of the server before anything is asked for. *)
LEMMA AnswerKeeps == MmsInd /\ (Mms!get_answer \/ Mms!get_asf_header) => MmsInd'
<1> SUFFICES ASSUME MmsInd, Mms!get_answer \/ Mms!get_asf_header PROVE MmsInd'
  OBVIOUS
<1>1. /\ stage \in Dialogue /\ ~session.playing /\ UNCHANGED block /\ UNCHANGED <<counters, session>>
      /\ \/ stage' \in Dialogue \cup {"open"} /\ UNCHANGED <<server, Ref>>
         \/ stage' = stage /\ Mms!Extra /\ UNCHANGED Ref
         \/ stage' = "connect" /\ Ref' = Ref + 1 /\ UNCHANGED server
         \/ stage' = "open" /\ Mms!Breaks("lost") /\ UNCHANGED Ref
      /\ UNCHANGED <<Status, TryAttempts>>
  BY DEF Mms!get_answer, Mms!get_asf_header, Mms!block, Mms!client, Mms!reading, block, counters, Mms!Dialogue,
         Mms!AfterAnswer, Mms!Retry, Dialogue, Introduced
<1>2. /\ Ref \in 0 .. MAXRETRYCONN /\ Status # "ALLDONE"
      /\ caller = "thread" => RemoteStartPos < RemoteEndPos
      /\ session \in MmsSessions /\ Len(session.buf) <= PacketLen /\ server \in Servers
  BY <1>1, Widths DEF MmsInd, MmsTypes, Course, Dialogue, Introduced
<1>3. /\ server' \in Servers /\ server'.next = server.next /\ server'.stream = server.stream
      /\ server'.link \in {server.link, "lost"}
  <2>1. server' = server \/ server' = [server EXCEPT !.extras = @ + 1]
       \/ server' = [server EXCEPT !.link = "lost"]
    BY <1>1 DEF Mms!Extra, Mms!Breaks
  <2>2. "lost" \in LinkStates
    BY DEF LinkStates
  <2> QED
    BY <1>2, <2>1, <2>2, ExtraMoves, LinkMoves
<1>4. Opening'
  BY <1>1, <1>3 DEF MmsInd, Opening, Dialogue, Introduced
<1>5. /\ stage' \in Dialogue \cup {"connect", "open"} /\ Ref' \in 0 .. MAXRETRYCONN + 1
      /\ stage' \in Dialogue => Ref' <= MAXRETRYCONN
  BY <1>1, <1>2, Widths DEF Dialogue, Introduced
<1> QED
  BY <1>1, <1>2, <1>3, <1>4, <1>5, OpeningGoesOn

(* The query for the size leaves nothing of the stream behind. *)
LEMMA SizeKeeps == MmsInd /\ Mms!SizeKnown => MmsInd'
<1> SUFFICES ASSUME MmsInd, Mms!SizeKnown PROVE MmsInd'
  OBVIOUS
<1>1. /\ stage = "open" /\ caller = "info" /\ stage' \in {"noinfo", "idle"}
      /\ FileSize' \in {FileSize, Mms!None, Mms!FileLen} /\ (stage' = "idle" => FileSize' = Mms!FileLen)
      /\ UNCHANGED <<caller, Status, RemoteStartPos, RemoteEndPos, LocalStartPos, RemoteBytesReceived, BlkSize,
                     TryAttempts, Ref, session, server, file>>
      /\ UNCHANGED counters
  BY DEF Mms!SizeKnown, Mms!thread, Mms!client, Mms!reading, counters
<1>2. MmsTypes'
  BY <1>1 DEF MmsInd, MmsTypes, counters, Stages
<1>3. Course' /\ Opening' /\ BetweenReads' /\ InRead' /\ BeforeWrite' /\ Turns'
  BY <1>1 DEF MmsInd, Course, Opening, BetweenReads, InRead, BeforeWrite, Turns, Again, Dialogue, Introduced
<1>4. Mms!StoredInPlace' /\ Mms!StaysInItsBlock' /\ Mms!DoneMeansDone'
  BY <1>1 DEF MmsInd, Mms!StoredInPlace, Mms!StaysInItsBlock, Mms!DoneMeansDone, Mms!Cut
<1> QED
  BY <1>2, <1>3, <1>4 DEF MmsInd

(* A pthread begins with what its block had before. *)
LEMMA StartKeeps == MmsInd /\ Mms!StartThread => MmsInd'
<1> SUFFICES ASSUME MmsInd, Mms!StartThread PROVE MmsInd'
  OBVIOUS
<1>1. PICK s \in Starts, e \in Starts \cup {FileSize}, r \in 0 .. FileSize - 1 :
          /\ s <= r /\ r < e
          /\ RemoteStartPos' = r /\ LocalStartPos' = r
          /\ RemoteEndPos' = e /\ BlkSize' = e - s /\ RemoteBytesReceived' = r - s
          /\ file' = [p \in Mms!Positions |-> IF p \in s .. r - 1 THEN p ELSE Mms!Hole]
  BY DEF Mms!StartThread
<1>2. /\ stage = "idle" /\ caller' = "thread" /\ stage' = "run" /\ Status' = "IDLE"
      /\ UNCHANGED <<FileSize, Ref, session>> /\ UNCHANGED counters
      /\ \E k \in {"plain", "big header"} : server' = [server EXCEPT !.kind = k]
  BY DEF Mms!StartThread, Mms!client, Mms!reading, counters
<1>3. FileSize = Mms!FileLen /\ Mms!FileLen \in Nat /\ Starts \subseteq 0 .. Mms!FileLen - 1
  <2>1. FileSize = Mms!FileLen
    BY <1>2 DEF MmsInd, Course
  <2>2. Starts \subseteq 0 .. Mms!FileLen - 1
    BY MmsAssumption DEF Mms!FileLen, Mms!PacketsEnd
  <2> QED
    BY <2>1, <2>2, PacketsLie
<1>4. s \in Nat /\ r \in Nat /\ e \in 0 .. Mms!FileLen
  BY <1>1, <1>3
<1>5. file' \in [Mms!Positions -> Bytes \cup {Mms!Hole}] /\ \A p \in Mms!Positions : file'[p] \in {p, Mms!Hole}
  BY <1>1 DEF Bytes
<1>6. server' \in Servers
  <2>1. server \in Servers
    BY DEF MmsInd, MmsTypes
  <2> QED
    BY <1>2, <2>1, KindMoves
<1>7. MmsTypes'
  <2>1. RemoteBytesReceived' \in Nat /\ BlkSize' \in Nat /\ RemoteStartPos' \in Nat /\ LocalStartPos' \in Nat
        /\ RemoteEndPos' \in 0 .. Mms!FileLen
    BY <1>1, <1>4
  <2> QED
    BY <1>2, <1>5, <1>6, <2>1 DEF MmsInd, MmsTypes, counters, Stages
<1>8. Course' /\ Opening' /\ BetweenReads' /\ InRead' /\ BeforeWrite' /\ Turns'
  BY <1>2, <1>3 DEF Course, Opening, BetweenReads, InRead, BeforeWrite, Turns, Again, Dialogue, Introduced
<1>9. Mms!StoredInPlace' /\ Mms!DoneMeansDone'
  BY <1>2, <1>5 DEF Mms!StoredInPlace, Mms!DoneMeansDone
<1>10. Mms!StaysInItsBlock'
  <2>1. \A p \in Mms!Positions : file'[p] # Mms!Hole <=> p \in s .. r - 1
    BY <1>1, <1>3 DEF Mms!Positions, Mms!Hole
  <2>2. e - (e - s) = s /\ r - (r - s) = s
    BY <1>4
  <2> QED
    BY <1>1, <1>4, <2>1, <2>2 DEF Mms!StaysInItsBlock
<1> QED
  BY <1>7, <1>8, <1>9, <1>10 DEF MmsInd

(***************************************************************************)
(* What is thrown away of the packet that is asked for lies before the       *)
(* position.                                                                *)
(***************************************************************************)
LEMMA Asked ==
  ASSUME RemoteStartPos \in 0 .. Mms!FileLen - 1
  PROVE  /\ Mms!Sindex \in Nat /\ Mms!Sthrow \in 0 .. PacketLen - 1
         /\ PacketAt(0) = HeaderLen
         /\ RemoteStartPos < HeaderLen => Mms!Sindex = 0 /\ Mms!Sthrow = 0
         /\ RemoteStartPos >= HeaderLen => PacketAt(Mms!Sindex) = RemoteStartPos - Mms!Sthrow
<1> DEFINE i == Mms!Sindex
           t == Mms!Sthrow
<1>1. Mms!Spos \in Nat /\ RemoteStartPos \in Nat /\ (RemoteStartPos < HeaderLen => Mms!Spos = 0)
      /\ (RemoteStartPos >= HeaderLen => Mms!Spos = RemoteStartPos - HeaderLen)
  BY Widths, PacketsLie DEF Mms!Spos
<1>2. i \in Nat /\ t \in 0 .. PacketLen - 1 /\ Mms!Spos = PacketLen * i + t
  BY <1>1, Widths DEF Mms!Sindex, Mms!Sthrow
<1> HIDE DEF i, t
<1>3. PacketAt(i) = HeaderLen + Mms!Spos - t
  BY <1>1, <1>2, Widths DEF PacketAt
<1>4. PacketAt(0) = HeaderLen /\ PacketAt(1) = HeaderLen + PacketLen
  BY Widths DEF PacketAt
<1>5. RemoteStartPos < HeaderLen => i = 0 /\ t = 0
  <2> SUFFICES ASSUME RemoteStartPos < HeaderLen PROVE i = 0 /\ t = 0
    OBVIOUS
  <2>1. PacketAt(i) <= HeaderLen
    BY <1>1, <1>2, <1>3, Widths
  <2>2. ~(1 <= i)
    <3> SUFFICES ASSUME 1 <= i PROVE FALSE
      OBVIOUS
    <3>1. PacketAt(1) <= PacketAt(i) /\ PacketAt(i) \in Nat
      BY <1>2, PacketsLie
    <3> QED
      BY <2>1, <3>1, <1>4, Widths
  <2>3. i = 0
    BY <1>2, <2>2
  <2> QED
    BY <1>1, <1>2, <1>3, <1>4, <2>3, Widths
<1> QED
  BY <1>1, <1>2, <1>3, <1>4, <1>5, Widths DEF i, t

(* The rest of the header comes from m_hbuffer, or the packet of the position is asked for. *)
LEMMA PreProcessKeeps == MmsInd /\ Mms!PreProcess => MmsInd'
<1> SUFFICES ASSUME MmsInd, Mms!PreProcess PROVE MmsInd'
  OBVIOUS
<1> DEFINE ask == IF Mms!Sindex > 0 THEN Mms!Sindex ELSE Mms!None
           begun(first) == IF first > Mms!Sindex /\ server.link = "up" THEN "shifted" ELSE server.link
<1>1. stage = "open" /\ caller = "thread" /\ UNCHANGED block /\ UNCHANGED <<Ref, data, len>>
  BY DEF Mms!PreProcess, Mms!block, Mms!reading, block
<1>2. /\ session \in MmsSessions /\ Len(session.buf) <= PacketLen /\ server \in Servers
      /\ Ref \in 0 .. MAXRETRYCONN + 1
      /\ RemoteStartPos \in Nat /\ RemoteEndPos \in 0 .. Mms!FileLen /\ RemoteStartPos < RemoteEndPos
  BY <1>1 DEF MmsInd, MmsTypes, Course
<1>3. CASE Mms!Attempted(FALSE) /\ UNCHANGED <<Length, m_hsio, m_hsize, m_sthrow, session, server>>
  <2>1. UNCHANGED counters
    BY <1>1, <1>3 DEF counters
  <2> QED
    BY <1>1, <1>2, <1>3, <2>1, AttemptEnds
<1>4. CASE /\ Status' = "DOWNLOADING" /\ stage' = "recv"
           /\ Length' = RemoteEndPos - RemoteStartPos
           /\ m_hsize' = HeaderLen
           /\ m_hsio' = (IF RemoteStartPos < HeaderLen THEN RemoteStartPos ELSE HeaderLen)
           /\ m_sthrow' = Mms!Sthrow
           /\ session' = [buf |-> session.buf, pstart |-> ask, eos |-> session.eos, playing |-> TRUE]
           /\ \/ \E first \in 0 .. Packets : server' = [server EXCEPT !.next = first, !.link = begun(first)]
              \/ Mms!Breaks("lost")
  <2>1. RemoteStartPos \in 0 .. Mms!FileLen - 1
    BY <1>2, PacketsLie
  <2>2. /\ Mms!Sindex \in Nat /\ Mms!Sthrow \in 0 .. PacketLen - 1
        /\ PacketAt(0) = HeaderLen
        /\ RemoteStartPos < HeaderLen => Mms!Sindex = 0 /\ Mms!Sthrow = 0
        /\ RemoteStartPos >= HeaderLen => PacketAt(Mms!Sindex) = RemoteStartPos - Mms!Sthrow
    BY <2>1, Asked
  <2>3. /\ session.buf = <<>> /\ ~session.eos
        /\ server.next = 0 /\ server.stream = 1 /\ server.link \in {"up", "lost"}
    BY <1>1 DEF MmsInd, Opening
  <2>4. ask \in {Mms!None} \cup Nat
    BY <2>2, Widths
  <2>5. /\ session' \in MmsSessions /\ session'.buf = <<>> /\ ~session'.eos /\ session'.playing
        /\ session'.pstart = ask
    <3>1. session.buf \in Seq(Bytes) /\ session.eos \in BOOLEAN
      BY <1>2 DEF MmsSessions
    <3> HIDE DEF ask
    <3> QED
      BY <1>4, <2>3, <2>4, <3>1 DEF MmsSessions
  <2>6. /\ server' \in Servers /\ server'.next \in 0 .. Packets /\ server'.stream = 1
        /\ server'.link = "up" => server'.next <= Mms!Sindex
    <3>1. {"up", "lost", "shifted"} \subseteq LinkStates /\ 0 \in 0 .. Packets
      BY Widths DEF LinkStates
    <3>2. ASSUME NEW first \in 0 .. Packets, server' = [server EXCEPT !.next = first, !.link = begun(first)]
          PROVE  /\ server' \in Servers /\ server'.next = first /\ server'.link = begun(first)
                 /\ server'.stream = 1 /\ (begun(first) = "up" => first <= Mms!Sindex)
      <4>1. begun(first) \in {"up", "lost", "shifted"} /\ (begun(first) = "up" => first <= Mms!Sindex)
        BY <2>2, <2>3, Widths
      <4> HIDE DEF begun
      <4>2. begun(first) \in LinkStates
        BY <3>1, <4>1
      <4>3. server \in Servers /\ server' = [server EXCEPT !.next = first, !.link = begun(first)]
        BY <1>2, <3>2
      <4>4. /\ server' \in Servers /\ server'.next = first /\ server'.link = begun(first)
            /\ server'.stream = server.stream
        <5> DEFINE l == begun(first)
        <5>1. l \in LinkStates /\ server' = [server EXCEPT !.next = first, !.link = l]
          BY <4>2, <4>3
        <5> HIDE DEF l
        <5>2. server' \in Servers /\ server'.next = first /\ server'.link = l /\ server'.stream = server.stream
          BY <4>3, <5>1 DEF Servers
        <5> QED
          BY <5>2 DEF l
      <4> QED
        BY <2>3, <4>1, <4>4
    <3>3. CASE \E first \in 0 .. Packets : server' = [server EXCEPT !.next = first, !.link = begun(first)]
      <4> HIDE DEF begun
      <4> QED
        BY <2>5, <3>2, <3>3
    <3>4. CASE Mms!Breaks("lost")
      BY <1>2, <2>3, <2>5, <3>1, <3>4, LinkMoves DEF Mms!Breaks
    <3> QED
      BY <1>4, <3>3, <3>4
  <2>7. First(session') = Mms!Sindex /\ (server'.link = "up" => Due(session', server') = Mms!Sindex)
    <3>1. session'.pstart = ask /\ ask = (IF Mms!Sindex > 0 THEN Mms!Sindex ELSE Mms!None)
      BY <2>5
    <3>2. server'.next \in Nat /\ (server'.link = "up" => server'.next <= Mms!Sindex)
      BY <2>6, Widths
    <3> QED
      BY <2>2, <3>1, <3>2 DEF Due, First, Mms!None
  <2>8. /\ RemoteStartPos < HeaderLen => Ahead(HeaderLen, session', server')
        /\ RemoteStartPos >= HeaderLen => Ahead(RemoteStartPos - Mms!Sthrow, session', server')
    <3>1. Len(session'.buf) = 0
      BY <2>5
    <3>2. \A p \in Int : PacketAt(Mms!Sindex) = p => Ahead(p, session', server')
      BY <2>5, <2>7, <3>1 DEF Ahead
    <3> QED
      BY <1>2, <2>2, <3>2, Widths
  <2>9. MmsTypes'
    <3>1. Length' \in Nat /\ m_hsio' \in 0 .. HeaderLen /\ m_sthrow' \in 0 .. PacketLen - 1
      <4>1. /\ Length' = RemoteEndPos - RemoteStartPos /\ m_sthrow' = Mms!Sthrow
            /\ m_hsio' = IF RemoteStartPos < HeaderLen THEN RemoteStartPos ELSE HeaderLen
        BY <1>4
      <4>2. Mms!FileLen \in Nat
        BY PacketsLie
      <4> QED
        BY <1>2, <2>2, <4>1, <4>2, Widths
    <3>2. Len(session'.buf) <= PacketLen
      BY <2>5, Widths
    <3> QED
      BY <1>1, <1>4, <2>5, <2>6, <3>1, <3>2 DEF MmsInd, MmsTypes, block, Stages, Reads
  <2>10. Course' /\ Opening' /\ InRead' /\ BeforeWrite' /\ Turns'
    BY <1>1, <1>4, <2>5 DEF MmsInd, Course, block, Opening, InRead, BeforeWrite, Turns, Again, Dialogue,
       Introduced
  <2>11. BetweenReads'
    <3>1. /\ session'.playing /\ m_hsize' = HeaderLen /\ Length' = Left'
          /\ RemoteStartPos' = RemoteStartPos
      BY <1>1, <1>4, <2>5 DEF Left, block
    <3>2. CASE RemoteStartPos < HeaderLen
      <4>1. m_hsio' = RemoteStartPos /\ ~Whole' /\ m_sthrow' = 0 /\ Ahead(HeaderLen, session', server')
        <5>1. m_hsio' = RemoteStartPos /\ m_sthrow' = Mms!Sthrow
          BY <1>4, <3>2
        <5>2. ~Whole'
          BY <1>2, <3>2, <5>1, Widths DEF Whole
        <5> QED
          BY <2>2, <2>8, <3>2, <5>1, <5>2
      <4> QED
        BY <3>1, <4>1 DEF BetweenReads
    <3>3. CASE RemoteStartPos >= HeaderLen
      BY <1>2, <1>4, <2>2, <2>8, <3>1, <3>3, Widths DEF BetweenReads, Whole
    <3> QED
      BY <1>2, <3>2, <3>3, Widths
  <2>12. Mms!StoredInPlace' /\ Mms!StaysInItsBlock' /\ Mms!DoneMeansDone'
    BY <1>1, <1>4 DEF MmsInd, block, Mms!StoredInPlace, Mms!StaysInItsBlock, Mms!DoneMeansDone
  <2> QED
    BY <2>9, <2>10, <2>11, <2>12 DEF MmsInd
<1> QED
  BY <1>1, <1>3, <1>4 DEF Mms!PreProcess, Mms!client

(***************************************************************************)
(* The loop of retrKnownSizeFile.                                           *)
(***************************************************************************)
LEMMA RecvKeeps == MmsInd /\ Mms!Recv => MmsInd'
<1> SUFFICES ASSUME MmsInd, Mms!Recv PROVE MmsInd'
  OBVIOUS
<1>1. /\ stage = "recv" /\ Length > 0 /\ UNCHANGED block
      /\ UNCHANGED <<Status, TryAttempts, Length, Ref, m_hsize, m_sthrow, session, server>>
  BY DEF Mms!Recv, Mms!block, Mms!thread, block
<1>2. /\ Length \in Nat /\ Length = Left /\ m_hsize = HeaderLen /\ session.playing
      /\ RemoteStartPos \in Nat /\ RemoteEndPos \in 0 .. Mms!FileLen
      /\ m_hsio \in 0 .. HeaderLen /\ m_sthrow \in 0 .. PacketLen - 1
      /\ ~Whole => m_sthrow = 0 /\ RemoteStartPos = m_hsio /\ Ahead(HeaderLen, session, server)
      /\ Whole => Ahead(RemoteStartPos - m_sthrow, session, server)
  BY <1>1 DEF MmsInd, MmsTypes, BetweenReads
<1>3. RemoteStartPos < RemoteEndPos /\ caller = "thread" /\ Status # "ALLDONE"
  BY <1>1, <1>2 DEF Left, MmsInd, MmsTypes, Course, Dialogue, Introduced
<1>4. /\ Mms!Want \in 1 .. Length /\ Mms!Want <= MMS_BUF_SIZE
  BY <1>1, <1>2, Widths DEF Mms!Want, Mms!MinOf
<1>5. CASE m_hsio < m_hsize
  <2> DEFINE n == Mms!MinOf(Mms!Want, m_hsize - m_hsio)
  <2>1. /\ data' = [i \in 1 .. n |-> m_hsio + i - 1] /\ m_hsio' = m_hsio + n
        /\ stage' = "write" /\ UNCHANGED len
    BY <1>5 DEF Mms!Recv
  <2>2. n \in 1 .. Length /\ n <= MMS_BUF_SIZE /\ m_hsio + n <= HeaderLen
    BY <1>2, <1>4, <1>5, Widths DEF Mms!MinOf
  <2> HIDE DEF n
  <2>3. \A i \in 1 .. n : m_hsio + i - 1 \in Bytes
    <3>1. HeaderLen <= Mms!FileLen /\ Mms!FileLen \in Nat
      <4>1. PacketAt(0) = HeaderLen /\ PacketAt(0) <= PacketAt(Packets)
        BY PacketsLie, Widths DEF PacketAt
      <4> QED
        BY <4>1, PacketsLie, Widths
    <3>2. \A i \in 1 .. n : m_hsio + i - 1 \in 0 .. Mms!FileLen - 1
      BY <1>2, <2>2, <3>1, Widths
    <3> QED
      BY <3>2 DEF Bytes, Mms!Positions
  <2>4. data' \in Seq(Bytes) /\ Len(data') = n /\ \A i \in 1 .. n : data'[i] = m_hsio + i - 1
    BY <1>2, <2>1, <2>2, <2>3
  <2>5. ~Whole
    BY <1>2, <1>5, Widths DEF Whole
  <2>6. MmsTypes'
    <3>1. Len(data') <= MMS_BUF_SIZE /\ m_hsio' \in 0 .. HeaderLen
      BY <1>2, <2>1, <2>2, <2>4, Widths
    <3> QED
      BY <1>1, <2>1, <2>4, <3>1 DEF MmsInd, MmsTypes, block, Stages, Reads
  <2>7. Course' /\ Opening' /\ BetweenReads' /\ InRead' /\ Turns'
    BY <1>1, <1>3, <2>1 DEF MmsInd, Course, block, Opening, InRead, BetweenReads, Turns, Again, Dialogue,
       Introduced
  <2>8. BeforeWrite'
    <3>1. /\ RemoteStartPos' = RemoteStartPos /\ m_sthrow' = 0 /\ RemoteStartPos = m_hsio /\ Length' = Left'
          /\ session' = session /\ server' = server /\ m_hsize' = HeaderLen
      BY <1>1, <1>2, <2>5 DEF Left, block
    <3>2. InOrder(RemoteStartPos', data')
      BY <2>4, <3>1 DEF InOrder
    <3>3. RemoteStartPos' + Len(data') = m_hsio' /\ Len(data') <= Length'
      BY <1>1, <1>2, <2>1, <2>2, <2>4, <3>1
    <3>4. Ahead(HeaderLen, session', server')
      BY <1>2, <2>5, <3>1
    <3> QED
      BY <1>2, <3>1, <3>2, <3>3, <3>4 DEF BeforeWrite, Whole
  <2>9. Mms!StoredInPlace' /\ Mms!StaysInItsBlock' /\ Mms!DoneMeansDone'
    BY <1>1, <1>3 DEF MmsInd, block, Mms!StoredInPlace, Mms!StaysInItsBlock, Mms!DoneMeansDone
  <2> QED
    BY <2>6, <2>7, <2>8, <2>9 DEF MmsInd
<1>6. CASE ~(m_hsio < m_hsize)
  <2>1. data' = <<>> /\ len' = Mms!Want /\ stage' = "read" /\ UNCHANGED m_hsio
    BY <1>6 DEF Mms!Recv
  <2>2. data' \in Seq(Bytes) /\ Len(data') = 0
    BY <2>1
  <2>3. Whole
    BY <1>2, <1>6, Widths DEF Whole
  <2>4. MmsTypes'
    <3>1. Len(data') <= MMS_BUF_SIZE /\ len' \in 0 .. MMS_BUF_SIZE
      BY <1>2, <1>4, <2>1, <2>2, Widths
    <3> QED
      BY <1>1, <2>1, <2>2, <3>1 DEF MmsInd, MmsTypes, block, Stages, Reads
  <2>5. Course' /\ Opening' /\ BetweenReads' /\ BeforeWrite' /\ Turns'
    BY <1>1, <1>3, <2>1 DEF MmsInd, Course, block, Opening, BeforeWrite, BetweenReads, Turns, Again, Dialogue,
                            Introduced
  <2>6. InRead'
    <3>1. /\ RemoteStartPos' = RemoteStartPos /\ m_sthrow' = m_sthrow /\ Length' = Left' /\ Length' = Length
          /\ session' = session /\ server' = server /\ m_hsize' = HeaderLen /\ Whole'
      BY <1>1, <1>2, <2>1, <2>3 DEF Left, block, Whole
    <3>2. InOrder(RemoteStartPos' - m_sthrow', data')
      BY <2>2 DEF InOrder
    <3>3. Ahead(RemoteStartPos' - m_sthrow' + Len(data'), session', server')
      <4>1. RemoteStartPos' - m_sthrow' + Len(data') = RemoteStartPos - m_sthrow
        BY <1>2, <2>2, <3>1, Widths
      <4> QED
        BY <1>2, <2>3, <3>1, <4>1
    <3>4. len' \in 1 .. Length' /\ Len(data') <= len'
      BY <1>2, <1>4, <2>1, <2>2, <3>1
    <3> QED
      BY <1>2, <3>1, <3>2, <3>3, <3>4 DEF InRead
  <2>7. Mms!StoredInPlace' /\ Mms!StaysInItsBlock' /\ Mms!DoneMeansDone'
    BY <1>1, <1>3 DEF MmsInd, block, Mms!StoredInPlace, Mms!StaysInItsBlock, Mms!DoneMeansDone
  <2> QED
    BY <2>4, <2>5, <2>6, <2>7 DEF MmsInd
<1> QED
  BY <1>5, <1>6

(***************************************************************************)
(* What a read rests on, and what suffices for the next step of one.         *)
(***************************************************************************)
LEMMA Reading ==
  ASSUME MmsInd, stage \in {"read", "got"} \/ Again
  PROVE  /\ caller = "thread" /\ Status # "ALLDONE" /\ session.playing
         /\ RemoteStartPos \in Nat /\ RemoteEndPos \in 0 .. Mms!FileLen /\ RemoteStartPos < RemoteEndPos
         /\ m_sthrow \in 0 .. PacketLen - 1 /\ len \in 1 .. Length /\ len <= MMS_BUF_SIZE
         /\ Length = Left /\ Length \in Nat
         /\ data \in Seq(Bytes) /\ Len(data) <= len /\ InOrder(RemoteStartPos - m_sthrow, data)
         /\ session \in MmsSessions /\ Len(session.buf) <= PacketLen /\ session.buf \in Seq(Bytes)
         /\ server \in Servers /\ server.next \in 0 .. Packets
         /\ Ahead(RemoteStartPos - m_sthrow + Len(data), session, server)
         /\ Mms!FileLen \in Nat
<1>1. /\ session.playing /\ Length = Left /\ len \in 1 .. Length /\ Len(data) <= len
      /\ InOrder(RemoteStartPos - m_sthrow, data)
      /\ Ahead(RemoteStartPos - m_sthrow + Len(data), session, server)
  BY DEF MmsInd, InRead
<1>2. /\ RemoteStartPos \in Nat /\ RemoteEndPos \in 0 .. Mms!FileLen
      /\ m_sthrow \in 0 .. PacketLen - 1 /\ len <= MMS_BUF_SIZE /\ Length \in Nat
      /\ data \in Seq(Bytes)
      /\ session \in MmsSessions /\ Len(session.buf) <= PacketLen /\ server \in Servers
  BY <1>1, Widths DEF MmsInd, MmsTypes
<1>3. caller = "thread" /\ Status # "ALLDONE" /\ RemoteStartPos < RemoteEndPos
  BY <1>1 DEF MmsInd, MmsTypes, Course, Again
<1>4. session.buf \in Seq(Bytes) /\ server.next \in 0 .. Packets
  BY <1>2 DEF MmsSessions, Servers
<1> QED
  BY <1>1, <1>2, <1>3, <1>4, PacketsLie

(* A read goes on when what it has copied stays in place, and the session ahead of it. *)
LEMMA ReadGoesOn ==
  ASSUME MmsInd, stage \in {"read", "got"} \/ Again, UNCHANGED block,
         UNCHANGED <<Status, TryAttempts, Length, Ref, m_hsio, m_hsize, len>>,
         stage' \in {"read", "got", "header", "sent33"},
         m_sthrow' \in 0 .. PacketLen - 1, data' \in Seq(Bytes), Len(data') <= len,
         session' \in MmsSessions, Len(session'.buf) <= PacketLen, session'.playing, server' \in Servers,
         InOrder(RemoteStartPos - m_sthrow', data'),
         Ahead(RemoteStartPos - m_sthrow' + Len(data'), session', server'),
         Turns'
  PROVE  MmsInd'
<1>1. /\ caller = "thread" /\ Status # "ALLDONE" /\ RemoteStartPos < RemoteEndPos
      /\ len <= MMS_BUF_SIZE /\ len \in 1 .. Length /\ Length = Left /\ Length \in Nat
  BY Reading
<1>2. m_hsize = HeaderLen /\ Whole
  BY DEF MmsInd, InRead
<1>3. MmsTypes'
  <2>1. Len(data') <= MMS_BUF_SIZE
    BY <1>1, Widths
  <2> QED
    BY <1>1, <2>1 DEF MmsInd, MmsTypes, block, Stages, Reads, Dialogue
<1>4. Course' /\ Opening' /\ BetweenReads' /\ BeforeWrite'
  BY <1>1 DEF MmsInd, Course, block, Opening, BetweenReads, BeforeWrite, Dialogue, Introduced
<1>5. InRead'
  BY <1>1, <1>2 DEF InRead, Whole, Left, block
<1>6. Mms!StoredInPlace' /\ Mms!StaysInItsBlock' /\ Mms!DoneMeansDone'
  BY <1>1 DEF MmsInd, block, Mms!StoredInPlace, Mms!StaysInItsBlock, Mms!DoneMeansDone
<1> QED
  BY <1>3, <1>4, <1>5, <1>6 DEF MmsInd

(***************************************************************************)
(* Of the stream a read takes bytes in their order, and packets in theirs.   *)
(***************************************************************************)
LEMMA ReadKeeps == MmsInd /\ Mms!mmst_read => MmsInd'
<1> SUFFICES ASSUME MmsInd, Mms!mmst_read PROVE MmsInd'
  OBVIOUS
<1> DEFINE at == RemoteStartPos - m_sthrow
<1>1. /\ stage = "read" /\ UNCHANGED block
      /\ UNCHANGED <<Status, TryAttempts, Length, Ref, m_hsio, m_hsize, m_sthrow, len, server>>
  BY DEF Mms!mmst_read, Mms!block, Mms!thread, Mms!client, block
<1>2. /\ RemoteStartPos \in Nat /\ RemoteEndPos \in 0 .. Mms!FileLen /\ RemoteStartPos < RemoteEndPos
      /\ m_sthrow \in 0 .. PacketLen - 1 /\ len \in Nat /\ len >= 1
      /\ data \in Seq(Bytes) /\ Len(data) <= len /\ InOrder(at, data)
      /\ session \in MmsSessions /\ Len(session.buf) <= PacketLen /\ session.playing
      /\ session.buf \in Seq(Bytes)
      /\ server \in Servers /\ server.next \in 0 .. Packets
      /\ Ahead(at + Len(data), session, server)
      /\ Mms!FileLen \in Nat
  BY <1>1, Reading
<1>3. at \in Int /\ Len(data) \in Nat /\ Len(session.buf) \in Nat
  BY <1>2, Widths
<1>4. CASE (Len(data) = len \/ session.eos) /\ stage' = "got" /\ UNCHANGED <<data, session>>
  <2>1. data = <<>> => NoneLeft
    <3> SUFFICES ASSUME data = <<>>, server.link = "up" PROVE RemoteStartPos >= Mms!PacketsEnd
      BY DEF NoneLeft, Mms!Cut
    <3>1. session.eos
      BY <1>2, <1>4
    <3>2. session.buf = <<>> /\ server.next = Packets
          /\ PacketAt(Due(session, server)) <= at + Len(data) + Len(session.buf)
      BY <1>2, <3>1 DEF Ahead
    <3>3. session.pstart \in {Mms!None} \cup Nat
      BY <1>2 DEF MmsSessions
    <3>4. Due(session, server) \in Nat /\ Packets <= Due(session, server)
      BY <3>2, <3>3, Widths DEF Due, Mms!None
    <3>5. Mms!PacketsEnd <= at
      <4>1. Len(data) = 0 /\ Len(session.buf) = 0
        BY <3>2
      <4>2. Mms!PacketsEnd <= PacketAt(Due(session, server)) /\ PacketAt(Due(session, server)) \in Nat
        BY <3>4, PacketsLie, Widths
      <4>3. PacketAt(Due(session, server)) <= at
        BY <1>3, <3>2, <4>1
      <4> QED
        BY <1>3, <4>2, <4>3, PacketsLie
    <3> QED
      BY <1>2, <3>5, PacketsLie, Widths
  <2>2. Turns'
    BY <1>1, <1>4, <2>1 DEF Turns, Again, NoneLeft, Mms!Cut, block
  <2>3. stage' \in {"read", "got", "header", "sent33"}
    BY <1>4
  <2> QED
    BY <1>1, <1>2, <1>4, <2>2, <2>3, ReadGoesOn
<1>5. CASE /\ Len(data) < len /\ ~session.eos /\ session.buf # <<>>
           /\ data' = data \o SubSeq(session.buf, 1, Mms!MinOf(len - Len(data), Len(session.buf)))
           /\ session' = [session EXCEPT !.buf = SubSeq(@, Mms!MinOf(len - Len(data), Len(@)) + 1, Len(@))]
           /\ UNCHANGED stage
  <2> DEFINE n == Mms!MinOf(len - Len(data), Len(session.buf))
             copied == SubSeq(session.buf, 1, n)
             rest == SubSeq(session.buf, n + 1, Len(session.buf))
  <2>1. n \in 1 .. Len(session.buf) /\ n <= len - Len(data)
    <3>1. Len(session.buf) >= 1 /\ len - Len(data) >= 1
      <4>1. session.buf # <<>> /\ session.buf \in Seq(Bytes)
        BY <1>2, <1>5
      <4>2. Len(session.buf) # 0
        BY ONLY <4>1, EmptySeq
      <4>3. Len(data) < len
        BY <1>5
      <4> QED
        BY <1>2, <1>3, <4>2, <4>3
    <3>2. n = IF len - Len(data) < Len(session.buf) THEN len - Len(data) ELSE Len(session.buf)
      BY DEF Mms!MinOf
    <3> HIDE DEF n
    <3> QED
      BY <1>2, <1>3, <3>1, <3>2
  <2>2. data' = data \o copied /\ session' = [session EXCEPT !.buf = rest]
    BY <1>5
  <2> HIDE DEF n
  <2>3. /\ copied \in Seq(Bytes) /\ Len(copied) = n /\ \A i \in 1 .. n : copied[i] = session.buf[i]
    <3>1. \A i \in 1 .. n : session.buf[i] \in Bytes
      BY <1>2, <1>3, <2>1
    <3>2. n \in Int /\ 1 \in Int /\ 1 <= n
      BY <1>3, <2>1
    <3>3. /\ copied \in Seq(Bytes) /\ Len(copied) = IF 1 <= n THEN n - 1 + 1 ELSE 0
          /\ \A i \in 1 .. n - 1 + 1 : copied[i] = session.buf[1 + i - 1]
      BY <3>1, <3>2, SubSeqProperties
    <3> HIDE DEF copied
    <3> QED
      BY <3>2, <3>3
  <2>4. /\ rest \in Seq(Bytes) /\ Len(rest) = Len(session.buf) - n
        /\ \A i \in 1 .. Len(rest) : rest[i] = session.buf[n + i]
    <3> DEFINE m == Len(session.buf)
    <3>1. \A i \in n + 1 .. m : session.buf[i] \in Bytes
      BY <1>2, <1>3, <2>1
    <3>2. n + 1 \in Int /\ m \in Int /\ n \in Int /\ 1 <= n /\ n <= m
      BY <1>3, <2>1
    <3>3. /\ rest \in Seq(Bytes) /\ Len(rest) = IF n + 1 <= m THEN m - (n + 1) + 1 ELSE 0
          /\ \A i \in 1 .. m - (n + 1) + 1 : rest[i] = session.buf[n + 1 + i - 1]
      BY <3>1, <3>2, SubSeqProperties
    <3> HIDE DEF rest, m
    <3>4. Len(rest) = m - n /\ \A i \in 1 .. m - n : rest[i] = session.buf[n + i]
      BY <3>2, <3>3
    <3> QED
      BY <3>3, <3>4 DEF m
  <2> HIDE DEF copied, rest
  <2>5. /\ data' \in Seq(Bytes) /\ Len(data') = Len(data) + n
        /\ \A i \in 1 .. Len(data) : data'[i] = data[i]
        /\ \A i \in 1 .. n : data'[Len(data) + i] = copied[i]
    <3>1. data' = data \o copied /\ data \in Seq(Bytes) /\ copied \in Seq(Bytes) /\ Len(copied) = n
      BY <1>2, <2>2, <2>3
    <3>2. /\ data' \in Seq(Bytes) /\ Len(data') = Len(data) + n
          /\ \A i \in 1 .. Len(data) + n : data'[i] = IF i <= Len(data) THEN data[i] ELSE copied[i - Len(data)]
      BY <3>1, ConcatProperties
    <3> DEFINE d == Len(data)
    <3>3. d \in Nat /\ n \in Nat
      BY <1>3, <2>1
    <3> HIDE DEF d, n
    <3>4. \A i \in 1 .. d : i \in 1 .. d + n /\ i <= d
      BY ONLY <3>3
    <3>5. \A i \in 1 .. n : d + i \in 1 .. d + n /\ ~(d + i <= d) /\ d + i - d = i
      BY ONLY <3>3
    <3> QED
      BY <3>2, <3>4, <3>5 DEF d
  <2>6. /\ session' \in MmsSessions /\ session'.buf = rest /\ session'.pstart = session.pstart
        /\ session'.eos = session.eos /\ session'.playing = session.playing
    <3>1. session \in MmsSessions /\ rest \in Seq(Bytes)
      BY <1>2, <2>4
    <3> QED
      BY <2>2, <3>1, BufMoves
  <2>7. InOrder(at, data')
    <3> SUFFICES ASSUME NEW i \in 1 .. Len(data') PROVE data'[i] \in {at + i - 1, Mms!Foreign}
      BY DEF InOrder
    <3>1. CASE i <= Len(data)
      BY <1>2, <1>3, <2>5, <3>1 DEF InOrder
    <3>2. CASE i > Len(data)
      <4> DEFINE j == i - Len(data)
      <4>1. j \in 1 .. n /\ i = Len(data) + j
        BY <1>3, <2>1, <2>5, <3>2
      <4>2. data'[i] = session.buf[j]
        BY <2>3, <2>5, <4>1
      <4>3. session.buf[j] \in {at + Len(data) + j - 1, Mms!Foreign}
        BY <1>2, <1>3, <2>1, <4>1 DEF Ahead
      <4> QED
        BY <1>3, <4>1, <4>2, <4>3
    <3> QED
      BY <1>3, <2>1, <2>5, <3>1, <3>2
  <2>8. Ahead(at + Len(data'), session', server)
    <3>1. \A i \in 1 .. Len(rest) : rest[i] \in {at + Len(data') + i - 1, Mms!Foreign}
      <4> SUFFICES ASSUME NEW i \in 1 .. Len(rest) PROVE rest[i] \in {at + Len(data') + i - 1, Mms!Foreign}
        OBVIOUS
      <4>1. n + i \in 1 .. Len(session.buf) /\ rest[i] = session.buf[n + i]
        BY <1>3, <2>1, <2>4
      <4>2. session.buf[n + i] \in {at + Len(data) + (n + i) - 1, Mms!Foreign}
        BY <1>2, <4>1 DEF Ahead
      <4> QED
        BY <1>3, <2>1, <2>5, <4>1, <4>2
    <3>2. at + Len(data') + Len(rest) = at + Len(data) + Len(session.buf)
      BY <1>3, <2>1, <2>4, <2>5
    <3>3. Due(session', server) = Due(session, server) /\ First(session') = First(session)
      BY <2>6 DEF Due, First
    <3> QED
      BY <1>2, <1>5, <2>6, <3>1, <3>2, <3>3 DEF Ahead
  <2>9. Len(data') <= len /\ Len(session'.buf) <= PacketLen
    BY <1>2, <1>3, <2>1, <2>4, <2>5, <2>6, Widths
  <2>10. Turns' /\ stage' \in {"read", "got", "header", "sent33"}
    BY <1>1, <1>5 DEF Turns, Again
  <2> QED
    BY <1>1, <1>2, <2>5, <2>6, <2>7, <2>8, <2>9, <2>10, ReadGoesOn
<1> QED
  BY <1>4, <1>5 DEF Mms!mmst_read

(* What a packet that arrives leaves as it is. *)
LEMMA ArrivalKeeps ==
  ASSUME MmsInd, Mms!Elsewhere, stage \in {"read", "got"} \/ Again,
         stage' \in {"read", "got", "header", "sent33"},
         session' \in MmsSessions, Len(session'.buf) <= PacketLen, session'.playing, server' \in Servers,
         Ahead(RemoteStartPos - m_sthrow + Len(data), session', server'),
         Turns'
  PROVE  MmsInd'
<1>1. UNCHANGED block /\ UNCHANGED <<Status, TryAttempts, Length, Ref, m_hsio, m_hsize, m_sthrow, data, len>>
  BY DEF Mms!Elsewhere, Mms!block, Mms!thread, Mms!client, Mms!reading, block
<1>2. /\ m_sthrow \in 0 .. PacketLen - 1 /\ data \in Seq(Bytes) /\ Len(data) <= len
      /\ InOrder(RemoteStartPos - m_sthrow, data)
  BY Reading
<1> QED
  BY <1>1, <1>2, ReadGoesOn

(* A packet that is handed out begins where the last one ended. *)
LEMMA PacketArrives ==
  ASSUME MmsInd, Mms!Elsewhere, stage = "read", stage' = "read", ~session.eos, session.buf = <<>>,
         Mms!Running, server.next < Packets, ~Mms!Skipped(server.next),
         server' \in Servers, server'.next = server.next + 1, server'.link = server.link,
         server'.stream = server.stream,
         NEW b \in Seq(Bytes), Len(b) = PacketLen,
         \A i \in 1 .. PacketLen : b[i] \in {PacketAt(server.next) + i - 1, Mms!Foreign},
         Mms!Mixed => \A i \in 1 .. PacketLen : b[i] = Mms!Foreign,
         session' = [session EXCEPT !.buf = b]
  PROVE  MmsInd'
<1> DEFINE p == RemoteStartPos - m_sthrow + Len(data)
           n == server.next
<1>1. /\ RemoteStartPos \in Nat /\ m_sthrow \in 0 .. PacketLen - 1 /\ data \in Seq(Bytes)
      /\ session \in MmsSessions /\ session.playing /\ server \in Servers /\ n \in 0 .. Packets
      /\ Ahead(p, session, server)
  BY Reading
<1>2. p \in Int /\ Len(session.buf) = 0 /\ n \in Nat /\ PacketLen \in Nat \ {0}
  BY <1>1, Widths
<1>3. session.pstart \in {Mms!None} \cup Nat
  BY <1>1 DEF MmsSessions
<1>4. Turns'
  BY DEF Turns, Again
<1>5. /\ session' \in MmsSessions /\ session'.buf = b /\ session'.pstart = session.pstart
      /\ session'.eos = session.eos /\ session'.playing = session.playing
  <2>1. session \in MmsSessions /\ session' = [session EXCEPT !.buf = b]
    BY <1>1
  <2> QED
    BY <2>1, BufMoves
<1> HIDE DEF p, n
<1>6. Due(session, server) = n /\ Due(session', server') = n + 1
  BY <1>2, <1>3, <1>5 DEF Due, Mms!Skipped, Mms!None, n
<1>7. PacketAt(n + 1) = PacketAt(n) + PacketLen /\ PacketAt(n) \in Nat
  BY <1>2, PacketsLie
<1>8. server.link = "up" => PacketAt(n) <= p /\ (server.stream = 1 => PacketAt(n) = p)
  BY <1>1, <1>2, <1>6 DEF Ahead
<1>9. server.link # "up" \/ server.stream # 1 => Mms!Mixed
  BY DEF Mms!Mixed, Mms!Running
<1>10. \A i \in 1 .. Len(session'.buf) : session'.buf[i] \in {p + i - 1, Mms!Foreign}
  <2>1. Len(session'.buf) = PacketLen
    BY <1>5
  <2>2. CASE Mms!Mixed
    BY <1>5, <2>1, <2>2
  <2>3. CASE ~Mms!Mixed
    <3>1. PacketAt(n) = p
      BY <1>8, <1>9, <2>3
    <3> QED
      BY <1>5, <2>1, <3>1 DEF n
  <2> QED
    BY <2>2, <2>3
<1>11. PacketAt(First(session')) <= p + Len(session'.buf)
  <2>1. First(session') = First(session) /\ First(session) \in Nat
    BY <1>3, <1>5 DEF First, Mms!None
  <2>2. PacketAt(First(session)) <= p /\ PacketAt(First(session)) \in Nat
    BY <1>1, <1>2, <2>1, PacketsLie DEF Ahead
  <2> QED
    BY <1>2, <1>5, <2>1, <2>2
<1>12. server'.link = "up" =>
          /\ PacketAt(n + 1) <= p + Len(session'.buf)
          /\ server'.stream = 1 => PacketAt(n + 1) = p + Len(session'.buf)
  BY <1>2, <1>5, <1>7, <1>8
<1>13. Ahead(p, session', server')
  BY <1>5, <1>6, <1>10, <1>11, <1>12 DEF Ahead
<1> QED
  BY <1>1, <1>2, <1>4, <1>5, <1>13, ArrivalKeeps DEF p

(* A packet that was not asked for is skipped, but for an empty one: the session goes on with
   what is no byte of the place. *)
LEMMA PacketKeeps == MmsInd /\ (Mms!MediaPacket \/ Mms!EmptyPacket \/ Mms!GarbagePacket) => MmsInd'
<1> SUFFICES ASSUME MmsInd, Mms!MediaPacket \/ Mms!EmptyPacket \/ Mms!GarbagePacket PROVE MmsInd'
  OBVIOUS
<1> DEFINE p == RemoteStartPos - m_sthrow + Len(data)
<1>1. /\ stage = "read" /\ stage' = "read" /\ Mms!Elsewhere /\ ~session.eos /\ session.buf = <<>>
  BY DEF Mms!MediaPacket, Mms!EmptyPacket, Mms!GarbagePacket, Mms!NextPacket
<1>2. /\ RemoteStartPos \in Nat /\ m_sthrow \in 0 .. PacketLen - 1 /\ data \in Seq(Bytes)
      /\ session \in MmsSessions /\ session.playing /\ server \in Servers /\ server.next \in 0 .. Packets
      /\ Ahead(p, session, server) /\ Len(session.buf) <= PacketLen
  BY <1>1, Reading
<1>3. p \in Int /\ Len(session.buf) = 0
  BY <1>1, <1>2, Widths
<1>4. session.pstart \in {Mms!None} \cup Nat
  BY <1>2 DEF MmsSessions
<1>5. Turns'
  BY <1>1 DEF Turns, Again
<1>8. /\ PacketAt(First(session)) <= p /\ PacketAt(First(session)) \in Nat
  <2>1. First(session) \in Nat
    BY <1>4 DEF First, Mms!None
  <2> QED
    BY <1>2, <1>3, <2>1, PacketsLie DEF Ahead
<1> HIDE DEF p
<1>6. CASE Mms!MediaPacket
  <2> DEFINE n == server.next
  <2>1. /\ Mms!Running /\ n < Packets /\ server' = [server EXCEPT !.next = @ + 1]
        /\ session' = IF Mms!Skipped(n) THEN session ELSE [session EXCEPT !.buf = Mms!PacketBytes(n)]
    BY <1>6 DEF Mms!MediaPacket
  <2>2. n \in 0 .. Packets - 1 /\ n + 1 \in 0 .. Packets
    <3>1. n \in 0 .. Packets /\ n < Packets
      BY <1>2, <2>1
    <3>2. Packets \in Nat
      BY Widths
    <3> HIDE DEF n
    <3> QED
      BY <3>1, <3>2
  <2>3. /\ server' \in Servers /\ server'.next = n + 1 /\ server'.link = server.link
        /\ server'.stream = server.stream
    BY <1>2, <2>1, <2>2, NextMoves
  <2>4. CASE Mms!Skipped(n)
    <3>1. session' = session /\ n + 1 <= session.pstart
      BY <1>4, <2>1, <2>2, <2>4, Widths DEF Mms!Skipped, Mms!None
    <3>2. Due(session', server') = Due(session, server)
      BY <1>4, <2>2, <2>3, <2>4, <3>1, Widths DEF Due, Mms!None, Mms!Skipped
    <3>3. Ahead(p, session', server')
      BY <1>1, <1>2, <1>3, <2>1, <2>3, <3>1, <3>2 DEF Ahead
    <3> QED
      BY <1>1, <1>2, <1>5, <2>3, <3>1, <3>3, ArrivalKeeps DEF p
  <2>5. CASE ~Mms!Skipped(n)
    <3>1. /\ Mms!PacketBytes(n) \in Seq(Bytes) /\ Len(Mms!PacketBytes(n)) = PacketLen
          /\ \A i \in 1 .. PacketLen : Mms!PacketBytes(n)[i] \in {PacketAt(n) + i - 1, Mms!Foreign}
          /\ Mms!Mixed => \A i \in 1 .. PacketLen : Mms!PacketBytes(n)[i] = Mms!Foreign
      BY <2>2, PacketIs
    <3>2. session' = [session EXCEPT !.buf = Mms!PacketBytes(n)]
      BY <2>1, <2>5
    <3> QED
      BY <1>1, <2>1, <2>3, <2>5, <3>1, <3>2, PacketArrives
  <2> QED
    BY <2>4, <2>5
<1>7. CASE Mms!GarbagePacket
  <2>1. /\ server.link = "garbage" /\ server' = [server EXCEPT !.extras = @ + 1]
        /\ session' = [session EXCEPT !.buf = Mms!PacketBytes(0)]
    BY <1>7 DEF Mms!GarbagePacket, Mms!Extra
  <2>2. server' \in Servers /\ server'.link = "garbage"
    BY <1>2, <2>1, ExtraMoves
  <2>3. /\ Mms!PacketBytes(0) \in Seq(Bytes) /\ Len(Mms!PacketBytes(0)) = PacketLen
        /\ \A i \in 1 .. PacketLen : Mms!PacketBytes(0)[i] = Mms!Foreign
    BY <2>1, GarbageIs DEF Mms!Mixed
  <2>4. /\ session' \in MmsSessions /\ session'.buf = Mms!PacketBytes(0) /\ session'.pstart = session.pstart
        /\ session'.eos = session.eos /\ session'.playing = session.playing
    <3>1. session \in MmsSessions /\ Mms!PacketBytes(0) \in Seq(Bytes)
      BY <1>2, <2>3
    <3> QED
      BY <2>1, <3>1, BufMoves
  <2>6. First(session') = First(session) /\ Len(session'.buf) = PacketLen
    BY <2>3, <2>4 DEF First
  <2>7. PacketAt(First(session')) <= p + Len(session'.buf)
    BY <1>3, <1>8, <2>6, Widths
  <2>5. Ahead(p, session', server')
    BY <1>1, <2>2, <2>3, <2>4, <2>7 DEF Ahead
  <2> QED
    BY <1>1, <1>2, <1>5, <2>2, <2>3, <2>4, <2>5, Widths, ArrivalKeeps DEF p
<1>9. CASE Mms!EmptyPacket
  <2> DEFINE n == server.next
             b == [i \in 1 .. PacketLen |-> Mms!Foreign]
             l == IF Mms!Skipped(n) THEN "shifted" ELSE server.link
  <2>1. /\ Mms!Running /\ n < Packets /\ server' = [server EXCEPT !.next = n + 1, !.link = l]
        /\ session' = [session EXCEPT !.buf = b]
    BY <1>9 DEF Mms!EmptyPacket
  <2>2. n \in 0 .. Packets - 1 /\ n + 1 \in 0 .. Packets
    <3>1. n \in 0 .. Packets /\ n < Packets
      BY <1>2, <2>1
    <3>2. Packets \in Nat
      BY Widths
    <3> HIDE DEF n
    <3> QED
      BY <3>1, <3>2
  <2>3. b \in Seq(Bytes) /\ Len(b) = PacketLen /\ \A i \in 1 .. PacketLen : b[i] = Mms!Foreign
    <3>1. \A i \in 1 .. PacketLen : b[i] = Mms!Foreign /\ b[i] \in Bytes
      BY DEF Bytes
    <3>2. PacketLen \in Nat
      BY Widths
    <3>3. b = [i \in 1 .. PacketLen |-> b[i]]
      OBVIOUS
    <3> HIDE DEF b
    <3>4. b \in Seq(Bytes) /\ Len(b) = PacketLen
      BY <3>1, <3>2, <3>3
    <3> QED
      BY <3>1, <3>4
  <2>4. l \in LinkStates
    BY <2>1 DEF Mms!Running, LinkStates
  <2> HIDE DEF b, l
  <2>5. /\ server' \in Servers /\ server'.next = n + 1 /\ server'.link = l /\ server'.stream = server.stream
    <3> DEFINE m == n + 1
    <3>1. server \in Servers /\ m \in 0 .. Packets /\ server' = [server EXCEPT !.next = m, !.link = l]
      BY <1>2, <2>1, <2>2
    <3> HIDE DEF m
    <3>2. server' \in Servers /\ server'.next = m /\ server'.link = l /\ server'.stream = server.stream
      BY <2>4, <3>1 DEF Servers
    <3> QED
      BY <3>2 DEF m
  <2>6. CASE Mms!Skipped(n)
    <3>1. /\ session' \in MmsSessions /\ session'.buf = b /\ session'.pstart = session.pstart
          /\ session'.eos = session.eos /\ session'.playing = session.playing
      <4>1. session \in MmsSessions /\ session' = [session EXCEPT !.buf = b]
        BY <1>2, <2>1
      <4> QED
        BY <2>3, <4>1, BufMoves
    <3>2. server'.link = "shifted"
      BY <2>5, <2>6 DEF l
    <3>3. First(session') = First(session) /\ Len(session'.buf) = PacketLen
      BY <2>3, <3>1 DEF First
    <3>4. PacketAt(First(session')) <= p + Len(session'.buf)
      BY <1>3, <1>8, <3>3, Widths
    <3>5. Ahead(p, session', server')
      BY <1>1, <2>3, <3>1, <3>2, <3>4 DEF Ahead
    <3> QED
      BY <1>1, <1>2, <1>5, <2>5, <3>1, <3>3, <3>5, Widths, ArrivalKeeps DEF p
  <2>7. CASE ~Mms!Skipped(n)
    <3>1. server'.link = server.link
      BY <2>5, <2>7 DEF l
    <3> QED
      BY <1>1, <2>1, <2>3, <2>5, <2>7, <3>1, PacketArrives
  <2> QED
    BY <2>6, <2>7
<1> QED
  BY <1>6, <1>7, <1>9

(* What is no packet of the stream: its end, a new stream, a lost connection. *)
LEMMA OtherKeeps ==
  MmsInd /\ (Mms!EndOfStream \/ Mms!OtherCommand \/ Mms!OutOfStep \/ Mms!ReadFails) => MmsInd'
<1> SUFFICES ASSUME MmsInd, Mms!EndOfStream \/ Mms!OtherCommand \/ Mms!OutOfStep \/ Mms!ReadFails PROVE MmsInd'
  OBVIOUS
<1> DEFINE p == RemoteStartPos - m_sthrow + Len(data)
<1>1. /\ stage = "read" /\ stage' \in {"read", "got"} /\ Mms!Elsewhere /\ ~session.eos /\ session.buf = <<>>
      /\ UNCHANGED data /\ UNCHANGED RemoteStartPos
  BY DEF Mms!EndOfStream, Mms!OtherCommand, Mms!OutOfStep, Mms!ReadFails, Mms!NextPacket, Mms!Elsewhere,
     Mms!reading, Mms!thread
<1>2. /\ RemoteStartPos \in Nat /\ m_sthrow \in 0 .. PacketLen - 1 /\ data \in Seq(Bytes)
      /\ RemoteStartPos < RemoteEndPos /\ RemoteEndPos \in 0 .. Mms!FileLen /\ Mms!FileLen \in Nat
      /\ session \in MmsSessions /\ session.playing /\ server \in Servers /\ server.next \in 0 .. Packets
      /\ Ahead(p, session, server) /\ Len(session.buf) <= PacketLen
  BY <1>1, Reading
<1>3. p \in Int /\ Len(session.buf) = 0
  BY <1>1, <1>2, Widths
<1>4. "lost" \in LinkStates /\ "ended" \in LinkStates /\ "garbage" \in LinkStates /\ "up" \in LinkStates
  BY DEF LinkStates
<1>5. CASE Mms!EndOfStream
  <2> DEFINE l == IF server.next = Packets THEN server.link ELSE "ended"
  <2>1. /\ Mms!Running /\ session' = [session EXCEPT !.eos = TRUE]
        /\ server' = [server EXCEPT !.link = l] /\ stage' = "got"
    BY <1>5 DEF Mms!EndOfStream
  <2>2. l \in LinkStates
    BY <1>4, <2>1 DEF Mms!Running, LinkStates
  <2> HIDE DEF l
  <2>3. /\ session' \in MmsSessions /\ session'.eos /\ session'.buf = session.buf
        /\ session'.pstart = session.pstart /\ session'.playing = session.playing
    BY <1>2, <2>1, EosMoves
  <2>4. /\ server' \in Servers /\ server'.link = l /\ server'.next = server.next
        /\ server'.stream = server.stream
    BY <1>2, <2>1, <2>2, LinkMoves
  <2>5. Due(session', server') = Due(session, server) /\ First(session') = First(session)
    BY <2>3, <2>4 DEF Due, First
  <2>6. Ahead(p, session', server')
    BY <1>1, <1>2, <2>1, <2>3, <2>4, <2>5 DEF Ahead, l
  <2>7. data = <<>> => l # "up" \/ RemoteStartPos >= Mms!PacketsEnd
    <3> SUFFICES ASSUME data = <<>>, server.next = Packets, server.link = "up"
                 PROVE  RemoteStartPos >= Mms!PacketsEnd
      BY DEF l
    <3>1. session.pstart \in {Mms!None} \cup Nat
      BY <1>2 DEF MmsSessions
    <3>2. Due(session, server) \in Nat /\ Packets <= Due(session, server)
      BY <3>1, Widths DEF Due, Mms!None
    <3>3. Mms!PacketsEnd <= PacketAt(Due(session, server)) /\ PacketAt(Due(session, server)) \in Nat
      BY <3>2, PacketsLie, Widths
    <3>4. PacketAt(Due(session, server)) <= p
      BY <1>2, <1>3 DEF Ahead
    <3>5. Len(data) = 0
      OBVIOUS
    <3> QED
      BY <1>2, <3>3, <3>4, <3>5, PacketsLie, Widths
  <2>8. Turns'
    BY <1>1, <2>1, <2>4, <2>7 DEF Turns, Again, NoneLeft, Mms!Cut
  <2> QED
    BY <1>1, <1>2, <2>3, <2>4, <2>6, <2>8, ArrivalKeeps DEF p
<1>6. CASE Mms!OtherCommand
  <2>1. server' = [server EXCEPT !.extras = @ + 1] /\ session' = session /\ stage' = "read"
    BY <1>1, <1>6 DEF Mms!OtherCommand, Mms!Extra
  <2>2. /\ server' \in Servers /\ server'.link = server.link /\ server'.next = server.next
        /\ server'.stream = server.stream
    BY <1>2, <2>1, ExtraMoves
  <2>3. Ahead(p, session', server')
    BY <1>2, <2>1, <2>2 DEF Ahead, Due, First
  <2>4. Turns'
    BY <2>1 DEF Turns, Again
  <2> QED
    BY <1>1, <1>2, <2>1, <2>2, <2>3, <2>4, ArrivalKeeps DEF p
<1>7. CASE Mms!OutOfStep \/ Mms!ReadFails
  <2>1. /\ session' = session
        /\ \/ \E l \in {"garbage", "lost"} : server' = [server EXCEPT !.link = l] /\ server.link # "garbage"
           \/ server' = server /\ server.link # "up"
    BY <1>7 DEF Mms!OutOfStep, Mms!ReadFails, Mms!Breaks, Mms!Running
  <2>2. /\ server' \in Servers /\ server'.link \in {"garbage", "lost", server.link} /\ server'.link # "up"
        /\ server'.next = server.next /\ server'.stream = server.stream
        /\ server.link = "garbage" => server'.link = "garbage"
    <3>1. CASE server' = server /\ server.link # "up"
      BY <1>2, <3>1
    <3>2. ASSUME NEW l \in {"garbage", "lost"}, server' = [server EXCEPT !.link = l], server.link # "garbage"
          PROVE  /\ server' \in Servers /\ server'.link = l /\ server'.next = server.next
                 /\ server'.stream = server.stream
      BY <1>2, <1>4, <3>2, LinkMoves
    <3>3. CASE \E l \in {"garbage", "lost"} : server' = [server EXCEPT !.link = l] /\ server.link # "garbage"
      BY <3>2, <3>3
    <3> QED
      BY <2>1, <3>1, <3>3
  <2>4. Ahead(p, session', server')
    BY <1>1, <1>2, <2>1, <2>2 DEF Ahead, First
  <2>5. Turns'
    BY <1>1, <2>2 DEF Turns, Again, NoneLeft, Mms!Cut
  <2> QED
    BY <1>1, <1>2, <2>1, <2>2, <2>4, <2>5, ArrivalKeeps DEF p
<1> QED
  BY <1>5, <1>6, <1>7

(* A new stream is introduced while the read goes on. *)
LEMMA NewStreamKeeps == MmsInd /\ (Mms!NewStream \/ Mms!NewHeader \/ Mms!NewStreamPlays) => MmsInd'
<1> SUFFICES ASSUME MmsInd, Mms!NewStream \/ Mms!NewHeader \/ Mms!NewStreamPlays PROVE MmsInd'
  OBVIOUS
<1> DEFINE p == RemoteStartPos - m_sthrow + Len(data)
<1>1. (stage = "read" \/ Again) /\ Mms!Elsewhere /\ UNCHANGED <<session, data, len>>
  BY DEF Mms!NewStream, Mms!NewHeader, Mms!NewStreamPlays, Mms!NextPacket, Again, Mms!Elsewhere, Mms!reading
<1>2. /\ RemoteStartPos \in Nat /\ m_sthrow \in 0 .. PacketLen - 1 /\ data \in Seq(Bytes)
      /\ session \in MmsSessions /\ session.playing /\ server \in Servers /\ server.next \in 0 .. Packets
      /\ Ahead(p, session, server) /\ Len(session.buf) <= PacketLen
  BY <1>1, Reading
<1>3. /\ session.buf = <<>> /\ ~session.eos /\ Len(data) < len
      /\ Mms!Running /\ server.stream = 1
  <2>1. CASE Mms!NewStream
    BY <2>1 DEF Mms!NewStream, Mms!NextPacket
  <2>2. CASE Again
    BY <2>2 DEF MmsInd, Turns
  <2> QED
    BY <1>1, <2>1, <2>2 DEF Mms!NewHeader, Mms!NewStreamPlays, Again
<1>4. p \in Int /\ Len(session.buf) = 0
  BY <1>2, <1>3, Widths
<1>5. CASE stage' \in {"header", "sent33"} /\ UNCHANGED server
  <2>1. Turns'
    BY <1>1, <1>3, <1>5 DEF Turns, Again, Mms!Running
  <2> QED
    BY <1>1, <1>2, <1>5, <2>1, ArrivalKeeps
<1>6. CASE stage' = "got" /\ Mms!Breaks("lost")
  <2>1. /\ server' \in Servers /\ server'.link = "lost" /\ server'.next = server.next
        /\ server'.stream = server.stream
    <3>1. "lost" \in LinkStates
      BY DEF LinkStates
    <3> QED
      BY <1>2, <1>6, <3>1, LinkMoves DEF Mms!Breaks
  <2>2. Ahead(p, session', server')
    BY <1>1, <1>2, <1>3, <2>1 DEF Ahead, First
  <2>3. Turns'
    BY <1>6, <2>1 DEF Turns, Again, NoneLeft, Mms!Cut
  <2> QED
    BY <1>1, <1>2, <1>6, <2>1, <2>2, <2>3, ArrivalKeeps
<1>7. CASE stage' = "read" /\ server' = Mms!Begins(2, server.extras)
  <2>1. server' \in Servers /\ server'.next = 0 /\ server'.stream = 2 /\ server'.link = "up"
    BY <1>2, <1>7, ExtrasCount, BeginsIs
  <2>2. PacketAt(Due(session', server')) <= p
    <3>1. session.pstart \in {Mms!None} \cup Nat
      BY <1>2 DEF MmsSessions
    <3>2. Due(session', server') = First(session) /\ First(session) \in Nat
      BY <1>1, <2>1, <3>1 DEF Due, First, Mms!None
    <3>3. PacketAt(First(session)) \in Nat /\ PacketAt(First(session)) <= p + Len(session.buf)
      BY <1>2, <3>2, PacketsLie DEF Ahead
    <3> QED
      BY <1>4, <3>2, <3>3
  <2>3. Ahead(p, session', server')
    BY <1>1, <1>2, <1>3, <1>4, <2>1, <2>2 DEF Ahead, First
  <2>4. Turns'
    BY <1>7 DEF Turns, Again
  <2> QED
    BY <1>1, <1>2, <1>7, <2>1, <2>3, <2>4, ArrivalKeeps
<1> QED
  BY <1>5, <1>6, <1>7 DEF Mms!NewStream, Mms!NewHeader, Mms!NewStreamPlays

(* What lies before the position is thrown away; a read without a byte is the end. *)
LEMMA ThrowKeeps == MmsInd /\ Mms!Throw => MmsInd'
<1> SUFFICES ASSUME MmsInd, Mms!Throw PROVE MmsInd'
  OBVIOUS
<1> DEFINE at == RemoteStartPos - m_sthrow
<1>1. /\ stage = "got" /\ UNCHANGED block
      /\ UNCHANGED <<Status, TryAttempts, Ref, m_hsio, m_hsize, len, session, server>>
  BY DEF Mms!Throw, Mms!block, Mms!thread, block
<1>2. /\ caller = "thread" /\ Status # "ALLDONE"
      /\ RemoteStartPos \in Nat /\ RemoteEndPos \in 0 .. Mms!FileLen /\ RemoteStartPos < RemoteEndPos
      /\ m_sthrow \in 0 .. PacketLen - 1 /\ len \in 1 .. Length /\ len <= MMS_BUF_SIZE
      /\ Length = Left /\ Length \in Nat
      /\ data \in Seq(Bytes) /\ Len(data) <= len /\ InOrder(at, data)
      /\ session \in MmsSessions /\ Len(session.buf) <= PacketLen /\ session.playing
      /\ server \in Servers
      /\ Ahead(at + Len(data), session, server)
  BY <1>1, Reading
<1>3. at \in Int /\ Len(data) \in Nat /\ m_hsize = HeaderLen /\ Whole
  BY <1>1, <1>2, Widths DEF MmsInd, InRead
<1>4. CASE data = <<>> /\ stage' = "recv" /\ Length' = 0 /\ UNCHANGED <<data, m_sthrow>>
  <2>1. NoneLeft
    BY <1>1, <1>4 DEF MmsInd, Turns
  <2>2. MmsTypes'
    BY <1>1, <1>4 DEF MmsInd, MmsTypes, block, Stages, Reads
  <2>3. Course' /\ Opening' /\ InRead' /\ BeforeWrite' /\ Turns'
    BY <1>1, <1>2, <1>4 DEF MmsInd, Course, block, Opening, InRead, BeforeWrite, Turns, Again, Dialogue,
       Introduced
  <2>4. BetweenReads'
    BY <1>1, <1>2, <1>3, <1>4, <2>1 DEF BetweenReads, NoneLeft, Mms!Cut, block
  <2>5. Mms!StoredInPlace' /\ Mms!StaysInItsBlock' /\ Mms!DoneMeansDone'
    BY <1>1, <1>2 DEF MmsInd, block, Mms!StoredInPlace, Mms!StaysInItsBlock, Mms!DoneMeansDone
  <2> QED
    BY <2>2, <2>3, <2>4, <2>5 DEF MmsInd
<1>5. CASE /\ data # <<>> /\ m_sthrow >= Len(data) /\ UNCHANGED Length
           /\ stage' = "read" /\ data' = <<>> /\ m_sthrow' = m_sthrow - Len(data)
  <2>1. data' \in Seq(Bytes) /\ Len(data') = 0 /\ InOrder(RemoteStartPos - m_sthrow', data')
    BY <1>5 DEF InOrder
  <2>2. m_sthrow' \in 0 .. PacketLen - 1 /\ RemoteStartPos - m_sthrow' + Len(data') = at + Len(data)
    BY <1>2, <1>3, <1>5, <2>1, Widths
  <2>3. Ahead(RemoteStartPos - m_sthrow' + Len(data'), session', server')
    BY <1>1, <1>2, <2>2
  <2>4. Turns' /\ Len(data') <= len
    BY <1>2, <1>5, <2>1 DEF Turns, Again
  <2> HIDE DEF at
  <2> QED
    BY <1>1, <1>2, <1>5, <2>1, <2>2, <2>3, <2>4, ReadGoesOn
<1>6. CASE /\ data # <<>> /\ ~(m_sthrow >= Len(data)) /\ UNCHANGED Length
           /\ stage' = "write" /\ m_sthrow' = 0
           /\ data' = SubSeq(data, m_sthrow + 1, Len(data))
  <2> DEFINE k == m_sthrow
             n == Len(data)
  <2>1. k \in Nat /\ n \in Nat /\ k < n
    BY <1>2, <1>3, <1>6, Widths
  <2>2. \A i \in k + 1 .. n : data[i] \in Bytes
    BY <1>2, <2>1
  <2>3. /\ data' \in Seq(Bytes) /\ Len(data') = IF k + 1 <= n THEN n - (k + 1) + 1 ELSE 0
        /\ \A i \in 1 .. n - (k + 1) + 1 : data'[i] = data[k + 1 + i - 1]
    BY <1>6, <2>1, <2>2, SubSeqProperties
  <2> HIDE DEF k, n
  <2>4. Len(data') = n - k /\ \A i \in 1 .. n - k : data'[i] = data[k + i]
    BY <2>1, <2>3
  <2>5. InOrder(RemoteStartPos, data')
    <3> SUFFICES ASSUME NEW i \in 1 .. Len(data') PROVE data'[i] \in {RemoteStartPos + i - 1, Mms!Foreign}
      BY DEF InOrder
    <3>1. k + i \in 1 .. Len(data) /\ data'[i] = data[k + i]
      BY <2>1, <2>4 DEF n
    <3>2. data[k + i] \in {RemoteStartPos - k + (k + i) - 1, Mms!Foreign}
      BY <1>2, <3>1 DEF InOrder, k
    <3> QED
      BY <1>2, <2>1, <2>4, <3>1, <3>2
  <2>6. RemoteStartPos + Len(data') = at + Len(data)
    BY <1>2, <2>1, <2>4 DEF k, n
  <2>7. Len(data') <= len /\ Len(data') <= Length
    BY <1>2, <2>1, <2>4 DEF n
  <2>8. MmsTypes'
    <3>1. Len(data') <= MMS_BUF_SIZE /\ m_sthrow' \in 0 .. PacketLen - 1
      BY <1>2, <1>6, <2>1, <2>3, <2>7, Widths
    <3> QED
      BY <1>1, <1>6, <2>3, <3>1 DEF MmsInd, MmsTypes, block, Stages, Reads
  <2>9. Course' /\ Opening' /\ BetweenReads' /\ InRead' /\ Turns'
    BY <1>1, <1>2, <1>6 DEF MmsInd, Course, block, Opening, InRead, BetweenReads, Turns, Again, Dialogue,
       Introduced
  <2>10. BeforeWrite'
    <3>1. /\ RemoteStartPos' = RemoteStartPos /\ m_sthrow' = 0 /\ Length' = Left' /\ Length' = Length
          /\ session' = session /\ server' = server /\ m_hsize' = HeaderLen /\ Whole'
      BY <1>1, <1>2, <1>3, <1>6 DEF Left, block, Whole
    <3>2. Ahead(RemoteStartPos' + Len(data'), session', server')
      BY <1>2, <2>6, <3>1
    <3> QED
      BY <1>2, <2>5, <2>7, <3>1, <3>2 DEF BeforeWrite
  <2>11. Mms!StoredInPlace' /\ Mms!StaysInItsBlock' /\ Mms!DoneMeansDone'
    BY <1>1, <1>2 DEF MmsInd, block, Mms!StoredInPlace, Mms!StaysInItsBlock, Mms!DoneMeansDone
  <2> QED
    BY <2>8, <2>9, <2>10, <2>11 DEF MmsInd
<1> QED
  BY <1>4, <1>5, <1>6 DEF Mms!Throw

(* What is written goes where it belongs, and next to what is there. *)
LEMMA WriteKeeps == MmsInd /\ Mms!Write => MmsInd'
<1> SUFFICES ASSUME MmsInd, Mms!Write PROVE MmsInd'
  OBVIOUS
<1> DEFINE n == Len(data)
<1>1. /\ stage = "write" /\ UNCHANGED <<caller, RemoteEndPos, BlkSize, FileSize>>
      /\ UNCHANGED <<Ref, m_hsio, m_hsize, m_sthrow, session, data, len, server>>
  BY DEF Mms!Write, Mms!block, Mms!client, Mms!reading
<1>2. /\ session.playing /\ m_hsize = HeaderLen /\ Length = Left /\ n <= Length /\ m_sthrow = 0
      /\ InOrder(RemoteStartPos, data)
      /\ ~Whole => RemoteStartPos + n = m_hsio /\ Ahead(HeaderLen, session, server)
      /\ Whole => Ahead(RemoteStartPos + n, session, server)
  BY <1>1 DEF MmsInd, BeforeWrite
<1>3. /\ RemoteStartPos \in Nat /\ RemoteEndPos \in 0 .. Mms!FileLen /\ Mms!FileLen \in Nat
      /\ LocalStartPos \in Nat /\ RemoteBytesReceived \in Nat /\ BlkSize \in Nat /\ Length \in Nat
      /\ data \in Seq(Bytes) /\ n \in Nat
      /\ session \in MmsSessions /\ Len(session.buf) <= PacketLen /\ server \in Servers
      /\ Ref \in 0 .. MAXRETRYCONN + 1
      /\ file \in [Mms!Positions -> Bytes \cup {Mms!Hole}]
  <2>1. Mms!FileLen \in Nat
    BY PacketsLie
  <2>2. data \in Seq(Bytes)
    BY DEF MmsInd, MmsTypes
  <2>3. n \in Nat
    BY <2>2, LenProperties
  <2> HIDE DEF n
  <2> QED
    BY <2>1, <2>2, <2>3 DEF MmsInd, MmsTypes
<1>4. caller = "thread" /\ FileSize = Mms!FileLen /\ Status # "ALLDONE"
  BY <1>1 DEF MmsInd, MmsTypes, Course, Dialogue, Introduced
<1>5. /\ RemoteStartPos = LocalStartPos
      /\ RemoteStartPos - RemoteBytesReceived = RemoteEndPos - BlkSize
      /\ RemoteStartPos <= RemoteEndPos
      /\ \A p \in Mms!Positions : file[p] # Mms!Hole <=> p \in RemoteEndPos - BlkSize .. RemoteStartPos - 1
      /\ \A p \in Mms!Positions : file[p] \in {p, Mms!Hole, Mms!Foreign}
  BY <1>4 DEF MmsInd, Mms!StaysInItsBlock, Mms!StoredInPlace
<1>6. CASE Mms!Attempted(FALSE) /\ UNCHANGED file
           /\ UNCHANGED <<Length, RemoteStartPos, LocalStartPos, RemoteBytesReceived>>
  <2>1. UNCHANGED block /\ UNCHANGED counters
    BY <1>1, <1>6 DEF block, counters
  <2> QED
    BY <1>1, <1>3, <1>4, <1>6, <2>1, AttemptEnds
<1>7. CASE /\ file' = [p \in Mms!Positions |->
                        IF p \in LocalStartPos .. LocalStartPos + n - 1
                        THEN data[p - LocalStartPos + 1] ELSE file[p]]
           /\ Length' = Length - n
           /\ RemoteStartPos' = RemoteStartPos + n
           /\ LocalStartPos' = LocalStartPos + n
           /\ RemoteBytesReceived' = RemoteBytesReceived + n
           /\ stage' = "recv" /\ UNCHANGED <<Status, TryAttempts>>
  <2>1. RemoteStartPos + n <= RemoteEndPos /\ Length' = Left' /\ Length' \in Nat
    BY <1>1, <1>2, <1>3, <1>7 DEF Left
  <2> DEFINE from == RemoteStartPos .. RemoteStartPos + n - 1
  <2>2. ASSUME NEW p \in Mms!Positions, p \in from
        PROVE  file'[p] \in {p, Mms!Foreign} /\ file'[p] # Mms!Hole /\ file'[p] \in Bytes
    <3>1. p - RemoteStartPos + 1 \in 1 .. n /\ file'[p] = data[p - RemoteStartPos + 1]
      BY <1>3, <1>5, <1>7, <2>2
    <3>2. data[p - RemoteStartPos + 1] \in {RemoteStartPos + (p - RemoteStartPos + 1) - 1, Mms!Foreign}
      BY <1>2, <3>1 DEF InOrder
    <3>3. file'[p] \in {p, Mms!Foreign}
      BY <1>3, <2>2, <3>1, <3>2
    <3>4. p # Mms!Hole /\ Mms!Foreign # Mms!Hole
      BY <1>3 DEF Mms!Positions, Mms!Hole, Mms!Foreign
    <3> QED
      BY <3>3, <3>4 DEF Bytes
  <2>3. ASSUME NEW p \in Mms!Positions, p \notin from
        PROVE  file'[p] = file[p]
    BY <1>5, <1>7, <2>3
  <2>4. file' \in [Mms!Positions -> Bytes \cup {Mms!Hole}]
    <3>1. \A p \in Mms!Positions : file'[p] \in Bytes \cup {Mms!Hole}
      BY <1>3, <2>2, <2>3
    <3>2. DOMAIN file' = Mms!Positions /\ file' = [p \in Mms!Positions |-> file'[p]]
      BY <1>7
    <3> QED
      BY <3>1, <3>2
  <2>5. Mms!StoredInPlace'
    BY <1>5, <2>2, <2>3 DEF Mms!StoredInPlace
  <2>6. Mms!StaysInItsBlock'
    <3>1. RemoteEndPos - BlkSize <= RemoteStartPos
      BY <1>3, <1>5
    <3>2. \A p \in Mms!Positions :
              file'[p] # Mms!Hole <=> p \in RemoteEndPos - BlkSize .. RemoteStartPos + n - 1
      <4> SUFFICES ASSUME NEW p \in Mms!Positions
                   PROVE  file'[p] # Mms!Hole <=> p \in RemoteEndPos - BlkSize .. RemoteStartPos + n - 1
        OBVIOUS
      <4>1. p \in Int
        BY <1>3 DEF Mms!Positions
      <4>2. CASE p \in from
        BY <1>3, <2>2, <3>1, <4>1, <4>2
      <4>3. CASE p \notin from
        <5>1. p \in RemoteEndPos - BlkSize .. RemoteStartPos + n - 1
                <=> p \in RemoteEndPos - BlkSize .. RemoteStartPos - 1
          BY <1>3, <3>1, <4>1, <4>3
        <5> QED
          BY <1>5, <2>3, <4>3, <5>1
      <4> QED
        BY <4>2, <4>3
    <3>3. RemoteStartPos + n - (RemoteBytesReceived + n) = RemoteEndPos - BlkSize
      BY <1>3, <1>5
    <3>4. RemoteEndPos' = RemoteEndPos /\ BlkSize' = BlkSize
      BY <1>1
    <3>5. RemoteStartPos' = LocalStartPos' /\ RemoteStartPos' = RemoteStartPos + n
          /\ RemoteBytesReceived' = RemoteBytesReceived + n
      BY <1>5, <1>7
    <3>6. RemoteStartPos' - RemoteBytesReceived' = RemoteEndPos' - BlkSize' /\ RemoteStartPos' <= RemoteEndPos'
      BY ONLY <1>3, <2>1, <3>3, <3>4, <3>5
    <3>7. RemoteStartPos' - 1 = RemoteStartPos + n - 1
      BY ONLY <1>3, <3>5
    <3>8. \A p \in Mms!Positions :
              file'[p] # Mms!Hole <=> p \in RemoteEndPos' - BlkSize' .. RemoteStartPos' - 1
      BY ONLY <3>2, <3>4, <3>7
    <3> QED
      BY <3>5, <3>6, <3>8 DEF Mms!StaysInItsBlock
  <2>7. MmsTypes'
    <3>1. RemoteStartPos' \in Nat /\ LocalStartPos' \in Nat /\ RemoteBytesReceived' \in Nat
      BY <1>3, <1>7
    <3> QED
      BY <1>1, <1>7, <2>1, <2>4, <3>1 DEF MmsInd, MmsTypes, Stages, Reads
  <2>8. Course' /\ Opening' /\ InRead' /\ BeforeWrite' /\ Turns' /\ Mms!DoneMeansDone'
    BY <1>1, <1>2, <1>4, <1>7 DEF MmsInd, Course, Opening, InRead, BeforeWrite, Turns, Again, Dialogue,
       Introduced,
                                  Mms!DoneMeansDone
  <2>9. BetweenReads'
    <3>1. Whole' = Whole /\ session' = session /\ server' = server
          /\ RemoteStartPos' - m_sthrow' = RemoteStartPos + n
      BY <1>1, <1>2, <1>3, <1>7 DEF Whole
    <3> QED
      BY <1>1, <1>2, <1>7, <2>1, <3>1 DEF BetweenReads
  <2> QED
    BY <2>5, <2>6, <2>7, <2>8, <2>9 DEF MmsInd
<1> QED
  BY <1>6, <1>7 DEF Mms!Write

(* A block ends at its end, at that of the packets, or where the server cut the stream. *)
LEMMA BlockDoneKeeps == MmsInd /\ Mms!BlockDone => MmsInd'
<1> SUFFICES ASSUME MmsInd, Mms!BlockDone PROVE MmsInd'
  OBVIOUS
<1>1. /\ stage = "recv" /\ ~(Length > 0) /\ UNCHANGED block
      /\ stage' = "done" /\ Status' = "ALLDONE"
      /\ UNCHANGED <<Length, Ref, m_hsio, m_hsize, m_sthrow, session, data, len, server>>
  BY DEF Mms!BlockDone, Mms!Attempted, Mms!block, Mms!client, Mms!reading, block, MmsInd, MmsTypes
<1>2. caller = "thread" /\ FileSize = Mms!FileLen
  BY <1>1 DEF MmsInd, MmsTypes, Course, Dialogue, Introduced
<1>3. MmsTypes'
  BY <1>1 DEF MmsInd, MmsTypes, block, Stages
<1>4. Course' /\ Opening' /\ BetweenReads' /\ InRead' /\ BeforeWrite' /\ Turns'
  BY <1>1, <1>2 DEF Course, block, Opening, BetweenReads, InRead, BeforeWrite, Turns, Again, Dialogue,
     Introduced
<1>5. Mms!StoredInPlace' /\ Mms!StaysInItsBlock'
  BY <1>1 DEF MmsInd, block, Mms!StoredInPlace, Mms!StaysInItsBlock
<1>6. Mms!DoneMeansDone'
  <2>1. Length = Left \/ NoneLeft
    BY <1>1 DEF MmsInd, BetweenReads
  <2>2. Length \in Nat /\ RemoteStartPos \in Nat /\ RemoteEndPos \in Nat
    BY PacketsLie DEF MmsInd, MmsTypes
  <2>3. RemoteStartPos >= RemoteEndPos \/ RemoteStartPos >= Mms!PacketsEnd \/ Mms!Cut
    <3>1. CASE Length = Left
      BY <1>1, <2>2, <3>1 DEF Left
    <3>2. CASE NoneLeft
      BY <3>2 DEF NoneLeft
    <3> QED
      BY <2>1, <3>1, <3>2
  <2>4. Mms!PacketsEnd \in Nat
    BY PacketsLie
  <2>5. Mms!Cut \/ RemoteStartPos >= Mms!MinOf(RemoteEndPos, Mms!PacketsEnd)
    BY <2>2, <2>3, <2>4 DEF Mms!MinOf
  <2> QED
    BY <1>1, <2>5 DEF block, Mms!DoneMeansDone, Mms!Cut
<1> QED
  BY <1>3, <1>4, <1>5, <1>6 DEF MmsInd

(***************************************************************************)
(* The download begins with a query for the size, and goes on.              *)
(***************************************************************************)
(* Nothing is a legal number of everything that is counted. *)
LEMMA NoneOf ==
  /\ 0 \in 0 .. Packets /\ 0 \in 0 .. MAXRETRYCONN + 1 /\ 0 \in 0 .. Mms!FileLen
  /\ 0 \in 0 .. PacketLen - 1 /\ 0 \in 0 .. HeaderLen /\ 0 \in 0 .. MMS_BUF_SIZE
  /\ 0 <= MMS_BUF_SIZE /\ 0 <= PacketLen /\ 0 \in Nat
<1>1. \A n \in Nat : 0 \in 0 .. n /\ 0 <= n
  OBVIOUS
<1>2. MAXRETRYCONN + 1 \in Nat /\ PacketLen - 1 \in Nat
  BY Widths
<1>3. Mms!FileLen \in Nat
  BY PacketsLie
<1> QED
  BY <1>1, <1>2, <1>3, Widths

(* A download begins with a query for the size. *)
LEMMA MmsBegins == Mms!Init => MmsInd
<1> SUFFICES ASSUME Mms!Init PROVE MmsInd
  OBVIOUS
<1>1. PICK k \in {"plain", "live", "big header"} :
          server = [kind |-> k, next |-> 0, stream |-> 1, link |-> "up", extras |-> 0]
  BY DEF Mms!Init
<1>2. server \in Servers
  <2>1. "up" \in LinkStates
    BY DEF LinkStates
  <2>2. 0 \in 0 .. Packets
    BY NoneOf
  <2> QED
    BY <1>1, <2>1, <2>2 DEF Servers
<1>3. session \in MmsSessions /\ session.buf = <<>> /\ ~session.playing
  <2>1. session = [buf |-> <<>>, pstart |-> Mms!None, eos |-> FALSE, playing |-> FALSE]
    BY DEF Mms!Init, Mms!FreshSession
  <2>2. <<>> \in Seq(Bytes) /\ Mms!None \in {Mms!None} \cup Nat /\ FALSE \in BOOLEAN
    BY EmptySeq
  <2> QED
    BY <2>1, <2>2 DEF MmsSessions
<1>4. MmsTypes
  <2>1. data = <<>> /\ data \in Seq(Bytes) /\ Len(data) = 0 /\ Len(session.buf) = 0
    BY <1>3, EmptySeq DEF Mms!Init
  <2>2. file \in [Mms!Positions -> Bytes \cup {Mms!Hole}]
    BY DEF Mms!Init
  <2>3. /\ stage \in Stages /\ caller \in {"info", "thread"} /\ Status = "IDLE" /\ FileSize = 0 /\ Ref = 0
        /\ RemoteStartPos = 0 /\ RemoteEndPos = 0 /\ LocalStartPos = 0 /\ RemoteBytesReceived = 0
        /\ BlkSize = 0 /\ Length = 0 /\ m_sthrow = 0 /\ m_hsio = 0 /\ len = 0
    BY DEF Mms!Init, Stages
  <2> QED
    BY <1>2, <1>3, <2>1, <2>2, <2>3, NoneOf DEF MmsTypes
<1>5. Course /\ Opening /\ BetweenReads /\ InRead /\ BeforeWrite /\ Turns
  BY <1>3 DEF Mms!Init, Course, Opening, BetweenReads, InRead, BeforeWrite, Turns, Again, Dialogue, Introduced
<1>6. Mms!StoredInPlace /\ Mms!StaysInItsBlock /\ Mms!DoneMeansDone
  BY DEF Mms!Init, Mms!StoredInPlace, Mms!StaysInItsBlock, Mms!DoneMeansDone
<1> QED
  BY <1>4, <1>5, <1>6 DEF MmsInd

(* Every action keeps the invariant ... *)
LEMMA MmsGoesOn == MmsInd /\ Mms!Next => MmsInd'
BY RunKeeps, ConnectKeeps, AnswerKeeps, SizeKeeps, StartKeeps, PreProcessKeeps, RecvKeeps, ReadKeeps,
   PacketKeeps,
   OtherKeeps, NewStreamKeeps, ThrowKeeps, WriteKeeps, BlockDoneKeeps DEF Mms!Next, Mms!MediaNext

(* ... and the invariant says what MmsStores says of a download over MMS. *)
LEMMA MmsIs == MmsInd => Mms!MmsInv
<1> SUFFICES ASSUME MmsInd PROVE Mms!TypeOK
  BY DEF MmsInd, Mms!MmsInv
<1>1. \A p \in Mms!Positions : file[p] \in Mms!Positions \cup {Mms!Hole, Mms!Foreign}
  BY DEF MmsInd, MmsTypes, Bytes
<1> QED
  BY <1>1 DEF MmsInd, MmsTypes, Mms!TypeOK

(* For every length of the header, of a packet and of the index, number of packets, size of a buffer
   and limit of retries, and wherever blocks and the server begin: an MMS pthread stores at a place the
   byte of that place, or one that is of no place because a packet was left out or empty or the stream
   changed; it never leaves its block, has written everything before its position, and takes a block
   as done only at its end, at that of the packets, or when the stream was cut or a packet left out
   (TMmsThread::retrKnownSizeFile, TMmsCliEx::Recv, mmst_read). *)
THEOREM MmsStoresInPlace == StreamsSpec => []MmsStores
<1> DEFINE Inv == scheme = "mms" => MmsInd
<1>1. StreamsInit => Inv
  BY MmsBegins DEF StreamsInit
<1>2. Inv /\ [StreamsNext]_streamsVars => Inv'
  <2> SUFFICES ASSUME Inv, [StreamsNext]_streamsVars, scheme' = "mms" PROVE MmsInd'
    OBVIOUS
  <2>1. CASE StreamsNext
    BY <2>1, MmsGoesOn DEF StreamsNext
  <2>2. CASE UNCHANGED streamsVars
    <3>1. UNCHANGED block /\ UNCHANGED counters /\ scheme' = scheme
          /\ UNCHANGED <<stage, Status, TryAttempts, Ref, session, server>>
      BY <2>2 DEF streamsVars, common, pthread, onlyMms, block, counters
    <3>2. MmsInd
      BY <3>1
    <3>3. MmsTypes'
      BY <3>1, <3>2 DEF MmsInd, MmsTypes, block, counters
    <3>4. Course' /\ Opening' /\ Turns'
      BY <3>1, <3>2 DEF MmsInd, Course, Opening, Turns, Again, NoneLeft, Mms!Running, Mms!Cut, block, counters
    <3>5. BetweenReads' /\ InRead' /\ BeforeWrite'
      BY <3>1, <3>2 DEF MmsInd, BetweenReads, InRead, BeforeWrite, Again, NoneLeft, Mms!Cut, Left, Whole, block,
                        counters
    <3>6. Mms!StoredInPlace' /\ Mms!StaysInItsBlock' /\ Mms!DoneMeansDone'
      BY <3>1, <3>2 DEF MmsInd, Mms!StoredInPlace, Mms!StaysInItsBlock, Mms!DoneMeansDone, Mms!Cut, block
    <3> QED
      BY <3>3, <3>4, <3>5, <3>6 DEF MmsInd
  <2> QED
    BY <2>1, <2>2
<1>3. Inv => MmsStores
  BY MmsIs DEF MmsStores
<1> QED
  BY <1>1, <1>2, <1>3, PTL DEF StreamsSpec

-----------------------------------------------------------------------------
(* A download over RTSP. *)

\* \o, as a name that the provers do not look into.
Then(x, y) == x \o y

\* A byte is the number of its packet and its place in it.
RtspBytes == Nat \X Nat
RtspStages == {"connect", "start", "redirected", "describe", "open", "noinfo", "crashed", "next", "run", "recv", "read",
               "write", "done", "failed", "join", "joined"}
RtspSessions == [source : Seq(RtspBytes), skipped : BOOLEAN, pstart : Int, pstend : Int, timestamp : Nat]
RtspKinds == {"plain", "long header", "huge header", "no challenge"}
RtspServers == [kind : RtspKinds, stream : Streams,
                next : Nat \ {0}, link : {"up", "ended"}]
RtspFiles == {Rtsp!MissingFile} \cup Seq(RtspBytes)
RtspWindows == [from : Int, to : Int, whole : BOOLEAN]

RtspTypes ==
    /\ stage \in RtspStages /\ ThreadId \in Rtsp!Threads \cup {-1}
    /\ Status \in {"IDLE", "CONNECTING", "DOWNLOADING", "ALLDONE", "MAXTRYS", "LOCALFATAL", "REMOTEFATAL"}
    /\ RemoteStartPos \in Int /\ RemoteBytesReceived \in Nat /\ TryAttempts \in 0 .. MAX_TRY_ATTEMPTS
    /\ flagx \in BOOLEAN /\ msock \in {-1, 0} /\ Ref \in 0 .. MAXRETRYCONN + 1
    /\ session \in RtspSessions /\ data \in Seq(RtspBytes) /\ Len(data) <= RTSP_BUF_SIZE
    /\ server \in RtspServers /\ files \in [Rtsp!Threads -> RtspFiles]
    /\ windows \in [Rtsp!Threads -> RtspWindows]

\* Which steps are taken, and by whom.
RtspCourse ==
    /\ stage \in {"describe", "redirected"} => Ref <= MAXRETRYCONN
    /\ stage \in {"connect", "start", "redirected", "describe", "open", "run", "recv", "read", "write"} =>
          TryAttempts < MAX_TRY_ATTEMPTS
    /\ stage \in {"run", "recv", "read", "write", "done", "join", "joined"} => ThreadId # -1
    /\ stage = "next" => ThreadId # ThreadCnt - 1
    /\ stage \in {"join", "joined"} => ThreadId = ThreadCnt - 1
    /\ joined = IF stage = "joined" THEN Rtsp!FilesUpTo(files)[ThreadCnt] ELSE <<>>

\* The session waits with the header of the stream.
RtspOpens ==
    /\ stage \in {"redirected", "describe", "open"} => ~session.skipped /\ server.link = "up"
    /\ stage = "open" /\ server.kind = "plain" => session.source = Rtsp!HeaderBytes

\* Between two attempts: nothing is stored yet, or the last attempt has failed.
BetweenAttempts ==
    stage \in {"run", "connect", "start", "redirected", "describe", "open"} /\ ThreadId # -1 =>
        RemoteBytesReceived = 0 \/ ~windows[ThreadId].whole

\* The packets of the window of the running pthread; none of them is still to come.
InItsWindow == Rtsp!PacketsIn(server.stream, windows[ThreadId])
NoneToCome == \A n \in InItsWindow : n < server.next

\* The bytes on their way into the file, after those in it.
Copied == IF stage = "recv" THEN <<>> ELSE data
Waiting == IF session.skipped THEN <<>> ELSE session.source
HeaderFirst == IF ThreadId = 0 \/ ~flagx THEN Rtsp!HeaderBytes ELSE <<>>

Streaming ==
    /\ Then(files[ThreadId], Then(Copied, Waiting))
          = Then(HeaderFirst, Rtsp!PacketsUpTo(server.stream, InItsWindow)[server.next - 1])
    /\ ThreadId # 0 /\ ~flagx => files[ThreadId] = <<>>
    /\ session.skipped => stage = "read" /\ Len(data) + Len(session.source) < RTSP_BUF_SIZE
    /\ server.link = "ended" => NoneToCome
    /\ stage = "write" => Len(data) = RTSP_BUF_SIZE \/ (session.source = <<>> /\ NoneToCome)

InAttempt ==
    stage \in {"recv", "read", "write"} =>
        /\ windows[ThreadId].from = session.pstart /\ windows[ThreadId].to = session.pstend
        /\ files[ThreadId] \in Seq(RtspBytes) /\ server.next <= Len(server.stream) + 1
        /\ Rtsp!Plain /\ windows[ThreadId].whole => Streaming

\* A pthread that is done has stored its window.
Filled(k) ==
    Rtsp!Plain /\ windows[k].whole =>
        files[k] = Then(IF k = 0 THEN Rtsp!HeaderBytes ELSE <<>>,
                        Rtsp!PacketsOf(server.stream, Rtsp!PacketsIn(server.stream, windows[k])))
Settled(k) ==
    \/ k < ThreadId
    \/ k = ThreadId /\ (stage \in {"next", "join", "joined"} \/ (stage = "done" /\ Status = "ALLDONE"))
Stored == \A k \in Rtsp!Threads : Settled(k) => Filled(k)

RtspInd == RtspTypes /\ RtspCourse /\ RtspOpens /\ BetweenAttempts /\ InAttempt /\ Stored

-----------------------------------------------------------------------------
(* Sequences of bytes, and the recursive functions over streams and files. *)

\* Concatenation.
LEMMA ThenIs ==
  /\ \A x, y \in Seq(RtspBytes) : Then(x, y) \in Seq(RtspBytes) /\ Len(Then(x, y)) = Len(x) + Len(y)
  /\ \A x, y, z \in Seq(RtspBytes) : Then(Then(x, y), z) = Then(x, Then(y, z))
  /\ \A x \in Seq(RtspBytes) : Then(x, <<>>) = x /\ Then(<<>>, x) = x
<1>1. ASSUME NEW x \in Seq(RtspBytes), NEW y \in Seq(RtspBytes)
      PROVE Then(x, y) \in Seq(RtspBytes) /\ Len(Then(x, y)) = Len(x) + Len(y)
  BY DEF Then
<1>2. ASSUME NEW x \in Seq(RtspBytes), NEW y \in Seq(RtspBytes), NEW z \in Seq(RtspBytes)
      PROVE  Then(Then(x, y), z) = Then(x, Then(y, z))
  BY ConcatAssociative DEF Then
<1>3. ASSUME NEW x \in Seq(RtspBytes) PROVE Then(x, <<>>) = x /\ Then(<<>>, x) = x
  BY ConcatEmptySeq DEF Then
<1> QED
  BY <1>1, <1>2, <1>3

\* What follows the same beginning is the same.
LEMMA SameRest ==
  ASSUME NEW h \in Seq(RtspBytes), NEW x \in Seq(RtspBytes), NEW y \in Seq(RtspBytes), Then(h, x) = Then(h, y)
  PROVE  x = y
<1>1. Len(x) = Len(y)
  <2>1. Len(Then(h, x)) = Len(h) + Len(x) /\ Len(Then(h, y)) = Len(h) + Len(y)
    BY ThenIs
  <2>2. Len(h) \in Nat /\ Len(x) \in Nat /\ Len(y) \in Nat
    OBVIOUS
  <2> QED
    BY <2>1, <2>2
<1>2. ASSUME NEW i \in 1 .. Len(x) PROVE x[i] = y[i]
  <2>1. Len(h) + i \in 1 .. Len(h) + Len(x) /\ ~(Len(h) + i <= Len(h)) /\ Len(h) + i - Len(h) = i
    OBVIOUS
  <2>2. Then(h, x)[Len(h) + i] = x[i]
    BY <2>1 DEF Then
  <2>3. Then(h, y)[Len(h) + i] = y[i]
    BY <1>1, <2>1 DEF Then
  <2> QED
    BY <2>2, <2>3
<1> QED
  BY <1>1, <1>2, SeqEqual

\* A sequence in two parts.
LEMMA Parted ==
  ASSUME NEW x \in Seq(RtspBytes), NEW k \in 0 .. Len(x)
  PROVE  /\ SubSeq(x, 1, k) \in Seq(RtspBytes) /\ SubSeq(x, k + 1, Len(x)) \in Seq(RtspBytes)
         /\ Len(SubSeq(x, 1, k)) = k /\ Len(SubSeq(x, k + 1, Len(x))) = Len(x) - k
         /\ Then(SubSeq(x, 1, k), SubSeq(x, k + 1, Len(x))) = x
<1> DEFINE a == SubSeq(x, 1, k)
           b == SubSeq(x, k + 1, Len(x))
<1>1. a \in Seq(RtspBytes) /\ Len(a) = k /\ \A i \in 1 .. k : a[i] = x[i]
  OBVIOUS
<1>2. b \in Seq(RtspBytes) /\ Len(b) = Len(x) - k /\ \A i \in 1 .. Len(x) - k : b[i] = x[k + i]
  OBVIOUS
<1> HIDE DEF a, b
<1>3. Then(a, b) \in Seq(RtspBytes) /\ Len(Then(a, b)) = Len(x)
  <2>1. Then(a, b) \in Seq(RtspBytes) /\ Len(Then(a, b)) = Len(a) + Len(b)
    BY <1>1, <1>2, ThenIs
  <2>2. Len(x) \in Nat /\ k + (Len(x) - k) = Len(x)
    OBVIOUS
  <2> QED
    BY <1>1, <1>2, <2>1, <2>2
<1>4. ASSUME NEW i \in 1 .. Len(x) PROVE Then(a, b)[i] = x[i]
  <2>1. Then(a, b)[i] = IF i <= k THEN a[i] ELSE b[i - k]
    BY <1>1, <1>2 DEF Then
  <2>2. CASE i <= k
    BY <1>1, <2>1, <2>2
  <2>3. CASE i > k
    <3>1. i - k \in 1 .. Len(x) - k /\ k + (i - k) = i
      BY <2>3
    <3> QED
      BY <1>2, <2>1, <2>3, <3>1
  <2> QED
    BY <2>2, <2>3
<1>5. Then(a, b) = x
  BY <1>3, <1>4, SeqEqual
<1> QED
  BY <1>1, <1>2, <1>5 DEF a, b

\* A beginning that is cut off on both sides.
LEMMA CutOff ==
  ASSUME NEW h \in Seq(RtspBytes), NEW x \in Seq(RtspBytes), NEW y \in Seq(RtspBytes), NEW z \in Seq(RtspBytes),
         Then(x, y) = Then(h, z), Len(h) <= Len(x)
  PROVE  Then(SubSeq(x, Len(h) + 1, Len(x)), y) = z
<1> DEFINE k == Len(h)
           a == SubSeq(x, 1, k)
           b == SubSeq(x, k + 1, Len(x))
<1>1. k \in 0 .. Len(x)
  OBVIOUS
<1>2. a \in Seq(RtspBytes) /\ b \in Seq(RtspBytes) /\ Len(a) = k /\ Then(a, b) = x
  BY <1>1, Parted
<1>3. a = h
  <2>1. Len(a) = Len(h)
    BY <1>2
  <2>2. ASSUME NEW i \in 1 .. Len(h) PROVE a[i] = h[i]
    <3>1. a[i] = x[i]
      BY <1>1
    <3>2. Then(x, y)[i] = x[i]
      BY <1>1 DEF Then
    <3>3. Then(h, z)[i] = h[i]
      BY DEF Then
    <3> QED
      BY <3>1, <3>2, <3>3
  <2> HIDE DEF a
  <2> QED
    BY <1>2, <2>1, <2>2, SeqEqual
<1> HIDE DEF a, b
<1>4. Then(h, Then(b, y)) = Then(h, z)
  <2>1. Then(Then(h, b), y) = Then(h, Then(b, y))
    BY <1>2, ThenIs
  <2>2. Then(h, b) = x
    BY <1>2, <1>3
  <2> QED
    BY <2>1, <2>2
<1>5. Then(b, y) = z
  BY <1>2, <1>4, ThenIs, SameRest
<1> QED
  BY <1>5 DEF b

\* The bytes of a packet.
LEMMA BytesAre ==
  ASSUME NEW n \in Nat, NEW size \in Nat
  PROVE  Rtsp!BytesOf(n, size) \in Seq(RtspBytes) /\ Len(Rtsp!BytesOf(n, size)) = size
<1>1. \A i \in 1 .. size : <<n, i>> \in RtspBytes
  BY DEF RtspBytes
<1>2. Rtsp!BytesOf(n, size) = [i \in 1 .. size |-> <<n, i>>]
  BY DEF Rtsp!BytesOf
<1> QED
  BY <1>1, <1>2

\* The header is bytes, as many as it is long.
LEMMA HeaderIs == Rtsp!HeaderBytes \in Seq(RtspBytes) /\ Len(Rtsp!HeaderBytes) = HeaderLen
BY BytesAre, MmsAssumption DEF Rtsp!HeaderBytes

\* Packets have a time and a length.
LEMMA StreamIs ==
  ASSUME NEW s \in Streams
  PROVE  /\ s \in Seq([ts : Nat, size : Nat \ {0}]) /\ Len(s) \in Nat /\ DOMAIN s = 1 .. Len(s)
         /\ \A n \in 1 .. Len(s) : s[n].ts \in Nat /\ s[n].size \in Nat \ {0}
<1>1. s \in Seq([ts : Nat, size : Nat \ {0}])
  BY RtspAssumption
<1>2. \A n \in 1 .. Len(s) : s[n] \in [ts : Nat, size : Nat \ {0}]
  BY <1>1, ElementOfSeq
<1>3. \A p \in [ts : Nat, size : Nat \ {0}] : p.ts \in Nat /\ p.size \in Nat \ {0}
  OBVIOUS
<1>4. Len(s) \in Nat /\ DOMAIN s = 1 .. Len(s)
  BY <1>1, LenProperties
<1> QED
  BY <1>1, <1>2, <1>3, <1>4

\* The recursive function PacketsUpTo is what its definition says, for every stream.
LEMMA PacketsUpToAre ==
  ASSUME NEW s \in Streams, NEW W
  PROVE  /\ Rtsp!PacketsUpTo(s, W) \in [0 .. Len(s) -> Seq(RtspBytes)]
         /\ Rtsp!PacketsUpTo(s, W)[0] = <<>>
         /\ \A n \in 1 .. Len(s) :
               Rtsp!PacketsUpTo(s, W)[n] = IF n \in W THEN Then(Rtsp!PacketsUpTo(s, W)[n - 1], Rtsp!BytesOf(n, s[n].size))
                                           ELSE Rtsp!PacketsUpTo(s, W)[n - 1]
<1> DEFINE N == Len(s)
           B(n) == Rtsp!BytesOf(n, s[n].size)
           D == [n \in 1 .. N |-> [x \in Seq(RtspBytes) |-> IF n \in W THEN Then(x, B(n)) ELSE x]]
           Is(f) == f = [n \in 0 .. N |-> IF n = 0 THEN <<>>
                                          ELSE IF n \in W THEN f[n - 1] \o B(n) ELSE f[n - 1]]
<1>1. N \in Nat /\ \A n \in 1 .. N : B(n) \in Seq(RtspBytes)
  <2>1. N \in Nat /\ \A n \in 1 .. N : s[n].size \in Nat
    BY StreamIs
  <2>2. \A n \in 1 .. N : n \in Nat
    BY <2>1
  <2> HIDE DEF N
  <2> QED
    BY <2>1, <2>2, BytesAre
<1>2. D \in [1 .. N -> [Seq(RtspBytes) -> Seq(RtspBytes)]]
  <2>1. \A n \in 1 .. N : \A x \in Seq(RtspBytes) : Then(x, B(n)) \in Seq(RtspBytes)
    <3> HIDE DEF N, B
    <3> QED
      BY <1>1, ThenIs
  <2> HIDE DEF B
  <2> QED
    BY <2>1
<1>3. PICK f \in [0 .. N -> Seq(RtspBytes)] : f[0] = <<>> /\ \A n \in 1 .. N : f[n] = D[n][f[n - 1]]
  <2>1. Sequels(N, Seq(RtspBytes), <<>>, D) # {}
    <3>1. <<>> \in Seq(RtspBytes)
      OBVIOUS
    <3> HIDE DEF D, N
    <3> QED
      BY <1>1, <1>2, <3>1, Recursion
  <2> QED
    BY <2>1 DEF Sequels
<1>4. \A n \in 1 .. N : /\ n - 1 \in 0 .. N /\ f[n - 1] \in Seq(RtspBytes)
                        /\ f[n] = IF n \in W THEN Then(f[n - 1], B(n)) ELSE f[n - 1]
  <2>1. \A n \in 1 .. N : n - 1 \in 0 .. N /\ f[n - 1] \in Seq(RtspBytes)
    <3>1. N \in Nat
      BY <1>1
    <3> HIDE DEF N
    <3>2. \A n \in 1 .. N : n - 1 \in 0 .. N
      BY ONLY <3>1
    <3> QED
      BY <1>3, <3>2
  <2>2. \A n \in 1 .. N : D[n][f[n - 1]] = IF n \in W THEN Then(f[n - 1], B(n)) ELSE f[n - 1]
    BY <2>1
  <2> HIDE DEF D, B
  <2> QED
    BY <1>3, <2>1, <2>2
<1>5. Is(f)
  <2>1. \A n \in 0 .. N : n = 0 \/ n \in 1 .. N
    BY <1>1
  <2>2. \A n \in 0 .. N : f[n] = IF n = 0 THEN <<>> ELSE IF n \in W THEN f[n - 1] \o B(n) ELSE f[n - 1]
    <3> HIDE DEF B, N
    <3> QED
      BY <1>3, <1>4, <2>1 DEF Then
  <2> HIDE DEF B
  <2> QED
    BY <1>3, <2>2
<1>6. Rtsp!PacketsUpTo(s, W) = CHOOSE g : Is(g)
  BY DEF Rtsp!PacketsUpTo
<1> HIDE DEF Is
<1>7. Is(CHOOSE g : Is(g))
  BY ONLY <1>5, Zenon
<1> DEFINE g == Rtsp!PacketsUpTo(s, W)
<1>8. g = [n \in 0 .. N |-> IF n = 0 THEN <<>> ELSE IF n \in W THEN g[n - 1] \o B(n) ELSE g[n - 1]]
  BY <1>6, <1>7 DEF Is
<1>82. \A n \in 0 .. N : g[n] = IF n = 0 THEN <<>> ELSE IF n \in W THEN g[n - 1] \o B(n) ELSE g[n - 1]
  <2> HIDE DEF g, B, N
  <2> QED
    BY <1>8
<1> HIDE DEF g
<1>9. \A n \in 0 .. N : g[n] = f[n]
  <2> DEFINE S == {n \in 0 .. N : g[n] = f[n]}
  <2>1. 0 \in S
    BY <1>1, <1>3, <1>82
  <2>2. ASSUME NEW n \in 0 .. N - 1, n \in S PROVE n + 1 \in S
    <3>1. n + 1 \in 1 .. N /\ n + 1 \in 0 .. N /\ n + 1 # 0 /\ n + 1 - 1 = n /\ g[n] = f[n]
      BY <1>1, <2>2
    <3>2. f[n + 1] = IF n + 1 \in W THEN Then(f[n], B(n + 1)) ELSE f[n]
      <4> HIDE DEF B, N
      <4> QED
        BY <1>4, <3>1
    <3>3. g[n + 1] = IF n + 1 \in W THEN g[n] \o B(n + 1) ELSE g[n]
      <4> HIDE DEF B, N
      <4> QED
        BY <1>82, <3>1
    <3> HIDE DEF B, N
    <3> QED
      BY <3>1, <3>2, <3>3 DEF Then
  <2>3. 0 .. N \subseteq S
    <3> HIDE DEF S, N
    <3> QED
      BY <1>1, <2>1, <2>2, AllNumbersTo
  <2> QED
    BY <2>3
<1>10. DOMAIN g = 0 .. N
  BY <1>8
<1>11. g = f
  <2> HIDE DEF N, B
  <2>1. g = [n \in 0 .. N |-> g[n]]
    BY <1>8
  <2>2. f = [n \in 0 .. N |-> f[n]]
    BY <1>3
  <2> QED
    BY <1>9, <2>1, <2>2
<1> QED
  <2> HIDE DEF B
  <2>1. \A n \in 1 .. N : f[n] = IF n \in W THEN Then(f[n - 1], B(n)) ELSE f[n - 1]
    BY <1>4
  <2> QED
    BY <1>3, <1>11, <2>1 DEF g, B

\* Where no packet of W is, nothing is added.
LEMMA NoPackets ==
  ASSUME NEW s \in Streams, NEW W, NEW i \in 0 .. Len(s), NEW j \in i .. Len(s),
         \A m \in i + 1 .. j : m \notin W
  PROVE  Rtsp!PacketsUpTo(s, W)[j] = Rtsp!PacketsUpTo(s, W)[i]
<1> DEFINE g == Rtsp!PacketsUpTo(s, W)
           S == {n \in 0 .. j - i : g[i + n] = g[i]}
<1>1. Len(s) \in Nat /\ i \in Nat /\ j \in Nat /\ j - i \in Nat /\ i <= j /\ j <= Len(s)
  BY StreamIs
<1>2. \A n \in 1 .. Len(s) : n \notin W => g[n] = g[n - 1]
  BY PacketsUpToAre
<1> HIDE DEF g
<1>3. 0 \in S
  BY <1>1
<1>4. ASSUME NEW n \in 0 .. j - i - 1, n \in S PROVE n + 1 \in S
  <2>1. i + (n + 1) \in 1 .. Len(s) /\ i + (n + 1) \in i + 1 .. j /\ i + (n + 1) - 1 = i + n /\ n + 1 \in 0 .. j - i
    BY <1>1
  <2>2. g[i + (n + 1)] = g[i + n]
    BY <1>2, <2>1
  <2> QED
    BY <1>4, <2>1, <2>2
<1>5. 0 .. j - i \subseteq S
  <2> HIDE DEF S
  <2> QED
    BY <1>1, <1>3, <1>4, AllNumbersTo
<1>6. j - i \in S
  <2> HIDE DEF S
  <2> QED
    BY <1>1, <1>5
<1>7. i + (j - i) = j
  BY <1>1
<1> QED
  BY <1>6, <1>7 DEF g

\* Packets of two sets, of which one lies before the other.
LEMMA PacketsOfBoth ==
  ASSUME NEW s \in Streams, NEW A, NEW B, \A a \in A, b \in B : a \in Int /\ b \in Int /\ a < b
  PROVE  \A n \in 0 .. Len(s) :
            Rtsp!PacketsUpTo(s, A \cup B)[n] = Then(Rtsp!PacketsUpTo(s, A)[n], Rtsp!PacketsUpTo(s, B)[n])
<1> DEFINE N == Len(s)
           f == Rtsp!PacketsUpTo(s, A)
           g == Rtsp!PacketsUpTo(s, B)
           h == Rtsp!PacketsUpTo(s, A \cup B)
           p(n) == Rtsp!BytesOf(n, s[n].size)
           S == {n \in 0 .. N : h[n] = Then(f[n], g[n])}
<1>1. N \in Nat
  BY StreamIs
<1>2. \A n \in 1 .. N : p(n) \in Seq(RtspBytes)
  <2>1. \A n \in 1 .. N : s[n].size \in Nat /\ n \in Nat
    BY StreamIs
  <2> HIDE DEF N
  <2> QED
    BY <2>1, BytesAre
<1>3. \A n \in 0 .. N : f[n] \in Seq(RtspBytes) /\ g[n] \in Seq(RtspBytes)
  BY PacketsUpToAre
<1>4. f[0] = <<>> /\ g[0] = <<>> /\ h[0] = <<>>
  BY PacketsUpToAre
<1>5. \A n \in 1 .. N : /\ f[n] = IF n \in A THEN Then(f[n - 1], p(n)) ELSE f[n - 1]
                        /\ g[n] = IF n \in B THEN Then(g[n - 1], p(n)) ELSE g[n - 1]
                        /\ h[n] = IF n \in A \cup B THEN Then(h[n - 1], p(n)) ELSE h[n - 1]
  BY PacketsUpToAre
<1>6. \A n \in 1 .. N : n \in A => g[n - 1] = <<>>
  <2> SUFFICES ASSUME NEW n \in 1 .. N, n \in A PROVE g[n - 1] = <<>>
    OBVIOUS
  <2>1. 0 \in 0 .. Len(s) /\ n - 1 \in 0 .. Len(s) /\ \A m \in 0 + 1 .. n - 1 : m \notin B
    BY <1>1
  <2>2. Rtsp!PacketsUpTo(s, B)[n - 1] = Rtsp!PacketsUpTo(s, B)[0]
    BY ONLY <2>1, NoPackets, s \in Streams
  <2> QED
    BY <1>4, <2>2
<1> HIDE DEF f, g, h, p, N
<1>7. 0 \in S
  <2>1. <<>> \in Seq(RtspBytes)
    OBVIOUS
  <2>2. Then(<<>>, <<>>) = <<>>
    BY <2>1, ThenIs
  <2> QED
    BY <1>1, <1>4, <2>2
<1>8. ASSUME NEW n \in 0 .. N - 1, n \in S PROVE n + 1 \in S
  <2> DEFINE m == n + 1
  <2>1. m \in 1 .. N /\ m \in 0 .. N /\ m - 1 = n /\ n \in 0 .. N
    BY <1>1
  <2> HIDE DEF m
  <2>2. /\ f[m] = IF m \in A THEN Then(f[n], p(m)) ELSE f[n]
        /\ g[m] = IF m \in B THEN Then(g[n], p(m)) ELSE g[n]
        /\ h[m] = IF m \in A \cup B THEN Then(h[n], p(m)) ELSE h[n]
        /\ m \in A => g[n] = <<>>
    BY <1>5, <1>6, <2>1
  <2>3. h[n] = Then(f[n], g[n])
    BY <1>8
  <2>4. p(m) \in Seq(RtspBytes) /\ f[n] \in Seq(RtspBytes) /\ g[n] \in Seq(RtspBytes)
    BY <1>2, <1>3, <2>1
  <2>5. h[m] = Then(f[m], g[m])
    <3>1. CASE m \in A
      <4>1. m \notin B
        BY <2>1, <3>1
      <4>2. Then(f[n], <<>>) = f[n] /\ Then(f[n], p(m)) \in Seq(RtspBytes)
        BY <2>4, ThenIs
      <4>3. Then(Then(f[n], p(m)), <<>>) = Then(f[n], p(m))
        BY <4>2, ThenIs
      <4> QED
        BY <2>2, <2>3, <3>1, <4>1, <4>2, <4>3
    <3>2. CASE m \in B /\ m \notin A
      <4>1. Then(Then(f[n], g[n]), p(m)) = Then(f[n], Then(g[n], p(m)))
        <5> DEFINE x == f[n]
                   y == g[n]
                   z == p(m)
        <5>1. x \in Seq(RtspBytes) /\ y \in Seq(RtspBytes) /\ z \in Seq(RtspBytes)
          BY <2>4
        <5> HIDE DEF x, y, z
        <5>2. Then(Then(x, y), z) = Then(x, Then(y, z))
          BY ONLY <5>1, ThenIs
        <5> QED
          BY <5>2 DEF x, y, z
      <4> QED
        BY <2>2, <2>3, <3>2, <4>1
    <3>3. CASE m \notin A \cup B
      BY <2>2, <2>3, <3>3
    <3> QED
      BY <3>1, <3>2, <3>3
  <2> QED
    BY <2>1, <2>5 DEF m
<1>9. 0 .. N \subseteq S
  <2> HIDE DEF S
  <2> QED
    BY <1>1, <1>7, <1>8, AllNumbersTo
<1> QED
  BY <1>9 DEF f, g, h, N

\* A missing file is no file.
LEMMA MissingIs == Rtsp!MissingFile \notin Seq(RtspBytes)
<1> SUFFICES ASSUME Rtsp!MissingFile \in Seq(RtspBytes) PROVE FALSE
  OBVIOUS
<1>1. Rtsp!MissingFile = <<<<-1, 0>>>>
  BY DEF Rtsp!MissingFile, Rtsp!None
<1>2. 1 \in 1 .. Len(Rtsp!MissingFile) /\ Rtsp!MissingFile[1] = <<-1, 0>>
  BY <1>1
<1>3. <<-1, 0>> \in RtspBytes
  BY <1>2, ElementOfSeq
<1> QED
  BY <1>3 DEF RtspBytes

\* The recursive function FilesUpTo is what its definition says, when no file is missing.
LEMMA FilesUpToAre ==
  ASSUME NEW fs, \A k \in Rtsp!Threads : fs[k] \in Seq(RtspBytes)
  PROVE  /\ Rtsp!FilesUpTo(fs) \in [0 .. ThreadCnt -> Seq(RtspBytes)]
         /\ Rtsp!FilesUpTo(fs)[0] = <<>>
         /\ \A k \in 1 .. ThreadCnt : Rtsp!FilesUpTo(fs)[k] = Then(Rtsp!FilesUpTo(fs)[k - 1], fs[k - 1])
<1> DEFINE N == ThreadCnt
           D == [k \in 1 .. N |-> [x \in Seq(RtspBytes) |-> Then(x, fs[k - 1])]]
           Is(f) == f = [k \in 0 .. N |-> IF k = 0 THEN <<>>
                            ELSE IF \E j \in 0 .. k - 1 : fs[j] = Rtsp!MissingFile THEN f[k - 1]
                            ELSE f[k - 1] \o fs[k - 1]]
<1>1. N \in Nat /\ \A k \in 1 .. N : k - 1 \in Rtsp!Threads /\ fs[k - 1] \in Seq(RtspBytes)
  BY RtspAssumption DEF Rtsp!Threads
<1>2. D \in [1 .. N -> [Seq(RtspBytes) -> Seq(RtspBytes)]]
  <2>1. \A n \in 1 .. N : \A x \in Seq(RtspBytes) : Then(x, fs[n - 1]) \in Seq(RtspBytes)
    <3> HIDE DEF N
    <3> QED
      BY <1>1, ThenIs
  <2> QED
    BY <2>1
<1>3. PICK f \in [0 .. N -> Seq(RtspBytes)] : f[0] = <<>> /\ \A n \in 1 .. N : f[n] = D[n][f[n - 1]]
  <2>1. Sequels(N, Seq(RtspBytes), <<>>, D) # {}
    <3>1. <<>> \in Seq(RtspBytes)
      OBVIOUS
    <3> HIDE DEF D, N
    <3> QED
      BY <1>1, <1>2, <3>1, Recursion
  <2> QED
    BY <2>1 DEF Sequels
<1>4. \A n \in 1 .. N : /\ n - 1 \in 0 .. N /\ f[n - 1] \in Seq(RtspBytes)
                        /\ f[n] = Then(f[n - 1], fs[n - 1])
  <2>1. \A n \in 1 .. N : n - 1 \in 0 .. N /\ f[n - 1] \in Seq(RtspBytes)
    <3>1. N \in Nat
      BY <1>1
    <3> HIDE DEF N
    <3>2. \A n \in 1 .. N : n - 1 \in 0 .. N
      BY ONLY <3>1
    <3> QED
      BY <1>3, <3>2
  <2>2. \A n \in 1 .. N : D[n][f[n - 1]] = Then(f[n - 1], fs[n - 1])
    BY <2>1
  <2> HIDE DEF D
  <2> QED
    BY <1>3, <2>1, <2>2
<1>50. \A k \in 1 .. N : ~ \E j \in 0 .. k - 1 : fs[j] = Rtsp!MissingFile
  <2>1. \A k \in 1 .. N : \A j \in 0 .. k - 1 : j \in Rtsp!Threads
    BY <1>1 DEF Rtsp!Threads
  <2> QED
    BY <2>1, MissingIs
<1>5. Is(f)
  <2>1. \A n \in 0 .. N : n = 0 \/ n \in 1 .. N
    BY <1>1
  <2>2. \A n \in 0 .. N : f[n] = IF n = 0 THEN <<>>
                            ELSE IF \E j \in 0 .. n - 1 : fs[j] = Rtsp!MissingFile THEN f[n - 1]
                            ELSE f[n - 1] \o fs[n - 1]
    <3> HIDE DEF N
    <3> QED
      BY <1>3, <1>4, <1>50, <2>1 DEF Then
  <2> QED
    BY <1>3, <2>2
<1>6. Rtsp!FilesUpTo(fs) = CHOOSE g : Is(g)
  BY DEF Rtsp!FilesUpTo
<1> HIDE DEF Is
<1>7. Is(CHOOSE g : Is(g))
  BY ONLY <1>5, Zenon
<1> DEFINE g == Rtsp!FilesUpTo(fs)
<1>8. g = [n \in 0 .. N |-> IF n = 0 THEN <<>>
                            ELSE IF \E j \in 0 .. n - 1 : fs[j] = Rtsp!MissingFile THEN g[n - 1]
                            ELSE g[n - 1] \o fs[n - 1]]
  BY <1>6, <1>7 DEF Is
<1> HIDE DEF g
<1>82. g[0] = <<>> /\ \A n \in 1 .. N : g[n] = g[n - 1] \o fs[n - 1]
  <2>1. \A n \in 1 .. N : n \in 0 .. N /\ n # 0
    BY <1>1
  <2>2. 0 \in 0 .. N
    BY <1>1
  <2> HIDE DEF N
  <2>3. g[0] = <<>>
    BY <1>8, <2>2
  <2> QED
    BY <1>8, <1>50, <2>1, <2>3
<1>9. \A n \in 0 .. N : g[n] = f[n]
  <2> DEFINE S == {n \in 0 .. N : g[n] = f[n]}
  <2>1. 0 \in S
    BY <1>1, <1>3, <1>82
  <2>2. ASSUME NEW n \in 0 .. N - 1, n \in S PROVE n + 1 \in S
    <3>1. n + 1 \in 1 .. N /\ n + 1 \in 0 .. N /\ n + 1 - 1 = n /\ g[n] = f[n]
      BY <1>1, <2>2
    <3>2. f[n + 1] = Then(f[n], fs[n])
      <4> HIDE DEF N
      <4> QED
        BY <1>4, <3>1
    <3>3. g[n + 1] = g[n] \o fs[n]
      <4> DEFINE m == n + 1
      <4>1. m \in 1 .. N /\ m - 1 = n
        BY <3>1
      <4> HIDE DEF m, N
      <4>2. g[m] = g[m - 1] \o fs[m - 1]
        BY ONLY <1>82, <4>1
      <4>3. g[m] = g[n] \o fs[n]
        BY ONLY <4>1, <4>2
      <4> QED
        BY ONLY <4>3 DEF m
    <3> HIDE DEF N
    <3> QED
      BY <3>1, <3>2, <3>3 DEF Then
  <2>3. 0 .. N \subseteq S
    <3> HIDE DEF S, N
    <3> QED
      BY <1>1, <2>1, <2>2, AllNumbersTo
  <2> QED
    BY <2>3
<1>11. g = f
  <2> HIDE DEF N
  <2>1. g = [n \in 0 .. N |-> g[n]]
    BY <1>8
  <2>2. f = [n \in 0 .. N |-> f[n]]
    BY <1>3
  <2> QED
    BY <1>9, <2>1, <2>2
<1> QED
  <2>1. \A n \in 1 .. N : f[n] = Then(f[n - 1], fs[n - 1])
    BY <1>4
  <2> QED
    BY <1>3, <1>11, <2>1 DEF g

-----------------------------------------------------------------------------
(* The steps outside of an attempt leave what is stored as it is. *)

\* What the server keeps.
LEMMA ServerIs ==
  ASSUME NEW s \in RtspServers
  PROVE  /\ s.kind \in RtspKinds /\ s.stream \in Streams
         /\ s.next \in Nat \ {0} /\ s.link \in {"up", "ended"}
BY DEF RtspServers

\* What the session keeps.
LEMMA SessionIs ==
  ASSUME NEW s \in RtspSessions
  PROVE  /\ s.source \in Seq(RtspBytes) /\ s.skipped \in BOOLEAN /\ s.pstart \in Int /\ s.pstend \in Int
         /\ s.timestamp \in Nat
BY DEF RtspSessions

\* Rtsp!Plain is about the server's kind and stream only.
LEMMA PlainStays ==
  ASSUME server'.kind = server.kind, server'.stream = server.stream
  PROVE  Rtsp!Plain' <=> Rtsp!Plain
BY DEF Rtsp!Plain

\* A file keeps its window when neither changes.
LEMMA FilledStays ==
  ASSUME NEW k, Filled(k), files'[k] = files[k], windows'[k] = windows[k],
         server'.kind = server.kind, server'.stream = server.stream
  PROVE  Filled(k)'
<1>1. Rtsp!Plain' <=> Rtsp!Plain
  BY PlainStays
<1> QED
  BY <1>1 DEF Filled

\* The files stay as they are, and every pthread that is settled after the step has filled its file.
LEMMA StoredStays ==
  ASSUME Stored, files' = files, windows' = windows,
         server'.kind = server.kind, server'.stream = server.stream,
         \A k \in Rtsp!Threads : Settled(k)' => Settled(k) \/ Filled(k)
  PROVE  Stored'
<1> SUFFICES ASSUME NEW k \in Rtsp!Threads, Settled(k)' PROVE Filled(k)'
  BY DEF Stored
<1>1. Filled(k)
  BY DEF Stored
<1>2. files'[k] = files[k] /\ windows'[k] = windows[k]
  OBVIOUS
<1> QED
  BY <1>1, <1>2, FilledStays

\* A block has a byte.
LEMMA BlocksHaveBytes ==
  ASSUME NEW k \in Rtsp!Threads
  PROVE  Rtsp!FileSize \in Nat /\ Rtsp!BlkSize(k) \in Nat /\ Rtsp!BlkSize(k) > 0
<1> DEFINE F == Rtsp!FileSize
           q == F \div ThreadCnt
<1>1. F \in Nat
  <2>1. Duration * AvgBitRate \in Nat
    BY RtspAssumption
  <2> QED
    BY <2>1 DEF Rtsp!FileSize
<1>2. ThreadCnt \in Nat \ {0} /\ k \in 0 .. ThreadCnt - 1 /\ AvgBitRate \in Nat \ {0} /\ AvgBitRate <= 8000 * q
  BY RtspAssumption DEF Rtsp!Threads
<1> HIDE DEF F
<1>3. q \in Nat /\ ThreadCnt * q <= F
  BY <1>1, <1>2
<1> HIDE DEF q
<1>4. q > 0
  BY <1>2, <1>3
<1>5. CASE k = ThreadCnt - 1
  <2>1. Rtsp!BlkSize(k) = F - k * q
    BY <1>5 DEF Rtsp!BlkSize, Rtsp!BlockEnd, Rtsp!BlockStart, q, F
  <2>2. k * q = ThreadCnt * q - q
    BY <1>2, <1>3, <1>5
  <2>3. ThreadCnt * q \in Nat
    BY <1>2, <1>3
  <2> HIDE DEF q
  <2>4. F - k * q \in Nat /\ F - k * q > 0
    BY ONLY <1>1, <1>3, <1>4, <2>2, <2>3
  <2> QED
    BY <1>1, <2>1, <2>4 DEF F
<1>6. CASE k # ThreadCnt - 1
  <2>1. Rtsp!BlkSize(k) = (k + 1) * q - k * q
    BY <1>6 DEF Rtsp!BlkSize, Rtsp!BlockEnd, Rtsp!BlockStart, q, F
  <2>2. (k + 1) * q - k * q = q
    BY <1>2, <1>3
  <2> QED
    BY <1>1, <1>3, <1>4, <2>1, <2>2 DEF F
<1> QED
  BY <1>5, <1>6

-----------------------------------------------------------------------------
\* A pthread begins an attempt, or has nothing left to ask for.
LEMMA RunMoves ==
  ASSUME RtspInd, Rtsp!run
  PROVE  RtspInd'
<1>1. /\ stage = "run" /\ ThreadId' = ThreadId /\ RemoteStartPos' = RemoteStartPos
      /\ RemoteBytesReceived' = RemoteBytesReceived /\ TryAttempts' = TryAttempts /\ flagx' = flagx
      /\ msock' = msock /\ Ref' = Ref /\ session' = session /\ data' = data /\ server' = server
      /\ files' = files /\ windows' = windows /\ joined' = joined
  BY DEF Rtsp!run, Rtsp!connecting
<1>2. \/ stage' = "connect" /\ Status' = "CONNECTING"
      \/ stage' = "done" /\ Status' = "ALLDONE" /\ Rtsp!BlkSize(ThreadId) = RemoteBytesReceived
  BY DEF Rtsp!run
<1>3. ThreadId \in Rtsp!Threads /\ TryAttempts < MAX_TRY_ATTEMPTS /\ joined = <<>>
  BY <1>1 DEF RtspInd, RtspTypes, RtspCourse
<1>4. RtspTypes'
  BY <1>1, <1>2 DEF RtspInd, RtspTypes, RtspStages
<1>5. RtspCourse'
  BY <1>1, <1>2, <1>3, RtspAssumption DEF RtspCourse, Rtsp!Threads
<1>6. RtspOpens' /\ BetweenAttempts' /\ InAttempt'
  BY <1>1, <1>2 DEF RtspInd, RtspOpens, BetweenAttempts, InAttempt
<1>7. Stored'
  <2>1. ASSUME NEW k \in Rtsp!Threads, Settled(k)', ~Settled(k) PROVE Filled(k)
    <3>1. k = ThreadId /\ Rtsp!BlkSize(ThreadId) = RemoteBytesReceived
      BY <1>1, <1>2, <2>1 DEF Settled
    <3>2. RemoteBytesReceived # 0
      BY <1>3, <3>1, BlocksHaveBytes
    <3>3. ~windows[ThreadId].whole
      BY <1>1, <1>3, <3>2 DEF RtspInd, BetweenAttempts, Rtsp!Threads
    <3> QED
      BY <3>1, <3>3 DEF Filled
  <2> QED
    BY <1>1, <2>1, StoredStays DEF RtspInd
<1> QED
  BY <1>4, <1>5, <1>6, <1>7 DEF RtspInd

\* The next pthread.
LEMMA StartThreadMoves ==
  ASSUME RtspInd, Rtsp!StartThread
  PROVE  RtspInd'
<1>1. /\ stage = "next" /\ flagx' = flagx
      /\ msock' = msock /\ Ref' = Ref /\ session' = session /\ data' = data /\ server' = server
      /\ files' = files /\ windows' = windows /\ joined' = joined
  BY DEF Rtsp!StartThread, Rtsp!connecting
<1>2. /\ stage' = "run" /\ ThreadId' = ThreadId + 1 /\ Status' = "IDLE" /\ TryAttempts' = 0
      /\ RemoteStartPos' = Rtsp!BlockStart(ThreadId + 1) /\ RemoteBytesReceived' = 0
  BY DEF Rtsp!StartThread
<1>3. ThreadId \in -1 .. ThreadCnt - 2 /\ joined = <<>>
  BY <1>1, RtspAssumption DEF RtspInd, RtspTypes, RtspCourse, Rtsp!Threads
<1>4. ThreadId' \in Rtsp!Threads /\ ThreadId' # -1 /\ 0 < MAX_TRY_ATTEMPTS
  BY <1>2, <1>3, RtspAssumption DEF Rtsp!Threads
<1>5. RemoteStartPos' \in Int
  <2>1. Rtsp!FileSize \in Nat
    BY <1>4, BlocksHaveBytes
  <2>2. Rtsp!FileSize \div ThreadCnt \in Nat /\ ThreadId + 1 \in Nat
    BY <1>3, <2>1, RtspAssumption
  <2> QED
    BY <1>2, <2>2 DEF Rtsp!BlockStart
<1>6. RtspTypes'
  <2>1. TryAttempts' \in 0 .. MAX_TRY_ATTEMPTS
    BY <1>2, RtspAssumption
  <2> QED
    BY <1>1, <1>2, <1>4, <1>5, <2>1 DEF RtspInd, RtspTypes, RtspStages
<1>7. RtspCourse'
  BY <1>1, <1>2, <1>3, <1>4 DEF RtspCourse
<1>8. RtspOpens' /\ BetweenAttempts' /\ InAttempt'
  BY <1>1, <1>2 DEF RtspOpens, BetweenAttempts, InAttempt
<1>9. Stored'
  <2>1. \A k \in Rtsp!Threads : Settled(k)' => Settled(k)
    BY <1>1, <1>2, <1>3 DEF Settled, Rtsp!Threads
  <2> QED
    BY <1>1, <2>1, StoredStays DEF RtspInd
<1> QED
  BY <1>6, <1>7, <1>8, <1>9 DEF RtspInd

\* A pthread ends: the next one, the joining of the files or the failure of the download follows.
LEMMA ThreadEndsMoves ==
  ASSUME RtspInd, Rtsp!ThreadEnds
  PROVE  RtspInd'
<1>1. /\ stage = "done" /\ ThreadId' = ThreadId /\ RemoteStartPos' = RemoteStartPos /\ Status' = Status
      /\ RemoteBytesReceived' = RemoteBytesReceived /\ TryAttempts' = TryAttempts /\ flagx' = flagx
      /\ msock' = msock /\ Ref' = Ref /\ session' = session /\ data' = data /\ server' = server
      /\ files' = files /\ windows' = windows /\ joined' = joined
  BY DEF Rtsp!ThreadEnds, Rtsp!connecting, Rtsp!thread
<1>2. \/ stage' = "failed" /\ Status # "ALLDONE"
      \/ stage' = "join" /\ Status = "ALLDONE" /\ ThreadId = ThreadCnt - 1
      \/ stage' = "next" /\ Status = "ALLDONE" /\ ThreadId # ThreadCnt - 1
  BY DEF Rtsp!ThreadEnds
<1>3. ThreadId # -1 /\ joined = <<>>
  BY <1>1 DEF RtspInd, RtspCourse
<1>4. RtspTypes'
  BY <1>1, <1>2 DEF RtspInd, RtspTypes, RtspStages
<1>5. RtspCourse'
  BY <1>1, <1>2, <1>3 DEF RtspCourse
<1>6. RtspOpens' /\ BetweenAttempts' /\ InAttempt'
  BY <1>1, <1>2 DEF RtspOpens, BetweenAttempts, InAttempt
<1>7. Stored'
  <2>1. \A k \in Rtsp!Threads : Settled(k)' => Settled(k)
    BY <1>1, <1>2 DEF Settled
  <2> QED
    BY <1>1, <2>1, StoredStays DEF RtspInd
<1> QED
  BY <1>4, <1>5, <1>6, <1>7 DEF RtspInd

\* A session is about to begin.
LEMMA ConnectMoves ==
  ASSUME RtspInd, Rtsp!Connect
  PROVE  RtspInd'
<1>1. /\ stage = "connect" /\ ThreadId' = ThreadId /\ RemoteStartPos' = RemoteStartPos /\ Status' = Status
      /\ RemoteBytesReceived' = RemoteBytesReceived /\ TryAttempts' = TryAttempts /\ flagx' = flagx
      /\ session' = session /\ data' = data /\ server' = server
      /\ files' = files /\ windows' = windows /\ joined' = joined
  BY DEF Rtsp!Connect, Rtsp!thread
<1>2. stage' = "start" /\ msock' \in {-1, 0} /\ Ref' = 0
  BY DEF Rtsp!Connect
<1>3. TryAttempts < MAX_TRY_ATTEMPTS /\ joined = <<>>
  BY <1>1 DEF RtspInd, RtspCourse
<1>4. RtspTypes'
  BY <1>1, <1>2, MmsAssumption DEF RtspInd, RtspTypes, RtspStages
<1>5. RtspCourse'
  BY <1>1, <1>2, <1>3 DEF RtspCourse
<1>6. RtspOpens' /\ BetweenAttempts' /\ InAttempt'
  BY <1>1, <1>2 DEF RtspInd, RtspOpens, BetweenAttempts, InAttempt
<1>7. Stored'
  <2>1. \A k \in Rtsp!Threads : Settled(k)' => Settled(k)
    BY <1>1, <1>2 DEF Settled
  <2> QED
    BY <1>1, <2>1, StoredStays DEF RtspInd
<1> QED
  BY <1>4, <1>5, <1>6, <1>7 DEF RtspInd

\* Connecting again and again, or a session that is open.
LEMMA SessionStartMoves ==
  ASSUME RtspInd, Rtsp!rtsp_session_start
  PROVE  RtspInd'
<1>1. /\ stage = "start" /\ ThreadId' = ThreadId /\ RemoteStartPos' = RemoteStartPos
      /\ RemoteBytesReceived' = RemoteBytesReceived /\ flagx' = flagx
      /\ msock' = msock /\ data' = data /\ files' = files /\ windows' = windows /\ joined' = joined
  BY DEF Rtsp!rtsp_session_start
<1>2. /\ server' = [kind |-> server.kind, stream |-> server.stream, next |-> 1, link |-> "up"]
      /\ session' = [source |-> <<>>, skipped |-> FALSE, pstart |-> 0, pstend |-> -1, timestamp |-> 0]
  BY DEF Rtsp!rtsp_session_start, Rtsp!Connected, Rtsp!FreshSession, Rtsp!None
<1>3. TryAttempts < MAX_TRY_ATTEMPTS /\ TryAttempts \in 0 .. MAX_TRY_ATTEMPTS /\ joined = <<>>
      /\ server \in RtspServers /\ Ref \in 0 .. MAXRETRYCONN + 1
      /\ Status \in {"IDLE", "CONNECTING", "DOWNLOADING", "ALLDONE", "MAXTRYS", "LOCALFATAL", "REMOTEFATAL"}
  BY <1>1 DEF RtspInd, RtspTypes, RtspCourse
<1>4. \/ /\ stage' = "noinfo" /\ Status' = Status /\ TryAttempts' = TryAttempts /\ Ref' = Ref
      \/ /\ TryAttempts' = TryAttempts + 1 /\ Ref' = Ref /\ ThreadId # -1
         /\ \/ stage' = "done" /\ Status' = "MAXTRYS"
            \/ stage' = "run" /\ Status' = "REMOTEFATAL" /\ TryAttempts' < MAX_TRY_ATTEMPTS
      \/ /\ stage' = "start" /\ Ref <= MAXRETRYCONN /\ Ref' = Ref + 1 /\ Status' = Status /\ TryAttempts' = TryAttempts
      \/ /\ stage' = "describe" /\ Ref <= MAXRETRYCONN /\ Ref' = Ref /\ Status' = Status /\ TryAttempts' = TryAttempts
  <2>1. CASE Ref > MAXRETRYCONN
    <3>1. Rtsp!ConnectFails /\ Ref' = Ref
      BY <2>1 DEF Rtsp!rtsp_session_start
    <3>2. TryAttempts' = TryAttempts + 1 => (~(TryAttempts' >= MAX_TRY_ATTEMPTS) => TryAttempts' < MAX_TRY_ATTEMPTS)
      BY <1>3, RtspAssumption
    <3> QED
      BY <3>1, <3>2 DEF Rtsp!ConnectFails, Rtsp!AttemptsAfter, Rtsp!None
  <2>2. CASE ~(Ref > MAXRETRYCONN)
    <3>1. Ref <= MAXRETRYCONN
      BY <1>3, <2>2, MmsAssumption
    <3> QED
      BY <1>1, <2>2, <3>1 DEF Rtsp!rtsp_session_start
  <2> QED
    BY <2>1, <2>2
<1>5. /\ server' \in RtspServers /\ server'.kind = server.kind /\ server'.stream = server.stream /\ server'.link = "up"
      /\ session' \in RtspSessions /\ ~session'.skipped
  <2>1. <<>> \in Seq(RtspBytes)
    OBVIOUS
  <2>2. server.stream \in Streams /\ server.kind \in RtspKinds
    BY <1>3, ServerIs
  <2>3. server' \in RtspServers /\ server'.kind = server.kind /\ server'.stream = server.stream /\ server'.link = "up"
    <3> DEFINE kd == server.kind
               sm == server.stream
    <3>1. kd \in RtspKinds /\ sm \in Streams
      BY <2>2
    <3>2. server' = [kind |-> kd, stream |-> sm, next |-> 1, link |-> "up"]
      BY <1>2
    <3> HIDE DEF kd, sm
    <3>3. server' \in RtspServers /\ server'.kind = kd /\ server'.stream = sm /\ server'.link = "up"
      BY <3>1, <3>2 DEF RtspServers
    <3> QED
      BY <3>3 DEF kd, sm
  <2>4. session' \in RtspSessions /\ ~session'.skipped
    BY <1>2, <2>1 DEF RtspSessions
  <2> QED
    BY <2>3, <2>4
<1>6. RtspTypes'
  <2>1. TryAttempts' \in 0 .. MAX_TRY_ATTEMPTS /\ Ref' \in 0 .. MAXRETRYCONN + 1
    BY <1>3, <1>4, RtspAssumption, MmsAssumption
  <2>2. /\ stage' \in RtspStages
        /\ Status' \in {"IDLE", "CONNECTING", "DOWNLOADING", "ALLDONE", "MAXTRYS", "LOCALFATAL", "REMOTEFATAL"}
    BY <1>3, <1>4 DEF RtspStages
  <2> QED
    BY <1>1, <1>5, <2>1, <2>2 DEF RtspInd, RtspTypes
<1>7. RtspCourse'
  BY <1>1, <1>3, <1>4 DEF RtspCourse
<1>8. RtspOpens' /\ BetweenAttempts' /\ InAttempt'
  <2>1. RtspOpens' /\ InAttempt'
    BY <1>4, <1>5 DEF RtspOpens, InAttempt
  <2>2. BetweenAttempts'
    BY <1>1 DEF RtspInd, BetweenAttempts
  <2> QED
    BY <2>1, <2>2
<1>9. Stored'
  <2>1. \A k \in Rtsp!Threads : Settled(k)' => Settled(k)
    BY <1>1, <1>4 DEF Settled
  <2> QED
    BY <1>1, <1>5, <2>1, StoredStays DEF RtspInd
<1> QED
  BY <1>6, <1>7, <1>8, <1>9 DEF RtspInd

\* What a server answers to DESCRIBE, and where it sends the client.
LEMMA SetupMoves ==
  ASSUME RtspInd, Rtsp!real_setup_and_get_header \/ Rtsp!Redirected
  PROVE  RtspInd'
<1>1. /\ stage \in {"describe", "redirected"} /\ ThreadId' = ThreadId /\ RemoteStartPos' = RemoteStartPos /\ Status' = Status
      /\ RemoteBytesReceived' = RemoteBytesReceived /\ TryAttempts' = TryAttempts /\ flagx' = flagx
      /\ msock' = msock /\ data' = data /\ files' = files /\ windows' = windows /\ joined' = joined
  BY DEF Rtsp!real_setup_and_get_header, Rtsp!Redirected, Rtsp!thread
<1>2. /\ TryAttempts < MAX_TRY_ATTEMPTS /\ joined = <<>> /\ Ref <= MAXRETRYCONN /\ ~session.skipped /\ server.link = "up"
      /\ server \in RtspServers /\ session \in RtspSessions /\ Ref \in 0 .. MAXRETRYCONN + 1
  BY <1>1 DEF RtspInd, RtspTypes, RtspCourse, RtspOpens
<1>3. /\ server' \in RtspServers /\ server'.kind = server.kind /\ server'.stream = server.stream /\ server'.link = "up"
      /\ session' \in RtspSessions /\ ~session'.skipped /\ Ref' \in 0 .. MAXRETRYCONN + 1
      /\ \/ stage' = "start"
         \/ stage' \in {"describe", "redirected"} /\ Ref' = Ref
         \/ stage' = "crashed"
         \/ stage' = "open" /\ (server.kind = "plain" => session'.source = Rtsp!HeaderBytes)
  <2>1. CASE stage' = "start" /\ Ref' = Ref + 1 /\ session' = session /\ server' = server
    BY <1>2, <2>1, MmsAssumption
  <2>2. CASE /\ stage' \in {"describe", "redirected"} /\ Ref' = Ref
             /\ session' = session /\ server' = server
    BY <1>2, <2>2
  <2>3. CASE stage' = "crashed" /\ Ref' = Ref /\ session' = session /\ server' = server
    BY <1>2, <2>3
  <2>4. CASE /\ session' = [session EXCEPT !.source = IF server.kind = "plain" THEN Rtsp!HeaderBytes ELSE <<>>]
             /\ stage' = "open" /\ Ref' = Ref /\ server' = server
    <3> DEFINE b == IF server.kind = "plain" THEN Rtsp!HeaderBytes ELSE <<>>
    <3>1. b \in Seq(RtspBytes)
      BY HeaderIs
    <3>2. server.kind = "plain" => b = Rtsp!HeaderBytes
      OBVIOUS
    <3>3. session' = [session EXCEPT !.source = b]
      BY <2>4
    <3> HIDE DEF b
    <3>4. session' \in RtspSessions /\ session'.source = b /\ session'.skipped = session.skipped
      BY <1>2, <3>1, <3>3 DEF RtspSessions
    <3> QED
      BY <1>2, <2>4, <3>2, <3>4
  <2> QED
    BY <2>1, <2>2, <2>3, <2>4 DEF Rtsp!real_setup_and_get_header, Rtsp!Redirected
<1>4. RtspTypes'
  <2>1. stage' \in RtspStages
    BY <1>3 DEF RtspStages
  <2> QED
    BY <1>1, <1>3, <2>1 DEF RtspInd, RtspTypes
<1>5. RtspCourse'
  BY <1>1, <1>2, <1>3 DEF RtspCourse
<1>6. RtspOpens' /\ InAttempt'
  BY <1>2, <1>3 DEF RtspOpens, InAttempt
<1>7. BetweenAttempts'
  BY <1>1 DEF RtspInd, BetweenAttempts
<1>8. Stored'
  <2>1. \A k \in Rtsp!Threads : Settled(k)' => Settled(k)
    BY <1>1, <1>3 DEF Settled
  <2> QED
    BY <1>1, <1>3, <2>1, StoredStays DEF RtspInd
<1> QED
  BY <1>4, <1>5, <1>6, <1>7, <1>8 DEF RtspInd

\* The query for the size ends.
LEMMA SizeKnownMoves ==
  ASSUME RtspInd, Rtsp!SizeKnown
  PROVE  RtspInd'
<1>1. /\ stage = "open" /\ ThreadId = -1 /\ ThreadId' = ThreadId /\ RemoteStartPos' = RemoteStartPos /\ Status' = Status
      /\ RemoteBytesReceived' = RemoteBytesReceived /\ TryAttempts' = TryAttempts /\ flagx' = flagx
      /\ msock' = msock /\ Ref' = Ref /\ session' = session /\ data' = data /\ server' = server
      /\ files' = files /\ windows' = windows /\ joined' = joined
  BY DEF Rtsp!SizeKnown, Rtsp!connecting, Rtsp!thread, Rtsp!None
<1>2. stage' = "noinfo" \/ stage' = "next"
  BY DEF Rtsp!SizeKnown
<1>3. joined = <<>> /\ ThreadId # ThreadCnt - 1
  BY <1>1, RtspAssumption DEF RtspInd, RtspCourse
<1>4. RtspTypes'
  BY <1>1, <1>2 DEF RtspInd, RtspTypes, RtspStages
<1>5. RtspCourse'
  BY <1>1, <1>2, <1>3 DEF RtspCourse
<1>6. RtspOpens' /\ BetweenAttempts' /\ InAttempt'
  BY <1>1, <1>2 DEF RtspOpens, BetweenAttempts, InAttempt
<1>7. Stored'
  <2>1. \A k \in Rtsp!Threads : Settled(k)' => Settled(k)
    BY <1>1, <1>2 DEF Settled, Rtsp!Threads
  <2> QED
    BY <1>1, <2>1, StoredStays DEF RtspInd
<1> QED
  BY <1>4, <1>5, <1>6, <1>7 DEF RtspInd

\* The files are joined, once every pthread is done.
LEMMA FixMoves ==
  ASSUME RtspInd, Rtsp!fixRealMediaFile
  PROVE  RtspInd'
<1>1. /\ stage = "join" /\ ThreadId' = ThreadId /\ RemoteStartPos' = RemoteStartPos /\ Status' = Status
      /\ RemoteBytesReceived' = RemoteBytesReceived /\ TryAttempts' = TryAttempts /\ flagx' = flagx
      /\ msock' = msock /\ Ref' = Ref /\ session' = session /\ data' = data /\ server' = server
      /\ files' = files /\ windows' = windows
  BY DEF Rtsp!fixRealMediaFile, Rtsp!connecting, Rtsp!thread
<1>2. stage' = "joined" /\ joined' = Rtsp!FilesUpTo(files)[ThreadCnt]
  BY DEF Rtsp!fixRealMediaFile
<1>3. ThreadId # -1 /\ ThreadId = ThreadCnt - 1
  BY <1>1 DEF RtspInd, RtspCourse
<1>4. RtspTypes'
  BY <1>1, <1>2 DEF RtspInd, RtspTypes, RtspStages
<1>5. RtspCourse'
  BY <1>1, <1>2, <1>3 DEF RtspCourse
<1>6. RtspOpens' /\ BetweenAttempts' /\ InAttempt'
  BY <1>1, <1>2 DEF RtspOpens, BetweenAttempts, InAttempt
<1>7. Stored'
  <2>1. \A k \in Rtsp!Threads : Settled(k)' => Settled(k)
    BY <1>1, <1>2 DEF Settled
  <2> QED
    BY <1>1, <2>1, StoredStays DEF RtspInd
<1> QED
  BY <1>4, <1>5, <1>6, <1>7 DEF RtspInd

\* What the running pthread does to its own file leaves those of the others as they are.
LEMMA StoredElsewhere ==
  ASSUME Stored, server'.kind = server.kind, server'.stream = server.stream,
         \A k \in Rtsp!Threads : Settled(k)' => Settled(k) /\ files'[k] = files[k] /\ windows'[k] = windows[k]
  PROVE  Stored'
<1> SUFFICES ASSUME NEW k \in Rtsp!Threads, Settled(k)' PROVE Filled(k)'
  BY DEF Stored
<1> QED
  BY FilledStays DEF Stored

\* A read begins, with nothing copied.
LEMMA RecvMoves ==
  ASSUME RtspInd, Rtsp!Recv
  PROVE  RtspInd'
<1>1. /\ stage = "recv" /\ ThreadId' = ThreadId /\ RemoteStartPos' = RemoteStartPos /\ Status' = Status
      /\ RemoteBytesReceived' = RemoteBytesReceived /\ TryAttempts' = TryAttempts /\ flagx' = flagx
      /\ msock' = msock /\ Ref' = Ref /\ session' = session /\ server' = server
      /\ files' = files /\ windows' = windows /\ joined' = joined
  BY DEF Rtsp!Recv, Rtsp!Quiet, Rtsp!connecting, Rtsp!thread
<1>2. stage' = "read" /\ data' = <<>>
  BY DEF Rtsp!Recv
<1>3. joined = <<>> /\ TryAttempts < MAX_TRY_ATTEMPTS /\ ThreadId # -1
  BY <1>1 DEF RtspInd, RtspCourse
<1>4. RtspTypes'
  <2>1. data' \in Seq(RtspBytes) /\ Len(data') <= RTSP_BUF_SIZE
    BY <1>2, RtspAssumption
  <2> QED
    BY <1>1, <1>2, <2>1 DEF RtspInd, RtspTypes, RtspStages
<1>5. RtspCourse'
  BY <1>1, <1>2, <1>3 DEF RtspCourse
<1>6. RtspOpens' /\ BetweenAttempts'
  BY <1>2 DEF RtspOpens, BetweenAttempts
<1>7. InAttempt'
  <2>1. /\ windows[ThreadId].from = session.pstart /\ windows[ThreadId].to = session.pstend
        /\ files[ThreadId] \in Seq(RtspBytes) /\ server.next <= Len(server.stream) + 1
        /\ Rtsp!Plain /\ windows[ThreadId].whole => Streaming
    BY <1>1 DEF RtspInd, InAttempt
  <2>2. ASSUME Streaming PROVE Streaming'
    <3>1. Copied = <<>> /\ Copied' = <<>> /\ Waiting' = Waiting /\ HeaderFirst' = HeaderFirst /\ InItsWindow' = InItsWindow
      BY <1>1, <1>2 DEF Copied, Waiting, HeaderFirst, InItsWindow
    <3>2. NoneToCome' <=> NoneToCome
      BY <1>1, <3>1 DEF NoneToCome
    <3> QED
      BY <1>1, <1>2, <2>2, <3>1, <3>2 DEF Streaming
  <2>3. Rtsp!Plain' <=> Rtsp!Plain
    BY <1>1, PlainStays
  <2> QED
    BY <1>1, <2>1, <2>2, <2>3 DEF InAttempt
<1>8. Stored'
  <2>1. \A k \in Rtsp!Threads : Settled(k)' => Settled(k)
    BY <1>1, <1>2 DEF Settled
  <2> QED
    BY <1>1, <2>1, StoredStays DEF RtspInd
<1> QED
  BY <1>4, <1>5, <1>6, <1>7, <1>8 DEF RtspInd

\* A window is a pair of numbers.
LEMMA WindowIs ==
  ASSUME NEW a \in Int, NEW k \in Rtsp!Threads
  PROVE  Rtsp!Window(a, Rtsp!BlockEnd(k)).from \in Int /\ Rtsp!Window(a, Rtsp!BlockEnd(k)).to \in Int
<1>1. \A x \in Int : Rtsp!ToStamp(x) \in Int
  <2> SUFFICES ASSUME NEW x \in Int PROVE Rtsp!ToStamp(x) \in Int
    OBVIOUS
  <2>1. x * 8000 \in Int
    OBVIOUS
  <2> QED
    BY <2>1, RtspAssumption DEF Rtsp!ToStamp
<1>2. Rtsp!BlockEnd(k) \in Int
  <2>1. Rtsp!FileSize \in Nat
    BY BlocksHaveBytes
  <2>2. Rtsp!FileSize \div ThreadCnt \in Nat /\ k + 1 \in Nat
    BY <2>1, RtspAssumption DEF Rtsp!Threads
  <2>3. (k + 1) * (Rtsp!FileSize \div ThreadCnt) \in Int
    BY <2>2
  <2> QED
    BY <2>1, <2>3 DEF Rtsp!BlockEnd, Rtsp!BlockStart
<1> DEFINE e == Rtsp!BlockEnd(k)
           o == Rtsp!ToStamp(a)
           l == Rtsp!ToStamp(e - a)
           c == IF o + l >= Duration THEN Duration - o ELSE l
<1>3. o \in Int /\ l \in Int
  BY <1>1, <1>2
<1>4. c \in Int
  BY <1>3, RtspAssumption
<1>5. Rtsp!Window(a, e).from = o /\ Rtsp!Window(a, e).to = IF c > 0 THEN o + c ELSE -1
  BY DEF Rtsp!Window, Rtsp!None
<1> QED
  BY <1>3, <1>4, <1>5

\* An attempt begins with an empty file, or the answer to PLAY is not what was asked for.
LEMMA PreProcessMoves ==
  ASSUME RtspInd, Rtsp!PreProcess
  PROVE  RtspInd'
<1> DEFINE w == Rtsp!Window(RemoteStartPos, Rtsp!BlockEnd(ThreadId))
<1>1. /\ stage = "open" /\ ThreadId # -1 /\ ThreadId' = ThreadId /\ RemoteStartPos' = RemoteStartPos
      /\ RemoteBytesReceived' = RemoteBytesReceived /\ flagx' = FALSE
      /\ msock' = msock /\ Ref' = Ref /\ data' = data /\ joined' = joined
  BY DEF Rtsp!PreProcess, Rtsp!connecting, Rtsp!None
<1>2. /\ joined = <<>> /\ TryAttempts < MAX_TRY_ATTEMPTS /\ TryAttempts \in 0 .. MAX_TRY_ATTEMPTS /\ RtspTypes
      /\ ThreadId \in Rtsp!Threads /\ RemoteStartPos \in Int /\ server \in RtspServers /\ session \in RtspSessions
      /\ files \in [Rtsp!Threads -> RtspFiles] /\ windows \in [Rtsp!Threads -> RtspWindows]
      /\ ~session.skipped /\ server.link = "up" /\ (server.kind = "plain" => session.source = Rtsp!HeaderBytes)
  BY <1>1 DEF RtspInd, RtspTypes, RtspCourse, RtspOpens
<1>3. <<>> \in RtspFiles /\ <<>> \in Seq(RtspBytes)
  BY DEF RtspFiles
<1>4. Rtsp!Attempted(FALSE) => /\ TryAttempts' = TryAttempts + 1 /\ TryAttempts' \in 0 .. MAX_TRY_ATTEMPTS
                               /\ stage' = "done" \/ (stage' = "run" /\ TryAttempts' < MAX_TRY_ATTEMPTS)
  <2>1. /\ TryAttempts + 1 \in 0 .. MAX_TRY_ATTEMPTS
        /\ ~(TryAttempts + 1 >= MAX_TRY_ATTEMPTS) => TryAttempts + 1 < MAX_TRY_ATTEMPTS
    BY <1>2, RtspAssumption
  <2> QED
    BY <2>1 DEF Rtsp!Attempted, Rtsp!AttemptsAfter
<1>5. CASE /\ Rtsp!Attempted(FALSE) /\ Status' \in {"MAXTRYS", "LOCALFATAL", "DOWNLOADING"}
           /\ files' = files \/ files' = [files EXCEPT ![ThreadId] = <<>>]
           /\ session' = session /\ server' = server /\ windows' = windows
  <2>1. files' \in [Rtsp!Threads -> RtspFiles] /\ \A k \in Rtsp!Threads : k # ThreadId => files'[k] = files[k]
    BY <1>2, <1>3, <1>5
  <2>2. /\ Status' \in {"MAXTRYS", "LOCALFATAL", "DOWNLOADING"}
        /\ stage' = "done" \/ (stage' = "run" /\ TryAttempts' < MAX_TRY_ATTEMPTS)
        /\ TryAttempts' \in 0 .. MAX_TRY_ATTEMPTS
    BY <1>4, <1>5
  <2>3. RtspTypes'
    BY <1>1, <1>2, <1>5, <2>1, <2>2 DEF RtspTypes, RtspStages
  <2>4. RtspCourse'
    BY <1>1, <1>2, <2>2 DEF RtspCourse
  <2>5. RtspOpens' /\ InAttempt'
    BY <2>2 DEF RtspOpens, InAttempt
  <2>6. BetweenAttempts'
    BY <1>1, <1>5 DEF RtspInd, BetweenAttempts
  <2>7. Stored'
    <3>1. \A k \in Rtsp!Threads : Settled(k)' => Settled(k) /\ k # ThreadId
      BY <1>1, <1>2, <2>2 DEF Settled, Rtsp!Threads
    <3> QED
      BY <1>5, <2>1, <3>1, StoredElsewhere DEF RtspInd
  <2> QED
    BY <2>3, <2>4, <2>5, <2>6, <2>7 DEF RtspInd
<1>6. CASE /\ Status' = "DOWNLOADING" /\ stage' = "recv" /\ TryAttempts' = TryAttempts
           /\ files' = [files EXCEPT ![ThreadId] = <<>>]
           /\ session' = [source |-> session.source, skipped |-> session.skipped, pstart |-> w.from,
                          pstend |-> w.to, timestamp |-> session.timestamp]
           /\ windows' = [windows EXCEPT ![ThreadId] = [from |-> w.from, to |-> w.to, whole |-> TRUE]]
           /\ \E first \in 1 .. Len(server.stream) + 1 :
                 /\ \A n \in 1 .. first - 1 : server.stream[n].ts < w.from
                 /\ server' = [server EXCEPT !.next = first]
  <2>1. PICK first \in 1 .. Len(server.stream) + 1 :
              /\ \A n \in 1 .. first - 1 : server.stream[n].ts < w.from
              /\ server' = [server EXCEPT !.next = first]
    BY <1>6
  <2>2. w.from \in Int /\ w.to \in Int
    BY <1>2, WindowIs
  <2> HIDE DEF w
  <2>3. Len(server.stream) \in Nat /\ server.stream \in Streams /\ DOMAIN server.stream = 1 .. Len(server.stream)
        /\ first \in Nat \ {0} /\ first <= Len(server.stream) + 1
        /\ \A n \in 1 .. Len(server.stream) : server.stream[n].ts \in Nat
    <3>1. server.stream \in Streams
      BY <1>2, ServerIs
    <3>2. /\ Len(server.stream) \in Nat /\ DOMAIN server.stream = 1 .. Len(server.stream)
          /\ \A n \in 1 .. Len(server.stream) : server.stream[n].ts \in Nat
      BY <3>1, StreamIs
    <3> QED
      BY <3>1, <3>2
  <2>4. /\ server' \in RtspServers /\ server'.kind = server.kind /\ server'.stream = server.stream
        /\ server'.link = server.link /\ server'.next = first
    BY <1>2, <2>1, <2>3 DEF RtspServers
  <2>5. /\ session' \in RtspSessions /\ session'.source = session.source /\ session'.skipped = session.skipped
        /\ session'.pstart = w.from /\ session'.pstend = w.to
    <3>1. session.source \in Seq(RtspBytes) /\ session.skipped \in BOOLEAN /\ session.timestamp \in Nat
      BY <1>2, SessionIs
    <3>2. session'.source = session.source /\ session'.skipped = session.skipped
          /\ session'.pstart = w.from /\ session'.pstend = w.to
      BY <1>6
    <3> QED
      BY <1>6, <2>2, <3>1, <3>2 DEF RtspSessions
  <2>6. /\ windows' \in [Rtsp!Threads -> RtspWindows]
        /\ windows'[ThreadId].from = w.from /\ windows'[ThreadId].to = w.to
        /\ \A k \in Rtsp!Threads : k # ThreadId => windows'[k] = windows[k]
    <3>1. [from |-> w.from, to |-> w.to, whole |-> TRUE] \in RtspWindows
      BY <2>2 DEF RtspWindows
    <3> QED
      BY <1>2, <1>6, <3>1
  <2>7. /\ files' \in [Rtsp!Threads -> RtspFiles] /\ files'[ThreadId] = <<>>
        /\ \A k \in Rtsp!Threads : k # ThreadId => files'[k] = files[k]
    BY <1>2, <1>3, <1>6
  <2>8. RtspTypes'
    <3>1. stage' \in RtspStages
          /\ Status' \in {"IDLE", "CONNECTING", "DOWNLOADING", "ALLDONE", "MAXTRYS", "LOCALFATAL", "REMOTEFATAL"}
      BY <1>6 DEF RtspStages
    <3> QED
      BY <1>1, <1>2, <1>6, <2>4, <2>5, <2>6, <2>7, <3>1 DEF RtspTypes
  <2>9. RtspCourse'
    BY <1>1, <1>2, <1>6 DEF RtspCourse
  <2>10. RtspOpens' /\ BetweenAttempts'
    BY <1>6 DEF RtspOpens, BetweenAttempts
  <2>11. ASSUME Rtsp!Plain' PROVE Streaming'
    <3>1. server.kind = "plain"
      BY <2>4, <2>11 DEF Rtsp!Plain
    <3>2. Copied' = <<>> /\ Waiting' = Rtsp!HeaderBytes /\ HeaderFirst' = Rtsp!HeaderBytes
      BY <1>1, <1>2, <1>6, <2>5, <3>1 DEF Copied, Waiting, HeaderFirst
    <3> DEFINE W == InItsWindow'
    <3>3. \A m \in 0 + 1 .. first - 1 : m \notin W
      <4> SUFFICES ASSUME NEW m \in 1 .. first - 1, m \in W PROVE FALSE
        OBVIOUS
      <4>1. m \in 1 .. Len(server.stream) /\ server.stream[m].ts < w.from /\ server.stream[m].ts \in Nat
        BY <2>1, <2>3
      <4>2. w.from <= server.stream[m].ts
        BY <1>1, <2>4, <2>6 DEF InItsWindow, Rtsp!PacketsIn, Rtsp!InWindow
      <4> QED
        BY <2>2, <4>1, <4>2
    <3>4. Rtsp!PacketsUpTo(server.stream, W)[first - 1] = <<>>
      <4>1. 0 \in 0 .. Len(server.stream) /\ first - 1 \in 0 .. Len(server.stream)
        BY <2>3
      <4>2. Rtsp!PacketsUpTo(server.stream, W)[0] = <<>>
        BY <2>3, PacketsUpToAre
      <4> HIDE DEF W
      <4>3. Rtsp!PacketsUpTo(server.stream, W)[first - 1] = Rtsp!PacketsUpTo(server.stream, W)[0]
        BY <2>3, <3>3, <4>1, NoPackets
      <4> QED
        BY <4>2, <4>3
    <3>5. Then(files[ThreadId], Then(Copied, Waiting))'
             = Then(HeaderFirst, Rtsp!PacketsUpTo(server.stream, InItsWindow)[server.next - 1])'
      <4>1. Then(<<>>, Then(<<>>, Rtsp!HeaderBytes)) = Then(Rtsp!HeaderBytes, <<>>)
        <5>1. Then(<<>>, Rtsp!HeaderBytes) = Rtsp!HeaderBytes /\ Then(Rtsp!HeaderBytes, <<>>) = Rtsp!HeaderBytes
          BY HeaderIs, ThenIs
        <5> QED
          BY <5>1
      <4> QED
        BY <1>1, <2>4, <2>7, <3>2, <3>4, <4>1
    <3> QED
      BY <1>1, <1>2, <1>6, <2>4, <2>5, <2>7, <3>5 DEF Streaming
  <2>12. InAttempt'
    BY <1>1, <1>3, <2>3, <2>4, <2>5, <2>6, <2>7, <2>11 DEF InAttempt
  <2>13. Stored'
    <3>1. \A k \in Rtsp!Threads : Settled(k)' => Settled(k) /\ k # ThreadId
      BY <1>1, <1>2, <1>6 DEF Settled, Rtsp!Threads
    <3> QED
      BY <2>4, <2>6, <2>7, <3>1, StoredElsewhere DEF RtspInd
  <2> QED
    BY <2>8, <2>9, <2>10, <2>12, <2>13 DEF RtspInd
<1>7. \/ /\ Rtsp!Attempted(FALSE) /\ Status' = (IF stage' = "done" THEN "MAXTRYS" ELSE "LOCALFATAL")
         /\ session' = session /\ files' = files /\ server' = server /\ windows' = windows
      \/ /\ Rtsp!Attempted(FALSE) /\ Status' = (IF stage' = "done" THEN "MAXTRYS" ELSE "DOWNLOADING")
         /\ files' = [files EXCEPT ![ThreadId] = <<>>]
         /\ session' = session /\ server' = server /\ windows' = windows
      \/ <1>6!1
  BY DEF Rtsp!PreProcess, Rtsp!Playing
<1> HIDE DEF w
<1> QED
  BY <1>5, <1>6, <1>7

-----------------------------------------------------------------------------
(* rtsp_session_read. *)

\* What an attempt knows.
LEMMA AttemptIs ==
  ASSUME RtspInd, stage \in {"recv", "read", "write"}
  PROVE  /\ ThreadId \in Rtsp!Threads /\ TryAttempts < MAX_TRY_ATTEMPTS /\ TryAttempts \in 0 .. MAX_TRY_ATTEMPTS
         /\ joined = <<>>
         /\ data \in Seq(RtspBytes) /\ Len(data) \in Nat /\ Len(data) <= RTSP_BUF_SIZE /\ RTSP_BUF_SIZE \in Nat \ {0}
         /\ session \in RtspSessions /\ session.source \in Seq(RtspBytes) /\ Len(session.source) \in Nat
         /\ session.skipped \in BOOLEAN /\ session.pstart \in Int /\ session.pstend \in Int
         /\ server \in RtspServers /\ server.stream \in Streams /\ Len(server.stream) \in Nat
         /\ server.next \in Nat \ {0} /\ server.next <= Len(server.stream) + 1 /\ server.link \in {"up", "ended"}
         /\ DOMAIN server.stream = 1 .. Len(server.stream)
         /\ \A n \in 1 .. Len(server.stream) : server.stream[n].ts \in Nat /\ server.stream[n].size \in Nat \ {0}
         /\ windows[ThreadId].from = session.pstart /\ windows[ThreadId].to = session.pstend
         /\ files[ThreadId] \in Seq(RtspBytes) /\ windows \in [Rtsp!Threads -> RtspWindows]
         /\ Rtsp!Plain /\ windows[ThreadId].whole => Streaming
<1>1. /\ ThreadId \in Rtsp!Threads /\ TryAttempts < MAX_TRY_ATTEMPTS /\ TryAttempts \in 0 .. MAX_TRY_ATTEMPTS
      /\ joined = <<>>
  BY DEF RtspInd, RtspTypes, RtspCourse
<1>2. data \in Seq(RtspBytes) /\ Len(data) \in Nat /\ Len(data) <= RTSP_BUF_SIZE /\ RTSP_BUF_SIZE \in Nat \ {0}
  BY RtspAssumption DEF RtspInd, RtspTypes
<1>3. /\ session \in RtspSessions /\ session.source \in Seq(RtspBytes) /\ Len(session.source) \in Nat
      /\ session.skipped \in BOOLEAN /\ session.pstart \in Int /\ session.pstend \in Int
  <2>1. session \in RtspSessions
    BY DEF RtspInd, RtspTypes
  <2>2. session.source \in Seq(RtspBytes) /\ session.skipped \in BOOLEAN /\ session.pstart \in Int /\ session.pstend \in Int
    BY <2>1, SessionIs
  <2>3. Len(session.source) \in Nat
    BY <2>2, LenProperties
  <2> QED
    BY <2>1, <2>2, <2>3
<1>4. server \in RtspServers /\ server.stream \in Streams /\ server.next \in Nat \ {0} /\ server.link \in {"up", "ended"}
  BY ServerIs DEF RtspInd, RtspTypes
<1>5. /\ Len(server.stream) \in Nat /\ DOMAIN server.stream = 1 .. Len(server.stream)
      /\ \A n \in 1 .. Len(server.stream) : server.stream[n].ts \in Nat /\ server.stream[n].size \in Nat \ {0}
  BY <1>4, StreamIs
<1>6. /\ windows[ThreadId].from = session.pstart /\ windows[ThreadId].to = session.pstend
      /\ files[ThreadId] \in Seq(RtspBytes) /\ server.next <= Len(server.stream) + 1
      /\ Rtsp!Plain /\ windows[ThreadId].whole => Streaming
  BY DEF RtspInd, InAttempt
<1>7. windows \in [Rtsp!Threads -> RtspWindows]
  BY DEF RtspInd, RtspTypes
<1> QED
  BY <1>1, <1>2, <1>3, <1>4, <1>5, <1>6, <1>7

\* What the packets of the window are, and what has been added up of them.
LEMMA WindowHas ==
  ASSUME RtspInd, stage \in {"recv", "read", "write"}
  PROVE  /\ \A n \in 1 .. Len(server.stream) :
               n \in InItsWindow <=> Rtsp!InWindow(server.stream[n].ts, session.pstart, session.pstend)
         /\ InItsWindow \subseteq 1 .. Len(server.stream)
         /\ server.next - 1 \in 0 .. Len(server.stream)
         /\ Rtsp!PacketsUpTo(server.stream, InItsWindow)[server.next - 1] \in Seq(RtspBytes)
<1>1. /\ server.stream \in Streams /\ Len(server.stream) \in Nat /\ server.next \in Nat \ {0} /\ server.next <= Len(server.stream) + 1
      /\ DOMAIN server.stream = 1 .. Len(server.stream)
      /\ windows[ThreadId].from = session.pstart /\ windows[ThreadId].to = session.pstend
  BY AttemptIs
<1>2. server.next - 1 \in 0 .. Len(server.stream)
  BY <1>1
<1>3. Rtsp!PacketsUpTo(server.stream, InItsWindow)[server.next - 1] \in Seq(RtspBytes)
  BY <1>1, <1>2, PacketsUpToAre
<1>4. InItsWindow = {n \in 1 .. Len(server.stream) : Rtsp!InWindow(server.stream[n].ts, session.pstart, session.pstend)}
  BY <1>1 DEF InItsWindow, Rtsp!PacketsIn
<1> QED
  BY <1>2, <1>3, <1>4

\* A chunk is put where it belongs: before the window it is skipped, behind it the read ends.
LEMMA ChunkIs ==
  ASSUME RtspInd, NEW bytes \in Seq(RtspBytes), NEW ts \in Nat, Rtsp!Chunk(bytes, ts)
  PROVE  /\ stage = "read" /\ ThreadId' = ThreadId /\ RemoteStartPos' = RemoteStartPos /\ Status' = Status
         /\ RemoteBytesReceived' = RemoteBytesReceived /\ TryAttempts' = TryAttempts /\ flagx' = flagx
         /\ msock' = msock /\ Ref' = Ref /\ files' = files /\ joined' = joined
         /\ data' = Then(data, Waiting) /\ data' \in Seq(RtspBytes) /\ Len(data') < RTSP_BUF_SIZE /\ Len(data') \in Nat
         /\ Waiting \in Seq(RtspBytes)
         /\ session' \in RtspSessions /\ session'.pstart = session.pstart /\ session'.pstend = session.pstend
         /\ \/ ts < session.pstart /\ stage' = "read" /\ session'.source = bytes /\ session'.skipped
            \/ /\ ts >= session.pstart /\ (Rtsp!BeyondWindow(ts) \/ bytes = <<>>)
               /\ stage' = "write" /\ session'.source = <<>> /\ ~session'.skipped
            \/ /\ ts >= session.pstart /\ ~Rtsp!BeyondWindow(ts) /\ bytes # <<>>
               /\ stage' = "read" /\ session'.source = bytes /\ ~session'.skipped
<1>1. stage = "read"
  BY DEF Rtsp!Chunk
<1>2. /\ ThreadId' = ThreadId /\ RemoteStartPos' = RemoteStartPos /\ Status' = Status
      /\ RemoteBytesReceived' = RemoteBytesReceived /\ TryAttempts' = TryAttempts /\ flagx' = flagx
      /\ msock' = msock /\ Ref' = Ref /\ files' = files /\ joined' = joined
  BY DEF Rtsp!Chunk, Rtsp!Quiet, Rtsp!connecting, Rtsp!thread
<1>3. /\ data \in Seq(RtspBytes) /\ Len(data) \in Nat /\ RTSP_BUF_SIZE \in Nat
      /\ session.source \in Seq(RtspBytes) /\ Len(session.source) \in Nat
      /\ session.pstart \in Int /\ session.pstend \in Int /\ <<>> \in Seq(RtspBytes)
  BY <1>1, AttemptIs
<1>4. data' = Then(data, Waiting) /\ RTSP_BUF_SIZE - Len(data) > Len(session.source)
  BY DEF Rtsp!Chunk, Rtsp!Copy, Then, Waiting
<1>5. Waiting \in Seq(RtspBytes) /\ Len(Waiting) \in Nat /\ Len(Waiting) <= Len(session.source)
  BY <1>3 DEF Waiting
<1>6. data' \in Seq(RtspBytes) /\ Len(data') < RTSP_BUF_SIZE /\ Len(data') \in Nat
  <2>1. data' \in Seq(RtspBytes) /\ Len(data') = Len(data) + Len(Waiting)
    BY <1>3, <1>4, <1>5, ThenIs
  <2>2. Len(data) + Len(Waiting) < RTSP_BUF_SIZE /\ Len(data) + Len(Waiting) \in Nat
    BY <1>3, <1>4, <1>5
  <2> QED
    BY <2>1, <2>2
<1>7. ASSUME NEW b \in Seq(RtspBytes), NEW k \in BOOLEAN, session' = Rtsp!Unread(b, k, ts)
      PROVE  /\ session' \in RtspSessions /\ session'.pstart = session.pstart /\ session'.pstend = session.pstend
             /\ session'.source = b /\ session'.skipped = k
  <2>1. session' = [source |-> b, skipped |-> k, pstart |-> session.pstart, pstend |-> session.pstend, timestamp |-> ts]
    BY <1>7 DEF Rtsp!Unread
  <2> QED
    BY <1>3, <2>1 DEF RtspSessions
<1>8. \/ ts < session.pstart /\ session' = Rtsp!Unread(bytes, TRUE, ts) /\ stage' = stage
      \/ /\ ts >= session.pstart /\ (Rtsp!BeyondWindow(ts) \/ bytes = <<>>)
         /\ session' = Rtsp!Unread(<<>>, FALSE, ts) /\ stage' = "write"
      \/ /\ ts >= session.pstart /\ ~Rtsp!BeyondWindow(ts) /\ bytes # <<>>
         /\ session' = Rtsp!Unread(bytes, FALSE, ts) /\ stage' = stage
  BY DEF Rtsp!Chunk
<1>9. /\ session' \in RtspSessions /\ session'.pstart = session.pstart /\ session'.pstend = session.pstend
      /\ \/ ts < session.pstart /\ stage' = "read" /\ session'.source = bytes /\ session'.skipped
         \/ /\ ts >= session.pstart /\ (Rtsp!BeyondWindow(ts) \/ bytes = <<>>)
            /\ stage' = "write" /\ session'.source = <<>> /\ ~session'.skipped
         \/ /\ ts >= session.pstart /\ ~Rtsp!BeyondWindow(ts) /\ bytes # <<>>
            /\ stage' = "read" /\ session'.source = bytes /\ ~session'.skipped
  <2>1. CASE ts < session.pstart /\ session' = Rtsp!Unread(bytes, TRUE, ts) /\ stage' = stage
    BY <1>1, <1>7, <2>1
  <2>2. CASE /\ ts >= session.pstart /\ (Rtsp!BeyondWindow(ts) \/ bytes = <<>>)
             /\ session' = Rtsp!Unread(<<>>, FALSE, ts) /\ stage' = "write"
    BY <1>3, <1>7, <2>2
  <2>3. CASE /\ ts >= session.pstart /\ ~Rtsp!BeyondWindow(ts) /\ bytes # <<>>
             /\ session' = Rtsp!Unread(bytes, FALSE, ts) /\ stage' = stage
    BY <1>1, <1>7, <2>3
  <2> QED
    BY <1>8, <2>1, <2>2, <2>3
<1> QED
  BY <1>1, <1>2, <1>4, <1>5, <1>6, <1>9

\* A window of which a part is lost.
LEMMA TornIs ==
  ASSUME ThreadId \in Rtsp!Threads, windows \in [Rtsp!Threads -> RtspWindows], windows' = Rtsp!Torn
  PROVE  /\ windows' \in [Rtsp!Threads -> RtspWindows] /\ ~windows'[ThreadId].whole
         /\ windows'[ThreadId].from = windows[ThreadId].from /\ windows'[ThreadId].to = windows[ThreadId].to
         /\ \A k \in Rtsp!Threads : k # ThreadId => windows'[k] = windows[k]
<1> DEFINE w == [from |-> windows[ThreadId].from, to |-> windows[ThreadId].to, whole |-> FALSE]
<1>1. windows[ThreadId].from \in Int /\ windows[ThreadId].to \in Int
  BY DEF RtspWindows
<1>2. w \in RtspWindows /\ ~w.whole /\ w.from = windows[ThreadId].from /\ w.to = windows[ThreadId].to
  BY <1>1 DEF RtspWindows
<1>3. windows' = [windows EXCEPT ![ThreadId] = w]
  BY DEF Rtsp!Torn
<1> HIDE DEF w
<1> QED
  BY <1>2, <1>3

\* What a chunk must be for the pthread to go on storing its window.
LEMMA ChunkKeeps ==
  ASSUME RtspInd, NEW bytes \in Seq(RtspBytes), NEW ts \in Nat, Rtsp!Chunk(bytes, ts),
         server' \in RtspServers, server'.kind = server.kind, server'.stream = server.stream,
         server'.next <= Len(server.stream) + 1,
         windows' = windows \/ windows' = Rtsp!Torn,
         Rtsp!Plain /\ Streaming /\ windows' = windows /\ windows[ThreadId].whole =>
            /\ Then(Rtsp!PacketsUpTo(server.stream, InItsWindow)[server.next - 1], Waiting')
                  = Rtsp!PacketsUpTo(server.stream, InItsWindow)[server'.next - 1]
            /\ session'.skipped => Len(data') + Len(session'.source) < RTSP_BUF_SIZE
            /\ server'.link = "ended" \/ stage' = "write" => \A n \in InItsWindow : n < server'.next
  PROVE  RtspInd'
<1>1. /\ stage = "read" /\ ThreadId' = ThreadId /\ RemoteStartPos' = RemoteStartPos /\ Status' = Status
      /\ RemoteBytesReceived' = RemoteBytesReceived /\ TryAttempts' = TryAttempts /\ flagx' = flagx
      /\ msock' = msock /\ Ref' = Ref /\ files' = files /\ joined' = joined
      /\ data' = Then(data, Waiting) /\ data' \in Seq(RtspBytes) /\ Len(data') < RTSP_BUF_SIZE /\ Len(data') \in Nat
      /\ Waiting \in Seq(RtspBytes)
      /\ session' \in RtspSessions /\ session'.pstart = session.pstart /\ session'.pstend = session.pstend
  BY ChunkIs
<1>2. stage' \in {"read", "write"} /\ (stage' = "write" => session'.source = <<>> /\ ~session'.skipped)
  BY ChunkIs
<1>3. /\ ThreadId \in Rtsp!Threads /\ ThreadId # -1 /\ TryAttempts < MAX_TRY_ATTEMPTS /\ joined = <<>>
      /\ data \in Seq(RtspBytes) /\ RTSP_BUF_SIZE \in Nat \ {0}
      /\ server.stream \in Streams
      /\ windows[ThreadId].from = session.pstart /\ windows[ThreadId].to = session.pstend
      /\ files[ThreadId] \in Seq(RtspBytes) /\ windows \in [Rtsp!Threads -> RtspWindows]
      /\ Rtsp!Plain /\ windows[ThreadId].whole => Streaming
  BY ONLY <1>1, RtspInd, AttemptIs DEF Rtsp!Threads
<1>4. /\ windows' \in [Rtsp!Threads -> RtspWindows]
      /\ windows'[ThreadId].from = session.pstart /\ windows'[ThreadId].to = session.pstend
      /\ windows'[ThreadId].whole => windows' = windows
      /\ \A k \in Rtsp!Threads : k # ThreadId => windows'[k] = windows[k]
  BY <1>3, TornIs
<1>5. RtspTypes'
  <2>1. stage' \in RtspStages
    BY <1>2 DEF RtspStages
  <2>2. Len(data') <= RTSP_BUF_SIZE
    BY <1>1, <1>3
  <2>3. files' \in [Rtsp!Threads -> RtspFiles]
    BY <1>1 DEF RtspInd, RtspTypes
  <2> QED
    BY <1>1, <1>4, <2>1, <2>2, <2>3 DEF RtspInd, RtspTypes
<1>6. RtspCourse'
  BY <1>1, <1>2, <1>3 DEF RtspCourse
<1>7. RtspOpens' /\ BetweenAttempts'
  BY <1>2 DEF RtspOpens, BetweenAttempts
<1>8. Stored'
  <2>1. \A k \in Rtsp!Threads : Settled(k)' => Settled(k) /\ k # ThreadId
    BY <1>1, <1>2, <1>3 DEF Settled, Rtsp!Threads
  <2> QED
    BY <1>1, <1>4, <2>1, StoredElsewhere DEF RtspInd
<1>9. ASSUME Rtsp!Plain', windows'[ThreadId].whole PROVE Streaming'
  <2>1. windows' = windows /\ windows[ThreadId].whole /\ Rtsp!Plain /\ Streaming
    <3>1. windows' = windows
      BY <1>4, <1>9
    <3>2. Rtsp!Plain
      BY <1>9, PlainStays
    <3> QED
      BY <1>3, <1>9, <3>1, <3>2
  <2> DEFINE P == Rtsp!PacketsUpTo(server.stream, InItsWindow)
             F == files[ThreadId]
             H == HeaderFirst
             Q == P[server.next - 1]
  <2>2. /\ Then(Q, Waiting') = P[server'.next - 1]
        /\ session'.skipped => Len(data') + Len(session'.source) < RTSP_BUF_SIZE
        /\ server'.link = "ended" \/ stage' = "write" => \A n \in InItsWindow : n < server'.next
    BY <2>1
  <2>3. InItsWindow' = InItsWindow /\ HeaderFirst' = H /\ Copied = data /\ Copied' = data'
    BY <1>1, <1>2, <2>1 DEF InItsWindow, HeaderFirst, Copied
  <2>4. Then(F, Then(data, Waiting)) = Then(H, Q)
    BY <2>1, <2>3 DEF Streaming
  <2>5. F \in Seq(RtspBytes) /\ H \in Seq(RtspBytes) /\ Q \in Seq(RtspBytes) /\ Waiting' \in Seq(RtspBytes)
    <3>1. H \in Seq(RtspBytes)
      BY HeaderIs DEF HeaderFirst
    <3>2. Q \in Seq(RtspBytes)
      BY <1>1, WindowHas
    <3>3. Waiting' \in Seq(RtspBytes)
      <4>1. session'.source \in Seq(RtspBytes)
        BY <1>1, SessionIs
      <4>2. <<>> \in Seq(RtspBytes)
        OBVIOUS
      <4> QED
        BY <4>1, <4>2 DEF Waiting
    <3> QED
      BY <1>3, <3>1, <3>2, <3>3
  <2>6. P' = P
    BY <2>3
  <2> HIDE DEF P, F, H, Q
  <2>7. Then(F, Then(data', Waiting')) = Then(H, P[server'.next - 1])
    <3>1. Then(F, Then(data', Waiting')) = Then(Then(F, data'), Waiting')
      BY <1>1, <2>5, ThenIs
    <3>2. Then(F, data') = Then(H, Q)
      BY <1>1, <2>4
    <3>3. Then(Then(H, Q), Waiting') = Then(H, Then(Q, Waiting'))
      BY <2>5, ThenIs
    <3> QED
      BY <2>2, <3>1, <3>2, <3>3
  <2>8. Then(files[ThreadId], Then(Copied, Waiting))'
           = Then(HeaderFirst, Rtsp!PacketsUpTo(server.stream, InItsWindow)[server.next - 1])'
    BY <1>1, <2>3, <2>7 DEF P, F, H
  <2>9. ThreadId' # 0 /\ ~flagx' => files'[ThreadId'] = <<>>
    BY <1>1, <2>1 DEF Streaming
  <2>10. session'.skipped => stage' = "read" /\ Len(data') + Len(session'.source) < RTSP_BUF_SIZE
    BY <1>2, <2>2
  <2>11. server'.link = "ended" \/ stage' = "write" => NoneToCome'
    BY <2>2, <2>3 DEF NoneToCome
  <2> QED
    BY <1>2, <2>8, <2>9, <2>10, <2>11 DEF Streaming
<1>10. InAttempt'
  <2>1. /\ windows'[ThreadId'].from = session'.pstart /\ windows'[ThreadId'].to = session'.pstend
        /\ files'[ThreadId'] \in Seq(RtspBytes) /\ server'.next <= Len(server'.stream) + 1
    BY <1>1, <1>3, <1>4
  <2>2. Rtsp!Plain' /\ windows'[ThreadId'].whole => Streaming'
    BY <1>1, <1>9
  <2> QED
    BY <2>1, <2>2 DEF InAttempt
<1> QED
  BY <1>5, <1>6, <1>7, <1>8, <1>10 DEF RtspInd

\* While packets are skipped, nothing but the header has been copied.
LEMMA SkippedBefore ==
  ASSUME RtspInd, NEW bytes \in Seq(RtspBytes), NEW n \in 1 .. Len(server.stream), n = server.next,
         Rtsp!Chunk(bytes, server.stream[n].ts), Len(bytes) <= server.stream[n].size,
         Rtsp!Plain, Streaming, server.stream[n].ts < session.pstart
  PROVE  Len(data') + Len(bytes) < RTSP_BUF_SIZE
<1> DEFINE P == Rtsp!PacketsUpTo(server.stream, InItsWindow)
<1>1. stage = "read"
  BY DEF Rtsp!Chunk
<1>2. /\ server.stream \in Streams /\ Len(server.stream) \in Nat /\ files[ThreadId] \in Seq(RtspBytes)
      /\ session.pstart \in Int /\ DOMAIN server.stream = 1 .. Len(server.stream)
      /\ \A k \in 1 .. Len(server.stream) : server.stream[k].ts \in Nat /\ server.stream[k].size \in Nat \ {0}
  BY <1>1, AttemptIs
<1>3. server.stream[n].ts \in Nat
  BY <1>2
<1>4. data' = Then(data, Waiting) /\ data' \in Seq(RtspBytes) /\ Len(data') \in Nat
  BY <1>3, ChunkIs
<1>5. \A m \in 0 + 1 .. n - 1 : m \notin InItsWindow
  <2> SUFFICES ASSUME NEW m \in 1 .. n - 1, m \in InItsWindow PROVE FALSE
    OBVIOUS
  <2>1. m \in 1 .. Len(server.stream) /\ m <= n
    BY <1>2
  <2>2. server.stream[m].ts <= server.stream[n].ts
    BY <1>2, <2>1 DEF Rtsp!Plain
  <2>3. session.pstart <= server.stream[m].ts
    BY <1>1, <2>1, WindowHas DEF Rtsp!InWindow
  <2>4. server.stream[m].ts \in Nat
    BY <1>2, <2>1
  <2>5. session.pstart \in Int
    BY <1>2
  <2> QED
    BY ONLY <1>3, <2>2, <2>3, <2>4, <2>5, server.stream[n].ts < session.pstart
<1>6. P[n - 1] = <<>>
  <2>1. 0 \in 0 .. Len(server.stream) /\ n - 1 \in 0 .. Len(server.stream)
    BY <1>2
  <2>2. P[0] = <<>>
    BY <1>2, PacketsUpToAre
  <2>3. P[n - 1] = P[0]
    <3>1. server.stream \in Streams
      BY <1>2
    <3> QED
      BY ONLY <1>5, <2>1, <3>1, NoPackets
  <2> QED
    BY <2>2, <2>3
<1>7. Then(files[ThreadId], data') = Then(HeaderFirst, <<>>)
  BY <1>1, <1>4, <1>6 DEF Streaming, Copied
<1>8. HeaderFirst \in Seq(RtspBytes) /\ Len(HeaderFirst) <= HeaderLen /\ Len(HeaderFirst) \in Nat /\ HeaderLen \in Nat
  <2>1. <<>> \in Seq(RtspBytes) /\ Len(<<>>) = 0 /\ HeaderLen \in Nat
    BY MmsAssumption
  <2> QED
    BY <2>1, HeaderIs DEF HeaderFirst
<1>9. Len(files[ThreadId]) + Len(data') = Len(HeaderFirst)
  <2>1. Then(HeaderFirst, <<>>) = HeaderFirst
    BY <1>8, ThenIs
  <2>2. Len(Then(files[ThreadId], data')) = Len(files[ThreadId]) + Len(data')
    BY <1>2, <1>4, ThenIs
  <2> QED
    BY <1>7, <2>1, <2>2
<1>10. server.stream[n].size < RTSP_BUF_SIZE - HeaderLen
  BY <1>2 DEF Rtsp!Plain
<1>11. Len(files[ThreadId]) \in Nat /\ Len(bytes) \in Nat /\ server.stream[n].size \in Nat /\ RTSP_BUF_SIZE \in Nat
  <2>1. server.stream[n].size \in Nat
    BY <1>2
  <2>2. RTSP_BUF_SIZE \in Nat
    BY RtspAssumption
  <2>3. files[ThreadId] \in Seq(RtspBytes) /\ bytes \in Seq(RtspBytes)
    BY <1>2
  <2>4. Len(files[ThreadId]) \in Nat /\ Len(bytes) \in Nat
    BY <2>3, LenProperties
  <2> QED
    BY <2>1, <2>2, <2>4
<1>12. Len(bytes) <= server.stream[n].size /\ Len(data') \in Nat
  BY <1>4
<1> QED
  <2> DEFINE f == Len(files[ThreadId])
             d == Len(data')
             h == Len(HeaderFirst)
             b == Len(bytes)
             z == server.stream[n].size
  <2>1. f \in Nat /\ d \in Nat /\ h \in Nat /\ b \in Nat /\ z \in Nat /\ HeaderLen \in Nat /\ RTSP_BUF_SIZE \in Nat
    BY <1>8, <1>11, <1>12
  <2>2. f + d = h /\ h <= HeaderLen /\ z < RTSP_BUF_SIZE - HeaderLen /\ b <= z
    BY <1>8, <1>9, <1>10, <1>12
  <2>3. d + b < RTSP_BUF_SIZE
    <3> HIDE DEF f, d, h, b, z
    <3> QED
      BY ONLY <2>1, <2>2
  <2> QED
    BY <2>3

\* A packet.
LEMMA RdtChunkMoves ==
  ASSUME RtspInd, Rtsp!RdtChunk
  PROVE  RtspInd'
<1> DEFINE n == server.next
           bytes == Rtsp!PacketBytes(n)
           ts == server.stream[n].ts
           P == Rtsp!PacketsUpTo(server.stream, InItsWindow)
<1>1. /\ server.link = "up" /\ n <= Len(server.stream) /\ Rtsp!Chunk(bytes, ts)
      /\ server' = [server EXCEPT !.next = @ + 1] /\ windows' = windows
  BY DEF Rtsp!RdtChunk
<1>2. stage = "read"
  BY <1>1 DEF Rtsp!Chunk
<1>3. /\ server \in RtspServers /\ server.stream \in Streams /\ Len(server.stream) \in Nat /\ n \in Nat \ {0}
      /\ session.pstart \in Int /\ session.pstend \in Int
      /\ DOMAIN server.stream = 1 .. Len(server.stream)
      /\ \A k \in 1 .. Len(server.stream) : server.stream[k].ts \in Nat /\ server.stream[k].size \in Nat \ {0}
  BY <1>2, AttemptIs
<1>4. n \in 1 .. Len(server.stream) /\ ts \in Nat /\ server.stream[n].size \in Nat \ {0} /\ n + 1 \in Nat \ {0}
  BY <1>1, <1>3
<1>5. bytes = Rtsp!BytesOf(n, server.stream[n].size) /\ bytes \in Seq(RtspBytes) /\ Len(bytes) = server.stream[n].size
  <2>1. n \in Nat /\ server.stream[n].size \in Nat
    BY <1>4
  <2>2. bytes = Rtsp!BytesOf(n, server.stream[n].size)
    BY DEF Rtsp!PacketBytes
  <2> HIDE DEF bytes, n
  <2> QED
    BY <2>1, <2>2, BytesAre
<1>6. /\ server' \in RtspServers /\ server'.kind = server.kind /\ server'.stream = server.stream
      /\ server'.next = n + 1 /\ server'.link = "up"
  <2>1. server' = [server EXCEPT !.next = n + 1]
    BY <1>1
  <2> HIDE DEF n
  <2> QED
    BY <1>1, <1>3, <1>4, <2>1 DEF RtspServers
<1>7. ASSUME Rtsp!Plain, Streaming
      PROVE  /\ Then(P[n - 1], Waiting') = P[n]
             /\ session'.skipped => Len(data') + Len(session'.source) < RTSP_BUF_SIZE
             /\ stage' = "write" => \A m \in InItsWindow : m < n + 1
  <2>1. /\ P[n] = IF n \in InItsWindow THEN Then(P[n - 1], bytes) ELSE P[n - 1]
        /\ P[n - 1] \in Seq(RtspBytes)
    <3> DEFINE s == server.stream
    <3>1. n - 1 \in 0 .. Len(s) /\ n \in 1 .. Len(s) /\ s \in Streams /\ bytes = Rtsp!BytesOf(n, s[n].size)
      BY <1>3, <1>4, <1>5
    <3> HIDE DEF s, n, bytes
    <3>2. P = Rtsp!PacketsUpTo(s, InItsWindow)
      BY DEF s
    <3> HIDE DEF P
    <3>3. /\ P \in [0 .. Len(s) -> Seq(RtspBytes)]
          /\ \A k \in 1 .. Len(s) : P[k] = IF k \in InItsWindow THEN Then(P[k - 1], Rtsp!BytesOf(k, s[k].size)) ELSE P[k - 1]
      BY <3>1, <3>2, PacketsUpToAre
    <3>4. P[n - 1] \in Seq(RtspBytes)
      BY <3>1, <3>3
    <3> QED
      BY <3>1, <3>3, <3>4
  <2>2. n \in InItsWindow <=> session.pstart <= ts /\ ~Rtsp!BeyondWindow(ts)
    <3>1. n \in InItsWindow <=> Rtsp!InWindow(ts, session.pstart, session.pstend)
      BY <1>2, <1>4, WindowHas
    <3>2. Rtsp!InWindow(ts, session.pstart, session.pstend) <=> session.pstart <= ts /\ ~Rtsp!BeyondWindow(ts)
      <4>1. ts \in Nat /\ session.pstart \in Int /\ session.pstend \in Int
        BY <1>3, <1>4
      <4> HIDE DEF ts
      <4> QED
        BY ONLY <4>1 DEF Rtsp!InWindow, Rtsp!BeyondWindow, Rtsp!None
    <3> QED
      BY <3>1, <3>2
  <2>3. bytes # <<>>
    BY <1>4, <1>5
  <2>4. Then(P[n - 1], <<>>) = P[n - 1]
    BY <2>1, ThenIs
  <2>5. CASE ts < session.pstart /\ stage' = "read" /\ session'.source = bytes /\ session'.skipped
    <3>1. n \notin InItsWindow
      BY <1>3, <1>4, <2>2, <2>5
    <3>2. Waiting' = <<>>
      BY <2>5 DEF Waiting
    <3>3. Len(data') + Len(bytes) < RTSP_BUF_SIZE
      <4>1. Len(bytes) <= server.stream[n].size
        BY <1>4, <1>5
      <4> HIDE DEF bytes
      <4> QED
        BY <1>1, <1>4, <1>5, <1>7, <2>5, <4>1, SkippedBefore
    <3> QED
      BY <2>1, <2>4, <2>5, <3>1, <3>2, <3>3
  <2>6. CASE /\ ts >= session.pstart /\ Rtsp!BeyondWindow(ts)
             /\ stage' = "write" /\ session'.source = <<>> /\ ~session'.skipped
    <3>1. n \notin InItsWindow
      BY <2>2, <2>6
    <3>2. Waiting' = <<>>
      BY <2>6 DEF Waiting
    <3>3. \A m \in InItsWindow : m < n + 1
      <4> SUFFICES ASSUME NEW m \in InItsWindow, ~(m < n + 1) PROVE FALSE
        OBVIOUS
      <4>1. m \in 1 .. Len(server.stream) /\ Rtsp!InWindow(server.stream[m].ts, session.pstart, session.pstend)
        BY <1>2, WindowHas
      <4>2. n <= m
        BY <1>4, <4>1
      <4>3. ts <= server.stream[m].ts
        BY <1>3, <1>4, <1>7, <4>1, <4>2 DEF Rtsp!Plain
      <4>4. session.pstend # -1 /\ ts >= session.pstend
        BY <2>6 DEF Rtsp!BeyondWindow, Rtsp!None
      <4>5. server.stream[m].ts < session.pstend
        BY <4>1, <4>4 DEF Rtsp!InWindow, Rtsp!None
      <4>6. server.stream[m].ts \in Nat /\ ts \in Nat /\ session.pstend \in Int
        BY <1>3, <1>4, <4>1
      <4> HIDE DEF ts
      <4> QED
        BY ONLY <4>3, <4>4, <4>5, <4>6
    <3> QED
      BY <2>1, <2>4, <2>6, <3>1, <3>2, <3>3
  <2>7. CASE /\ ts >= session.pstart /\ ~Rtsp!BeyondWindow(ts)
             /\ stage' = "read" /\ session'.source = bytes /\ ~session'.skipped
    <3>1. n \in InItsWindow
      BY <1>3, <1>4, <2>2, <2>7
    <3>2. Waiting' = bytes
      BY <2>7 DEF Waiting
    <3> QED
      BY <2>1, <2>7, <3>1, <3>2
  <2> HIDE DEF bytes, ts
  <2>8. \/ ts < session.pstart /\ stage' = "read" /\ session'.source = bytes /\ session'.skipped
        \/ /\ ts >= session.pstart /\ (Rtsp!BeyondWindow(ts) \/ bytes = <<>>)
           /\ stage' = "write" /\ session'.source = <<>> /\ ~session'.skipped
        \/ /\ ts >= session.pstart /\ ~Rtsp!BeyondWindow(ts) /\ bytes # <<>>
           /\ stage' = "read" /\ session'.source = bytes /\ ~session'.skipped
    BY <1>1, <1>4, <1>5, ChunkIs
  <2> QED
    BY <2>3, <2>5, <2>6, <2>7, <2>8
<1>8. server'.next - 1 = n /\ server'.next <= Len(server.stream) + 1 /\ ~(server'.link = "ended")
  BY <1>1, <1>3, <1>4, <1>6
<1> HIDE DEF bytes, ts
<1> QED
  BY <1>1, <1>4, <1>5, <1>6, <1>7, <1>8, ChunkKeeps DEF n

\* Nothing more comes, and there is nothing more in the window.
LEMMA NothingMore ==
  ASSUME RtspInd, stage = "read",
         Rtsp!Unsent => windows' = Rtsp!Torn, windows' = windows, windows[ThreadId].whole,
         server'.next = server.next
  PROVE  /\ \A m \in server.next .. Len(server.stream) : m \notin InItsWindow
         /\ \A m \in InItsWindow : m < server'.next
<1>1. /\ ThreadId \in Rtsp!Threads /\ windows \in [Rtsp!Threads -> RtspWindows]
      /\ server.next \in Nat \ {0} /\ Len(server.stream) \in Nat
  BY AttemptIs
<1>2. ~Rtsp!Unsent
  <2> SUFFICES ASSUME Rtsp!Unsent PROVE FALSE
    OBVIOUS
  <2>1. windows' = Rtsp!Torn
    OBVIOUS
  <2>2. ~windows'[ThreadId].whole
    BY <1>1, <2>1, TornIs
  <2> QED
    BY <2>2
<1>3. \A m \in server.next .. Len(server.stream) :
         ~Rtsp!InWindow(server.stream[m].ts, session.pstart, session.pstend)
  BY <1>2 DEF Rtsp!Unsent
<1>4. \A m \in server.next .. Len(server.stream) : m \notin InItsWindow
  <2> SUFFICES ASSUME NEW m \in server.next .. Len(server.stream), m \in InItsWindow PROVE FALSE
    OBVIOUS
  <2>1. m \in 1 .. Len(server.stream)
    BY <1>1
  <2> QED
    BY <1>3, <2>1, WindowHas
<1>5. \A m \in InItsWindow : m < server'.next
  <2> SUFFICES ASSUME NEW m \in InItsWindow, ~(m < server.next) PROVE FALSE
    OBVIOUS
  <2>1. m \in 1 .. Len(server.stream)
    BY WindowHas
  <2>2. m \in server.next .. Len(server.stream)
    BY <1>1, <2>1
  <2> QED
    BY <1>4, <2>2
<1> QED
  BY <1>4, <1>5

\* The end of the stream or of the connection, told or met.
LEMMA EndMoves ==
  ASSUME RtspInd, Rtsp!EndOfStream \/ Rtsp!NoChunk
  PROVE  RtspInd'
<1> DEFINE P == Rtsp!PacketsUpTo(server.stream, InItsWindow)
           ts == session.timestamp
<1>1. Rtsp!Chunk(<<>>, ts)
  BY DEF Rtsp!EndOfStream, Rtsp!NoChunk
<1>2. stage = "read"
  BY <1>1 DEF Rtsp!Chunk
<1>3. /\ server \in RtspServers /\ server.stream \in Streams /\ ThreadId \in Rtsp!Threads
      /\ session \in RtspSessions /\ server.next <= Len(server.stream) + 1
      /\ windows \in [Rtsp!Threads -> RtspWindows] /\ Len(server.stream) \in Nat /\ RTSP_BUF_SIZE \in Nat
  BY <1>2, AttemptIs
<1>4. ts \in Nat /\ <<>> \in Seq(RtspBytes) /\ Len(<<>>) = 0
  BY <1>3, SessionIs
<1>5. /\ server' \in RtspServers /\ server'.kind = server.kind /\ server'.stream = server.stream
      /\ server'.next = server.next
  <2>1. server' = [server EXCEPT !.link = "ended"] \/ server' = server
    BY DEF Rtsp!EndOfStream, Rtsp!NoChunk
  <2> QED
    BY <1>3, <2>1 DEF RtspServers
<1>6. windows' = windows \/ windows' = Rtsp!Torn
  BY DEF Rtsp!EndOfStream, Rtsp!NoChunk
<1>7. ASSUME Rtsp!Plain, Streaming, windows' = windows, windows[ThreadId].whole
      PROVE  \A m \in InItsWindow : m < server'.next
  <2>1. CASE Rtsp!EndOfStream
    <3>1. Rtsp!Unsent => windows' = Rtsp!Torn
      BY <2>1 DEF Rtsp!EndOfStream
    <3> QED
      BY <1>2, <1>5, <1>7, <3>1, NothingMore
  <2>2. CASE Rtsp!NoChunk
    <3>1. server.link = "ended"
      BY <2>2 DEF Rtsp!NoChunk
    <3> QED
      BY <1>5, <1>7, <3>1 DEF Streaming, NoneToCome
  <2> QED
    BY <2>1, <2>2
<1>8. ASSUME Rtsp!Plain, Streaming, windows' = windows, windows[ThreadId].whole
      PROVE  /\ Then(P[server.next - 1], Waiting') = P[server'.next - 1]
             /\ session'.skipped => Len(data') + Len(session'.source) < RTSP_BUF_SIZE
             /\ server'.link = "ended" \/ stage' = "write" => \A m \in InItsWindow : m < server'.next
  <2>1. session'.source = <<>> /\ Len(data') < RTSP_BUF_SIZE /\ Len(data') \in Nat
    BY <1>1, <1>4, ChunkIs
  <2>2. Waiting' = <<>>
    BY <2>1 DEF Waiting
  <2>3. Then(P[server.next - 1], <<>>) = P[server.next - 1]
    BY <1>2, WindowHas, ThenIs
  <2>4. Len(data') + Len(session'.source) < RTSP_BUF_SIZE
    BY <1>4, <2>1
  <2> QED
    BY <1>5, <1>7, <1>8, <2>2, <2>3, <2>4
<1>9. server'.next <= Len(server.stream) + 1
  BY <1>3, <1>5
<1> HIDE DEF ts
<1> QED
  BY <1>1, <1>4, <1>5, <1>6, <1>8, <1>9, ChunkKeeps

\* The connection is lost in a packet.
LEMMA TornChunkMoves ==
  ASSUME RtspInd, Rtsp!TornChunk
  PROVE  RtspInd'
<1> DEFINE n == server.next
           bytes == SubSeq(Rtsp!PacketBytes(n), 1, 1)
           ts == server.stream[n].ts
           P == Rtsp!PacketsUpTo(server.stream, InItsWindow)
<1>1. /\ n <= Len(server.stream) /\ Rtsp!Chunk(bytes, ts)
      /\ server' = [server EXCEPT !.link = "ended"]
      /\ windows' = windows \/ windows' = Rtsp!Torn
      /\ Rtsp!Unsent => windows' = Rtsp!Torn
  BY DEF Rtsp!TornChunk
<1>2. stage = "read"
  BY <1>1 DEF Rtsp!Chunk
<1>3. /\ server \in RtspServers /\ server.stream \in Streams /\ Len(server.stream) \in Nat /\ n \in Nat \ {0}
      /\ session.pstart \in Int /\ session.pstend \in Int /\ RTSP_BUF_SIZE \in Nat
      /\ DOMAIN server.stream = 1 .. Len(server.stream)
      /\ \A k \in 1 .. Len(server.stream) : server.stream[k].ts \in Nat /\ server.stream[k].size \in Nat \ {0}
  BY <1>2, AttemptIs
<1>4. n \in 1 .. Len(server.stream) /\ ts \in Nat /\ server.stream[n].size \in Nat \ {0}
  BY <1>1, <1>3
<1>5. bytes \in Seq(RtspBytes) /\ Len(bytes) = 1 /\ Len(bytes) <= server.stream[n].size
  <2> DEFINE p == Rtsp!PacketBytes(n)
  <2>1. n \in Nat /\ server.stream[n].size \in Nat
    BY <1>4
  <2>2. p = Rtsp!BytesOf(n, server.stream[n].size)
    BY DEF Rtsp!PacketBytes
  <2>3. p \in Seq(RtspBytes) /\ Len(p) = server.stream[n].size
    <3> HIDE DEF p, n
    <3> QED
      BY <2>1, <2>2, BytesAre
  <2>4. 1 <= Len(p)
    BY <1>4, <2>3
  <2> HIDE DEF p
  <2>5. SubSeq(p, 1, 1) \in Seq(RtspBytes) /\ Len(SubSeq(p, 1, 1)) = 1
    <3>1. 1 \in 0 .. Len(p)
      BY <2>3, <2>4
    <3> QED
      BY <2>3, <3>1, Parted
  <2> QED
    BY <2>3, <2>4, <2>5 DEF p
<1>6. /\ server' \in RtspServers /\ server'.kind = server.kind /\ server'.stream = server.stream
      /\ server'.next = n
  BY <1>1, <1>3 DEF RtspServers
<1>7. ASSUME Rtsp!Plain, Streaming, windows' = windows, windows[ThreadId].whole
      PROVE  /\ Then(P[n - 1], Waiting') = P[n - 1]
             /\ session'.skipped => Len(data') + Len(session'.source) < RTSP_BUF_SIZE
             /\ \A m \in InItsWindow : m < server'.next
  <2>1. /\ \A m \in n .. Len(server.stream) : m \notin InItsWindow
        /\ \A m \in InItsWindow : m < server'.next
    BY <1>1, <1>2, <1>6, <1>7, NothingMore
  <2>2. ~(session.pstart <= ts /\ ~Rtsp!BeyondWindow(ts))
    <3>1. n \notin InItsWindow
      BY <1>4, <2>1
    <3>2. ~Rtsp!InWindow(ts, session.pstart, session.pstend)
      BY <1>2, <1>4, <3>1, WindowHas
    <3> QED
      BY <1>3, <1>4, <3>2 DEF Rtsp!InWindow, Rtsp!BeyondWindow, Rtsp!None
  <2>3. Then(P[n - 1], <<>>) = P[n - 1]
    BY <1>2, WindowHas, ThenIs
  <2>4. CASE ts < session.pstart /\ stage' = "read" /\ session'.source = bytes /\ session'.skipped
    <3>1. Waiting' = <<>>
      BY <2>4 DEF Waiting
    <3>2. Len(data') + Len(bytes) < RTSP_BUF_SIZE
      <4> HIDE DEF bytes
      <4> QED
        BY <1>1, <1>4, <1>5, <1>7, <2>4, SkippedBefore
    <3> QED
      BY <2>1, <2>3, <2>4, <3>1, <3>2
  <2>5. CASE stage' = "write" /\ session'.source = <<>> /\ ~session'.skipped
    <3>1. Waiting' = <<>>
      BY <2>5 DEF Waiting
    <3> QED
      BY <2>1, <2>3, <2>5, <3>1
  <2>6. (ts >= session.pstart) <=> (session.pstart <= ts)
    BY <1>3, <1>4
  <2> HIDE DEF bytes, ts
  <2>7. \/ ts < session.pstart /\ stage' = "read" /\ session'.source = bytes /\ session'.skipped
        \/ stage' = "write" /\ session'.source = <<>> /\ ~session'.skipped
        \/ ts >= session.pstart /\ ~Rtsp!BeyondWindow(ts)
    BY <1>1, <1>4, <1>5, ChunkIs
  <2> QED
    BY <2>2, <2>4, <2>5, <2>6, <2>7
<1>8. server'.next <= Len(server.stream) + 1
  BY <1>1, <1>3, <1>6
<1> HIDE DEF bytes, ts
<1> QED
  BY <1>1, <1>4, <1>5, <1>6, <1>7, <1>8, ChunkKeeps

\* The buffer is full.
LEMMA ReadFullMoves ==
  ASSUME RtspInd, Rtsp!ReadFull
  PROVE  RtspInd'
<1> DEFINE src == session.source
           c == RTSP_BUF_SIZE - Len(data)
           a == SubSeq(src, 1, c)
           b == SubSeq(src, c + 1, Len(src))
<1>1. /\ stage = "read" /\ ThreadId' = ThreadId /\ RemoteStartPos' = RemoteStartPos /\ Status' = Status
      /\ RemoteBytesReceived' = RemoteBytesReceived /\ TryAttempts' = TryAttempts /\ flagx' = flagx
      /\ msock' = msock /\ Ref' = Ref /\ server' = server
      /\ files' = files /\ windows' = windows /\ joined' = joined
  BY DEF Rtsp!ReadFull, Rtsp!Quiet, Rtsp!connecting, Rtsp!thread
<1>2. /\ stage' = "write" /\ c <= Len(src) /\ data' = Then(data, a)
      /\ session' = [source |-> IF session.skipped THEN <<>> ELSE b, skipped |-> FALSE,
                     pstart |-> session.pstart, pstend |-> session.pstend, timestamp |-> session.timestamp]
  BY DEF Rtsp!ReadFull, Rtsp!Copy, Rtsp!Unread, Then
<1>3. /\ ThreadId \in Rtsp!Threads /\ ThreadId # -1 /\ TryAttempts < MAX_TRY_ATTEMPTS /\ joined = <<>>
      /\ data \in Seq(RtspBytes) /\ Len(data) \in Nat /\ Len(data) <= RTSP_BUF_SIZE /\ RTSP_BUF_SIZE \in Nat \ {0}
      /\ session \in RtspSessions /\ src \in Seq(RtspBytes) /\ Len(src) \in Nat
      /\ session.pstart \in Int /\ session.pstend \in Int
      /\ windows[ThreadId].from = session.pstart /\ windows[ThreadId].to = session.pstend
      /\ files[ThreadId] \in Seq(RtspBytes) /\ server.next <= Len(server.stream) + 1
      /\ Rtsp!Plain /\ windows[ThreadId].whole => Streaming
  BY <1>1, AttemptIs DEF Rtsp!Threads
<1>4. c \in 0 .. Len(src)
  BY <1>2, <1>3
<1> HIDE DEF c
<1>5. /\ a \in Seq(RtspBytes) /\ b \in Seq(RtspBytes) /\ Len(a) = c /\ Then(a, b) = src
  <2> HIDE DEF src
  <2> QED
    BY <1>3, <1>4, Parted
<1> HIDE DEF a, b
<1>6. data' \in Seq(RtspBytes) /\ Len(data') = RTSP_BUF_SIZE
  <2>1. data' \in Seq(RtspBytes) /\ Len(data') = Len(data) + c
    BY <1>2, <1>3, <1>5, ThenIs
  <2> QED
    BY <1>3, <2>1 DEF c
<1>7. /\ session' \in RtspSessions /\ session'.pstart = session.pstart /\ session'.pstend = session.pstend
      /\ ~session'.skipped /\ (~session.skipped => session'.source = b)
  <2> DEFINE d == IF session.skipped THEN <<>> ELSE b
  <2>1. d \in Seq(RtspBytes) /\ (~session.skipped => d = b)
    BY <1>5
  <2>2. session' = [source |-> d, skipped |-> FALSE,
                    pstart |-> session.pstart, pstend |-> session.pstend, timestamp |-> session.timestamp]
    BY <1>2
  <2>3. session.timestamp \in Nat
    BY <1>3, SessionIs
  <2> HIDE DEF d
  <2> QED
    BY <1>3, <2>1, <2>2, <2>3 DEF RtspSessions
<1>8. RtspTypes'
  <2>1. Len(data') <= RTSP_BUF_SIZE
    BY <1>3, <1>6
  <2>2. stage' \in RtspStages
    BY <1>2 DEF RtspStages
  <2> QED
    BY <1>1, <1>6, <1>7, <2>1, <2>2 DEF RtspInd, RtspTypes
<1>9. RtspCourse'
  BY <1>1, <1>2, <1>3 DEF RtspCourse
<1>10. RtspOpens' /\ BetweenAttempts'
  BY <1>2 DEF RtspOpens, BetweenAttempts
<1>11. Stored'
  <2>1. \A k \in Rtsp!Threads : Settled(k)' => Settled(k)
    BY <1>1, <1>2 DEF Settled
  <2> QED
    BY <1>1, <2>1, StoredStays DEF RtspInd
<1>12. ASSUME Streaming PROVE Streaming'
  <2>1. ~session.skipped
    <3> SUFFICES ASSUME session.skipped PROVE FALSE
      OBVIOUS
    <3>1. Len(data) + Len(src) < RTSP_BUF_SIZE
      BY <1>12 DEF Streaming
    <3> QED
      BY <1>2, <1>3, <3>1 DEF c
  <2>2. Copied = data /\ Copied' = data' /\ Waiting = src /\ Waiting' = b
    BY <1>1, <1>2, <1>7, <2>1 DEF Copied, Waiting
  <2>3. HeaderFirst' = HeaderFirst /\ InItsWindow' = InItsWindow
    BY <1>1 DEF HeaderFirst, InItsWindow
  <2>4. Then(data', b) = Then(data, src)
    <3>1. data \in Seq(RtspBytes) /\ a \in Seq(RtspBytes) /\ b \in Seq(RtspBytes)
      BY <1>3, <1>5
    <3>2. Then(Then(data, a), b) = Then(data, Then(a, b))
      BY ONLY <3>1, ThenIs
    <3> QED
      BY <1>2, <1>5, <3>2
  <2>5. NoneToCome' <=> NoneToCome
    BY <1>1, <2>3 DEF NoneToCome
  <2> HIDE DEF src
  <2> QED
    BY <1>1, <1>2, <1>6, <1>7, <1>12, <2>2, <2>3, <2>4, <2>5 DEF Streaming
<1>13. InAttempt'
  <2>1. Rtsp!Plain' <=> Rtsp!Plain
    BY <1>1, PlainStays
  <2> QED
    BY <1>1, <1>3, <1>7, <1>12, <2>1 DEF InAttempt
<1> QED
  BY <1>8, <1>9, <1>10, <1>11, <1>13 DEF RtspInd

\* What was read is written, the header only by the first pthread.
LEMMA WriteMoves ==
  ASSUME RtspInd, Rtsp!Write
  PROVE  RtspInd'
<1> DEFINE cut == Rtsp!HeaderToCut
           F == files[ThreadId]
           rest == SubSeq(data, cut + 1, Len(data))
<1>1. /\ stage = "write" /\ ThreadId' = ThreadId /\ flagx' = TRUE
      /\ msock' = msock /\ Ref' = Ref /\ session' = session /\ data' = data /\ server' = server /\ joined' = joined
  BY DEF Rtsp!Write, Rtsp!connecting
<1>2. /\ ThreadId \in Rtsp!Threads /\ ThreadId # -1 /\ TryAttempts < MAX_TRY_ATTEMPTS
      /\ TryAttempts \in 0 .. MAX_TRY_ATTEMPTS /\ joined = <<>>
      /\ data \in Seq(RtspBytes) /\ Len(data) \in Nat
      /\ session \in RtspSessions /\ session.source \in Seq(RtspBytes)
      /\ windows[ThreadId].from = session.pstart /\ windows[ThreadId].to = session.pstend
      /\ F \in Seq(RtspBytes) /\ server.next <= Len(server.stream) + 1
      /\ windows \in [Rtsp!Threads -> RtspWindows]
      /\ Rtsp!Plain /\ windows[ThreadId].whole => Streaming
  BY <1>1, AttemptIs DEF Rtsp!Threads
<1>3. /\ files \in [Rtsp!Threads -> RtspFiles] /\ RemoteStartPos \in Int /\ RemoteBytesReceived \in Nat
      /\ Status \in {"IDLE", "CONNECTING", "DOWNLOADING", "ALLDONE", "MAXTRYS", "LOCALFATAL", "REMOTEFATAL"}
      /\ flagx \in BOOLEAN /\ RtspTypes
  BY DEF RtspInd, RtspTypes
<1>4. cut \in Nat /\ cut = IF ~flagx /\ ThreadId # 0 THEN HeaderLen ELSE 0
  BY MmsAssumption DEF Rtsp!HeaderToCut
<1>5. Rtsp!Plain' <=> Rtsp!Plain
  BY <1>1, PlainStays
<1> HIDE DEF cut
<1>6. ASSUME NEW bytes \in Seq(RtspBytes), Rtsp!Wrote(bytes)
      PROVE  /\ files' \in [Rtsp!Threads -> RtspFiles] /\ files'[ThreadId] = Then(F, bytes) /\ files'[ThreadId] \in Seq(RtspBytes)
             /\ \A k \in Rtsp!Threads : k # ThreadId => files'[k] = files[k]
             /\ RemoteStartPos' \in Int /\ RemoteBytesReceived' \in Nat
  <2>1. files' = [files EXCEPT ![ThreadId] = Then(F, bytes)]
    BY <1>6 DEF Rtsp!Wrote, Then
  <2>2. Then(F, bytes) \in Seq(RtspBytes) /\ Then(F, bytes) \in RtspFiles
    BY <1>2, <1>6, ThenIs DEF RtspFiles
  <2>3. Len(bytes) \in Nat
    OBVIOUS
  <2>4. RemoteStartPos' = RemoteStartPos + Len(bytes) /\ RemoteBytesReceived' = RemoteBytesReceived + Len(bytes)
    BY <1>6 DEF Rtsp!Wrote
  <2> HIDE DEF F
  <2> QED
    BY <1>2, <1>3, <2>1, <2>2, <2>3, <2>4
<1>7. CASE /\ cut <= Len(data) /\ Rtsp!Wrote(rest)
           /\ stage' = "recv" /\ Status' = Status /\ TryAttempts' = TryAttempts /\ windows' = windows
  <2>1. rest \in Seq(RtspBytes) /\ Len(rest) = Len(data) - cut /\ (cut = 0 => rest = data)
    <3>1. cut \in 0 .. Len(data)
      BY <1>2, <1>4, <1>7
    <3>2. rest \in Seq(RtspBytes) /\ Len(rest) = Len(data) - cut /\ Then(SubSeq(data, 1, cut), rest) = data
      BY <1>2, <3>1, Parted
    <3>3. ASSUME cut = 0 PROVE rest = data
      <4>1. SubSeq(data, 1, cut) \in Seq(RtspBytes) /\ Len(SubSeq(data, 1, cut)) = 0
        BY <1>2, <3>1, <3>3, Parted
      <4>2. SubSeq(data, 1, cut) = <<>>
        BY <4>1, EmptySeq
      <4> QED
        BY <3>2, <4>2, ThenIs
    <3> QED
      BY <3>2, <3>3
  <2> HIDE DEF rest
  <2>2. /\ files' \in [Rtsp!Threads -> RtspFiles] /\ files'[ThreadId] = Then(F, rest) /\ files'[ThreadId] \in Seq(RtspBytes)
        /\ \A k \in Rtsp!Threads : k # ThreadId => files'[k] = files[k]
        /\ RemoteStartPos' \in Int /\ RemoteBytesReceived' \in Nat
    BY <1>6, <1>7, <2>1
  <2>3. RtspTypes'
    BY <1>1, <1>3, <1>7, <2>2 DEF RtspTypes, RtspStages
  <2>4. RtspCourse'
    BY <1>1, <1>2, <1>7 DEF RtspCourse
  <2>5. RtspOpens' /\ BetweenAttempts'
    BY <1>7 DEF RtspOpens, BetweenAttempts
  <2>6. ASSUME Streaming PROVE Streaming'
    <3> DEFINE Q == Rtsp!PacketsUpTo(server.stream, InItsWindow)[server.next - 1]
    <3>1. /\ Then(F, Then(data, Waiting)) = Then(HeaderFirst, Q) /\ ~session.skipped
          /\ ThreadId # 0 /\ ~flagx => F = <<>>
          /\ server.link = "ended" => NoneToCome
      BY <1>1, <2>6 DEF Streaming, Copied
    <3>2. InItsWindow' = InItsWindow /\ Waiting' = Waiting /\ Copied' = <<>> /\ Waiting = session.source
          /\ HeaderFirst' = IF ThreadId = 0 THEN Rtsp!HeaderBytes ELSE <<>>
      BY <1>1, <1>7, <3>1 DEF InItsWindow, Waiting, Copied, HeaderFirst
    <3>3. NoneToCome' <=> NoneToCome
      BY <1>1, <3>2 DEF NoneToCome
    <3>4. Waiting \in Seq(RtspBytes) /\ Q \in Seq(RtspBytes) /\ Then(<<>>, Waiting) = Waiting /\ <<>> \in Seq(RtspBytes)
      <4>1. <<>> \in Seq(RtspBytes) /\ Waiting \in Seq(RtspBytes)
        BY <1>2, <3>2
      <4>2. Q \in Seq(RtspBytes)
        BY <1>1, WindowHas
      <4> QED
        BY <4>1, <4>2, ThenIs
    <3> HIDE DEF F, Q
    <3>5. Then(Then(F, rest), Waiting) = Then(HeaderFirst', Q)
      <4>1. CASE cut = 0 /\ (flagx \/ ThreadId = 0)
        <5>1. HeaderFirst' = HeaderFirst
          BY <3>2, <4>1 DEF HeaderFirst
        <5>2. Then(Then(F, data), Waiting) = Then(F, Then(data, Waiting))
          <6>1. F \in Seq(RtspBytes) /\ data \in Seq(RtspBytes) /\ Waiting \in Seq(RtspBytes)
            BY <1>2, <3>4 DEF F
          <6> QED
            BY ONLY <6>1, ThenIs
        <5> QED
          BY <2>1, <3>1, <4>1, <5>1, <5>2
      <4>2. CASE cut = HeaderLen /\ ~flagx /\ ThreadId # 0
        <5>1. HeaderFirst' = <<>> /\ HeaderFirst = Rtsp!HeaderBytes /\ F = <<>>
          BY <3>1, <3>2, <4>2 DEF HeaderFirst
        <5>2. Then(data, Waiting) \in Seq(RtspBytes)
          BY <1>2, <3>4, ThenIs
        <5>3. Then(data, Waiting) = Then(Rtsp!HeaderBytes, Q)
          BY <3>1, <5>1, <5>2, ThenIs
        <5>4. Then(rest, Waiting) = Q
          <6>1. Len(Rtsp!HeaderBytes) = cut /\ Len(Rtsp!HeaderBytes) <= Len(data) /\ Rtsp!HeaderBytes \in Seq(RtspBytes)
            BY <1>7, <4>2, HeaderIs
          <6>2. rest = SubSeq(data, Len(Rtsp!HeaderBytes) + 1, Len(data))
            BY <6>1 DEF rest
          <6> QED
            BY <1>2, <3>4, <5>3, <6>1, <6>2, CutOff
        <5>5. Then(<<>>, rest) = rest /\ Then(<<>>, Q) = Q
          BY <2>1, <3>4, ThenIs
        <5> QED
          BY <5>1, <5>4, <5>5
      <4> QED
        BY <1>3, <1>4, <4>1, <4>2
    <3> QED
      BY <1>1, <1>7, <2>2, <3>1, <3>2, <3>3, <3>4, <3>5 DEF Streaming, Q
  <2>7. InAttempt'
    BY <1>1, <1>2, <1>5, <1>7, <2>2, <2>6 DEF InAttempt
  <2>8. Stored'
    <3>1. \A k \in Rtsp!Threads : Settled(k)' => Settled(k) /\ k # ThreadId
      BY <1>1, <1>2, <1>7 DEF Settled, Rtsp!Threads
    <3> QED
      BY <1>1, <1>7, <2>2, <3>1, StoredElsewhere DEF RtspInd
  <2> QED
    BY <2>3, <2>4, <2>5, <2>7, <2>8 DEF RtspInd
<1>8. CASE /\ stage' = "crashed" /\ files' = files /\ RemoteStartPos' = RemoteStartPos
           /\ RemoteBytesReceived' = RemoteBytesReceived /\ Status' = Status /\ TryAttempts' = TryAttempts /\ windows' = windows
  <2>1. RtspTypes'
    BY <1>1, <1>3, <1>8 DEF RtspTypes, RtspStages
  <2>2. RtspCourse'
    BY <1>1, <1>2, <1>8 DEF RtspCourse
  <2>3. RtspOpens' /\ BetweenAttempts' /\ InAttempt'
    BY <1>8 DEF RtspOpens, BetweenAttempts, InAttempt
  <2>4. Stored'
    <3>1. \A k \in Rtsp!Threads : Settled(k)' => Settled(k)
      BY <1>1, <1>8 DEF Settled
    <3> QED
      BY <1>1, <1>8, <3>1, StoredStays DEF RtspInd
  <2> QED
    BY <2>1, <2>2, <2>3, <2>4 DEF RtspInd
<1>9. CASE /\ Rtsp!Wrote(<<>>) /\ windows' = Rtsp!Torn
           /\ stage' = "recv" /\ Status' = Status /\ TryAttempts' = TryAttempts
  <2>1. /\ files' \in [Rtsp!Threads -> RtspFiles] /\ files'[ThreadId] \in Seq(RtspBytes)
        /\ \A k \in Rtsp!Threads : k # ThreadId => files'[k] = files[k]
        /\ RemoteStartPos' \in Int /\ RemoteBytesReceived' \in Nat
    <3>1. <<>> \in Seq(RtspBytes)
      OBVIOUS
    <3> QED
      BY <1>6, <1>9, <3>1
  <2>2. /\ windows' \in [Rtsp!Threads -> RtspWindows] /\ ~windows'[ThreadId].whole
        /\ windows'[ThreadId].from = windows[ThreadId].from /\ windows'[ThreadId].to = windows[ThreadId].to
        /\ \A k \in Rtsp!Threads : k # ThreadId => windows'[k] = windows[k]
    BY <1>2, <1>9, TornIs
  <2>3. RtspTypes'
    BY <1>1, <1>3, <1>9, <2>1, <2>2 DEF RtspTypes, RtspStages
  <2>4. RtspCourse'
    BY <1>1, <1>2, <1>9 DEF RtspCourse
  <2>5. RtspOpens' /\ BetweenAttempts'
    BY <1>9 DEF RtspOpens, BetweenAttempts
  <2>6. InAttempt'
    BY <1>1, <1>2, <2>1, <2>2 DEF InAttempt
  <2>7. Stored'
    <3>1. \A k \in Rtsp!Threads : Settled(k)' => Settled(k) /\ k # ThreadId
      BY <1>1, <1>2, <1>9 DEF Settled, Rtsp!Threads
    <3> QED
      BY <1>1, <2>1, <2>2, <3>1, StoredElsewhere DEF RtspInd
  <2> QED
    BY <2>3, <2>4, <2>5, <2>6, <2>7 DEF RtspInd
<1>10. CASE /\ Rtsp!Attempted(FALSE) /\ Status' = (IF stage' = "done" THEN "MAXTRYS" ELSE "LOCALFATAL")
            /\ windows' = Rtsp!Torn /\ files' = files /\ RemoteStartPos' = RemoteStartPos
            /\ RemoteBytesReceived' = RemoteBytesReceived
  <2>1. /\ windows' \in [Rtsp!Threads -> RtspWindows] /\ ~windows'[ThreadId].whole
        /\ \A k \in Rtsp!Threads : k # ThreadId => windows'[k] = windows[k]
    BY <1>2, <1>10, TornIs
  <2>2. /\ TryAttempts' \in 0 .. MAX_TRY_ATTEMPTS /\ Status' \in {"MAXTRYS", "LOCALFATAL"}
        /\ stage' = "done" \/ (stage' = "run" /\ TryAttempts' < MAX_TRY_ATTEMPTS)
    <3>1. /\ TryAttempts + 1 \in 0 .. MAX_TRY_ATTEMPTS
          /\ ~(TryAttempts + 1 >= MAX_TRY_ATTEMPTS) => TryAttempts + 1 < MAX_TRY_ATTEMPTS
      BY <1>2, RtspAssumption
    <3> QED
      BY <1>10, <3>1 DEF Rtsp!Attempted, Rtsp!AttemptsAfter
  <2>3. RtspTypes'
    BY <1>1, <1>3, <1>10, <2>1, <2>2 DEF RtspTypes, RtspStages
  <2>4. RtspCourse'
    BY <1>1, <1>2, <2>2 DEF RtspCourse
  <2>5. RtspOpens' /\ InAttempt'
    BY <2>2 DEF RtspOpens, InAttempt
  <2>6. BetweenAttempts'
    BY <1>1, <2>1 DEF BetweenAttempts
  <2>7. Stored'
    <3>1. \A k \in Rtsp!Threads : Settled(k)' => Settled(k) /\ k # ThreadId
      BY <1>1, <1>2, <2>2 DEF Settled, Rtsp!Threads
    <3> QED
      BY <1>1, <1>10, <2>1, <3>1, StoredElsewhere DEF RtspInd
  <2> QED
    BY <2>3, <2>4, <2>5, <2>6, <2>7 DEF RtspInd
<1>11. \/ <1>7!1 \/ <1>8!1 \/ <1>9!1 \/ <1>10!1
  BY DEF Rtsp!Write, cut
<1> HIDE DEF rest
<1> QED
  BY <1>7, <1>8, <1>9, <1>10, <1>11

\* A read without a byte ends the block, and everything of the window is in the file.
LEMMA BlockDoneMoves ==
  ASSUME RtspInd, Rtsp!BlockDone
  PROVE  RtspInd'
<1> DEFINE F == files[ThreadId]
<1>1. /\ stage = "write" /\ data = <<>> /\ Status' = "ALLDONE"
      /\ ThreadId' = ThreadId /\ RemoteStartPos' = RemoteStartPos /\ RemoteBytesReceived' = RemoteBytesReceived
      /\ flagx' = flagx /\ msock' = msock /\ Ref' = Ref /\ session' = session /\ data' = data
      /\ server' = server /\ files' = files /\ windows' = windows /\ joined' = joined
  BY DEF Rtsp!BlockDone, Rtsp!connecting
<1>2. stage' = "done" /\ TryAttempts' = TryAttempts + 1
  BY <1>1 DEF Rtsp!BlockDone, Rtsp!Attempted, Rtsp!AttemptsAfter
<1>3. /\ ThreadId \in Rtsp!Threads /\ ThreadId # -1 /\ TryAttempts < MAX_TRY_ATTEMPTS
      /\ TryAttempts \in 0 .. MAX_TRY_ATTEMPTS /\ joined = <<>> /\ RTSP_BUF_SIZE \in Nat \ {0}
      /\ F \in Seq(RtspBytes) /\ server.stream \in Streams /\ Len(server.stream) \in Nat
      /\ server.next \in Nat \ {0} /\ server.next <= Len(server.stream) + 1
      /\ Rtsp!Plain /\ windows[ThreadId].whole => Streaming
  BY <1>1, AttemptIs DEF Rtsp!Threads
<1>4. RtspTypes'
  <2>1. TryAttempts' \in 0 .. MAX_TRY_ATTEMPTS
    BY <1>2, <1>3, RtspAssumption
  <2> QED
    BY <1>1, <1>2, <2>1 DEF RtspInd, RtspTypes, RtspStages
<1>5. RtspCourse'
  BY <1>1, <1>2, <1>3 DEF RtspCourse
<1>6. RtspOpens' /\ BetweenAttempts' /\ InAttempt'
  BY <1>2 DEF RtspOpens, BetweenAttempts, InAttempt
<1>7. ASSUME Rtsp!Plain, windows[ThreadId].whole
      PROVE  F = Then(IF ThreadId = 0 THEN Rtsp!HeaderBytes ELSE <<>>,
                      Rtsp!PacketsOf(server.stream, Rtsp!PacketsIn(server.stream, windows[ThreadId])))
  <2> DEFINE P == Rtsp!PacketsUpTo(server.stream, InItsWindow)
             Q == P[server.next - 1]
  <2>1. /\ Then(F, Then(<<>>, Waiting)) = Then(HeaderFirst, Q) /\ ~session.skipped
        /\ session.source = <<>> /\ NoneToCome
        /\ ThreadId # 0 /\ ~flagx => F = <<>>
    <3>1. Streaming
      BY <1>3, <1>7
    <3>2. Copied = <<>> /\ Len(data) # RTSP_BUF_SIZE
      BY <1>1, <1>3 DEF Copied
    <3> QED
      BY <1>1, <3>1, <3>2 DEF Streaming
  <2>2. Waiting = <<>>
    BY <2>1 DEF Waiting
  <2>3. Q \in Seq(RtspBytes) /\ server.next - 1 \in 0 .. Len(server.stream)
    BY <1>1, WindowHas
  <2>4. Q = P[Len(server.stream)]
    <3> DEFINE i == server.next - 1
               j == Len(server.stream)
    <3>1. i \in 0 .. Len(server.stream) /\ j \in i .. Len(server.stream) /\ i + 1 = server.next
      BY <1>3, <2>3
    <3>2. \A m \in i + 1 .. j : m \notin InItsWindow
      <4> SUFFICES ASSUME NEW m \in i + 1 .. j, m \in InItsWindow PROVE FALSE
        OBVIOUS
      <4>1. m < server.next
        BY <2>1 DEF NoneToCome
      <4> QED
        BY <1>3, <3>1, <4>1
    <3> HIDE DEF i, j
    <3>3. P[j] = P[i]
      BY <1>3, <3>1, <3>2, NoPackets
    <3> QED
      BY <3>3 DEF i, j
  <2>5. Q = Rtsp!PacketsOf(server.stream, Rtsp!PacketsIn(server.stream, windows[ThreadId]))
    BY <2>4 DEF Rtsp!PacketsOf, InItsWindow
  <2> HIDE DEF Q, P, F
  <2>6. F = Then(HeaderFirst, Q)
    <3>1. <<>> \in Seq(RtspBytes) /\ F \in Seq(RtspBytes)
      BY <1>3
    <3>2. Then(<<>>, <<>>) = <<>> /\ Then(F, <<>>) = F
      BY <3>1, ThenIs
    <3> QED
      BY <2>1, <2>2, <3>2
  <2>7. F = Then(IF ThreadId = 0 THEN Rtsp!HeaderBytes ELSE <<>>, Q)
    <3>1. CASE ThreadId = 0 \/ flagx
      <4>1. HeaderFirst = IF ThreadId = 0 THEN Rtsp!HeaderBytes ELSE <<>>
        BY <3>1 DEF HeaderFirst
      <4> QED
        BY <2>6, <4>1
    <3>2. CASE ThreadId # 0 /\ ~flagx
      <4>1. F = <<>> /\ HeaderFirst = Rtsp!HeaderBytes /\ Then(Rtsp!HeaderBytes, Q) = <<>>
        BY <2>1, <2>6, <3>2 DEF HeaderFirst
      <4>2. Len(Then(Rtsp!HeaderBytes, Q)) = Len(Rtsp!HeaderBytes) + Len(Q)
        BY <2>3, HeaderIs, ThenIs
      <4>3. Len(Rtsp!HeaderBytes) \in Nat /\ Len(Q) \in Nat
        BY <2>3, HeaderIs
      <4>4. Len(Q) = 0
        BY <4>1, <4>2, <4>3
      <4>5. Q = <<>>
        BY <2>3, <4>4, EmptySeq
      <4>6. Then(<<>>, <<>>) = <<>>
        <5>1. <<>> \in Seq(RtspBytes)
          OBVIOUS
        <5> QED
          BY <5>1, ThenIs
      <4> QED
        BY <3>2, <4>1, <4>5, <4>6
    <3> QED
      BY <3>1, <3>2
  <2> QED
    BY <2>5, <2>7 DEF F
<1>8. Stored'
  <2>1. ASSUME NEW k \in Rtsp!Threads, Settled(k)' PROVE Settled(k) \/ Filled(k)
    <3>1. k < ThreadId \/ k = ThreadId
      BY <1>1, <2>1 DEF Settled
    <3>2. CASE k < ThreadId
      BY <3>2 DEF Settled
    <3>3. CASE k = ThreadId
      BY <1>7, <3>3 DEF Filled
    <3> QED
      BY <3>1, <3>2, <3>3
  <2> QED
    BY <1>1, <2>1, StoredStays DEF RtspInd
<1> QED
  BY <1>4, <1>5, <1>6, <1>8 DEF RtspInd

-----------------------------------------------------------------------------
\* The beginning.
LEMMA RtspIndInit == Rtsp!Init => RtspInd
<1> SUFFICES ASSUME Rtsp!Init PROVE RtspInd
  OBVIOUS
<1>1. /\ stage = "connect" /\ ThreadId = -1 /\ Status = "IDLE" /\ RemoteStartPos = 0
      /\ RemoteBytesReceived = 0 /\ TryAttempts = 0 /\ flagx = FALSE /\ msock = 0 /\ Ref = 0
      /\ session = [source |-> <<>>, skipped |-> FALSE, pstart |-> 0, pstend |-> -1, timestamp |-> 0]
      /\ data = <<>> /\ joined = <<>>
      /\ files = [k \in Rtsp!Threads |-> Rtsp!MissingFile]
      /\ windows = [k \in Rtsp!Threads |-> [from |-> 0, to |-> 0, whole |-> TRUE]]
  BY DEF Rtsp!Init, Rtsp!FreshSession, Rtsp!None
<1>2. server \in RtspServers
  <2>1. PICK kd \in RtspKinds, s \in Streams :
           server = [kind |-> kd, stream |-> s, next |-> 1, link |-> "up"]
    BY DEF Rtsp!Init, RtspKinds
  <2> QED
    BY <2>1 DEF RtspServers
<1>3. session \in RtspSessions
  <2>1. <<>> \in Seq(RtspBytes)
    OBVIOUS
  <2> QED
    BY <1>1, <2>1 DEF RtspSessions
<1>4. files \in [Rtsp!Threads -> RtspFiles] /\ windows \in [Rtsp!Threads -> RtspWindows]
  <2>1. Rtsp!MissingFile \in RtspFiles
    BY DEF RtspFiles
  <2>2. [from |-> 0, to |-> 0, whole |-> TRUE] \in RtspWindows
    BY DEF RtspWindows
  <2> QED
    BY <1>1, <2>1, <2>2
<1>5. data \in Seq(RtspBytes) /\ Len(data) <= RTSP_BUF_SIZE
  BY <1>1, RtspAssumption
<1>6. RtspTypes
  <2>1. TryAttempts \in 0 .. MAX_TRY_ATTEMPTS /\ Ref \in 0 .. MAXRETRYCONN + 1
    BY <1>1, RtspAssumption, MmsAssumption
  <2>2. RemoteStartPos \in Int /\ RemoteBytesReceived \in Nat
    BY <1>1
  <2>3. flagx \in BOOLEAN
    BY <1>1
  <2>4. stage \in RtspStages /\ msock \in {-1, 0} /\ ThreadId \in Rtsp!Threads \cup {-1}
        /\ Status \in {"IDLE", "CONNECTING", "DOWNLOADING", "ALLDONE", "MAXTRYS", "LOCALFATAL", "REMOTEFATAL"}
    BY <1>1 DEF RtspStages
  <2> QED
    BY <1>2, <1>3, <1>4, <1>5, <2>1, <2>2, <2>3, <2>4 DEF RtspTypes
<1>7. RtspCourse
  BY <1>1, RtspAssumption DEF RtspCourse
<1>8. RtspOpens /\ BetweenAttempts /\ InAttempt
  BY <1>1 DEF RtspOpens, BetweenAttempts, InAttempt
<1>9. Stored
  BY <1>1 DEF Stored, Settled, Rtsp!Threads
<1> QED
  BY <1>6, <1>7, <1>8, <1>9 DEF RtspInd

\* A step of another kind of session.
LEMMA RtspIndStays ==
  ASSUME RtspInd, stage' = stage, session' = session, data' = data, server' = server,
         UNCHANGED pthread, UNCHANGED onlyRtsp
  PROVE  RtspInd'
<1>1. /\ Status' = Status /\ RemoteStartPos' = RemoteStartPos /\ RemoteBytesReceived' = RemoteBytesReceived
      /\ TryAttempts' = TryAttempts /\ Ref' = Ref /\ ThreadId' = ThreadId /\ flagx' = flagx /\ msock' = msock
      /\ files' = files /\ windows' = windows /\ joined' = joined
  BY DEF pthread, onlyRtsp
<1>2. RtspTypes'
  BY <1>1 DEF RtspInd, RtspTypes
<1>3. RtspCourse' /\ RtspOpens' /\ BetweenAttempts'
  BY <1>1 DEF RtspInd, RtspCourse, RtspOpens, BetweenAttempts
<1>4. InAttempt'
  <2>1. Streaming' <=> Streaming
    <3>1. InItsWindow' = InItsWindow /\ Copied' = Copied /\ Waiting' = Waiting /\ HeaderFirst' = HeaderFirst
      BY <1>1 DEF InItsWindow, Copied, Waiting, HeaderFirst
    <3>2. NoneToCome' <=> NoneToCome
      BY <3>1 DEF NoneToCome
    <3> QED
      BY <1>1, <3>1, <3>2 DEF Streaming
  <2>2. Rtsp!Plain' <=> Rtsp!Plain
    BY PlainStays
  <2> QED
    BY <1>1, <2>1, <2>2 DEF RtspInd, InAttempt
<1>5. Stored'
  <2>1. \A k \in Rtsp!Threads : Settled(k)' => Settled(k)
    BY <1>1 DEF Settled
  <2> QED
    BY <1>1, <2>1, StoredStays DEF RtspInd
<1> QED
  BY <1>2, <1>3, <1>4, <1>5 DEF RtspInd

\* The inductive step.
LEMMA RtspIndNext ==
  ASSUME RtspInd, Rtsp!Next
  PROVE  RtspInd'
<1>1. CASE Rtsp!run BY <1>1, RunMoves
<1>2. CASE Rtsp!StartThread BY <1>2, StartThreadMoves
<1>3. CASE Rtsp!ThreadEnds BY <1>3, ThreadEndsMoves
<1>4. CASE Rtsp!Connect BY <1>4, ConnectMoves
<1>5. CASE Rtsp!rtsp_session_start BY <1>5, SessionStartMoves
<1>6. CASE Rtsp!real_setup_and_get_header \/ Rtsp!Redirected BY <1>6, SetupMoves
<1>7. CASE Rtsp!SizeKnown BY <1>7, SizeKnownMoves
<1>8. CASE Rtsp!PreProcess BY <1>8, PreProcessMoves
<1>9. CASE Rtsp!Recv BY <1>9, RecvMoves
<1>10. CASE Rtsp!ReadFull BY <1>10, ReadFullMoves
<1>11. CASE Rtsp!RdtChunk BY <1>11, RdtChunkMoves
<1>12. CASE Rtsp!EndOfStream \/ Rtsp!NoChunk BY <1>12, EndMoves
<1>13. CASE Rtsp!TornChunk BY <1>13, TornChunkMoves
<1>14. CASE Rtsp!Write BY <1>14, WriteMoves
<1>15. CASE Rtsp!BlockDone BY <1>15, BlockDoneMoves
<1>16. CASE Rtsp!fixRealMediaFile BY <1>16, FixMoves
<1> QED
  BY <1>1, <1>2, <1>3, <1>4, <1>5, <1>6, <1>7, <1>8, <1>9, <1>10, <1>11, <1>12, <1>13, <1>14, <1>15,
     <1>16 DEF Rtsp!Next

-----------------------------------------------------------------------------
(* The windows follow each other. *)

\* Quotients of a sum.
LEMMA Quotients ==
  ASSUME NEW x \in Nat, NEW y \in Nat, NEW A \in Nat \ {0}
  PROVE  /\ (x \div A) \in Nat /\ (y \div A) \in Nat
         /\ \/ ((x + y) \div A) = (x \div A) + (y \div A)
            \/ ((x + y) \div A) = (x \div A) + (y \div A) + 1
<1> DEFINE p == x \div A
           q == y \div A
           r == (x + y) \div A
           s == p + q
<1>1. p \in Nat /\ q \in Nat /\ r \in Nat /\ s \in Nat
  OBVIOUS
<1>2. /\ x % A \in 0 .. A - 1 /\ x = A * p + (x % A)
      /\ y % A \in 0 .. A - 1 /\ y = A * q + (y % A)
      /\ (x + y) % A \in 0 .. A - 1 /\ x + y = A * r + ((x + y) % A)
  <2>1. x + y \in Nat
    OBVIOUS
  <2> QED
    BY <2>1
<1> DEFINE a == x % A
           b == y % A
           c == (x + y) % A
<1>3. A * s = A * p + A * q
  BY <1>1
<1> HIDE DEF p, q, r, s, a, b, c
<1>4. A * r + c = A * s + a + b /\ a \in 0 .. A - 1 /\ b \in 0 .. A - 1 /\ c \in 0 .. A - 1
  <2>1. a \in 0 .. A - 1 /\ b \in 0 .. A - 1 /\ c \in 0 .. A - 1
    BY <1>2 DEF a, b, c
  <2>2. x = A * p + a /\ y = A * q + b /\ x + y = A * r + c
    BY <1>2 DEF a, b, c
  <2>3. A * p \in Nat /\ A * q \in Nat /\ A * r \in Nat
    BY <1>1
  <2> QED
    BY ONLY <1>3, <2>1, <2>2, <2>3, A \in Nat \ {0}
<1>5. ~(r < s)
  <2> SUFFICES ASSUME r < s PROVE FALSE
    OBVIOUS
  <2>1. PICK d \in Nat : s = r + 1 + d
    <3>1. s - r - 1 \in Nat /\ s = r + 1 + (s - r - 1)
      BY <1>1
    <3> QED
      BY <3>1
  <2>2. A * s = A * r + A + A * d /\ A * d \in Nat /\ A * r \in Nat
    BY <1>1, <2>1
  <2> QED
    BY ONLY <1>4, <2>2, A \in Nat \ {0}
<1>6. ~(r > s + 1)
  <2> SUFFICES ASSUME r > s + 1 PROVE FALSE
    OBVIOUS
  <2>1. PICK d \in Nat : r = s + 2 + d
    <3>1. r - s - 2 \in Nat /\ r = s + 2 + (r - s - 2)
      BY <1>1
    <3> QED
      BY <3>1
  <2>2. A * r = A * s + 2 * A + A * d /\ A * d \in Nat /\ A * s \in Nat
    BY <1>1, <2>1
  <2> QED
    BY ONLY <1>4, <2>2, A \in Nat \ {0}
<1>7. r = s \/ r = s + 1
  BY <1>1, <1>5, <1>6
<1> QED
  BY <1>1, <1>7 DEF p, q, r, s

\* As many times as it goes into it.
LEMMA QuotientBounds ==
  ASSUME NEW x \in Nat, NEW A \in Nat \ {0}, NEW m \in Nat
  PROVE  /\ x <= A * m => x \div A <= m
         /\ A * m <= x => m <= x \div A
         /\ A * (x \div A) <= x
<1> DEFINE p == x \div A
           a == x % A
<1>1. p \in Nat /\ a \in 0 .. A - 1 /\ x = A * p + a
  OBVIOUS
<1> HIDE DEF p, a
<1>2. ASSUME x <= A * m, p > m PROVE FALSE
  <2>1. PICK d \in Nat : p = m + 1 + d
    <3>1. p - m - 1 \in Nat /\ p = m + 1 + (p - m - 1)
      BY <1>1, <1>2
    <3> QED
      BY <3>1
  <2>2. A * p = A * m + A + A * d /\ A * d \in Nat /\ A * m \in Nat
    BY <1>1, <2>1
  <2> QED
    BY ONLY <1>1, <1>2, <2>2, A \in Nat \ {0}
<1>3. ASSUME A * m <= x, p < m PROVE FALSE
  <2>1. PICK d \in Nat : m = p + 1 + d
    <3>1. m - p - 1 \in Nat /\ m = p + 1 + (m - p - 1)
      BY <1>1, <1>3
    <3> QED
      BY <3>1
  <2>2. A * m = A * p + A + A * d /\ A * d \in Nat /\ A * p \in Nat
    BY <1>1, <2>1
  <2> QED
    BY ONLY <1>1, <1>3, <2>2, A \in Nat \ {0}
<1>4. A * p <= x
  <2>1. A * p \in Nat
    BY <1>1
  <2> QED
    BY ONLY <1>1, <2>1, A \in Nat \ {0}
<1>5. (x <= A * m => p <= m) /\ (A * m <= x => m <= p)
  BY <1>1, <1>2, <1>3
<1> QED
  BY <1>4, <1>5 DEF p

\* Where the blocks begin, and the last of them ends.
Bound(k) == IF k = ThreadCnt THEN Rtsp!FileSize ELSE Rtsp!BlockStart(k)

\* The window of a block ends at the beginning of the next one, or a millisecond before it.
LEMMA WindowsMeet ==
  ASSUME NEW k \in Rtsp!Threads
  PROVE  LET w == Rtsp!Window(Rtsp!BlockStart(k), Rtsp!BlockEnd(k)) IN
         /\ w.from = Rtsp!ToStamp(Bound(k)) /\ w.from \in Nat /\ w.to \in Nat /\ w.from < w.to
         /\ Rtsp!ToStamp(Bound(k + 1)) \in Nat /\ Rtsp!ToStamp(Rtsp!BlockEnd(k)) = Rtsp!ToStamp(Bound(k + 1))
         /\ w.to = Rtsp!ToStamp(Bound(k + 1)) \/ w.to = Rtsp!ToStamp(Bound(k + 1)) - 1
<1> DEFINE A == AvgBitRate
           F == Rtsp!FileSize
           s == Rtsp!BlockStart(k)
           e == Rtsp!BlockEnd(k)
           o == Rtsp!ToStamp(s)
           l == Rtsp!ToStamp(e - s)
           t == Rtsp!ToStamp(e)
           w == Rtsp!Window(s, e)
<1>1. /\ A \in Nat \ {0} /\ Duration \in Nat \ {0} /\ ThreadCnt \in Nat \ {0} /\ k \in 0 .. ThreadCnt - 1
      /\ A <= 8000 * (F \div ThreadCnt)
  BY RtspAssumption DEF Rtsp!Threads
<1>2. F \in Nat /\ F * 8000 <= A * Duration
  <2>1. Duration * A \in Nat /\ Duration * A = A * Duration
    BY <1>1
  <2>2. F = (Duration * A) \div 8000
    BY DEF Rtsp!FileSize
  <2>3. 8000 * ((Duration * A) \div 8000) <= Duration * A
    <3> DEFINE z == Duration * A
    <3>1. z \in Nat
      BY <2>1
    <3> HIDE DEF z
    <3>2. 8000 * (z \div 8000) <= z
      BY <3>1
    <3> QED
      BY <3>2 DEF z
  <2>4. F \in Nat
    BY <2>1, <2>2
  <2> HIDE DEF F, A
  <2> QED
    BY <2>1, <2>2, <2>3, <2>4
<1> DEFINE q == F \div ThreadCnt
<1>3. q \in Nat /\ ThreadCnt * q <= F
  BY <1>1, <1>2, QuotientBounds
<1>4. s = k * q /\ e = Bound(k + 1) /\ s = Bound(k) /\ k * q \in Nat
      /\ e = IF k = ThreadCnt - 1 THEN F ELSE (k + 1) * q
  <2>1. s = k * q /\ k * q \in Nat
    BY <1>1, <1>3 DEF Rtsp!BlockStart
  <2>2. e = IF k = ThreadCnt - 1 THEN F ELSE (k + 1) * q
    BY DEF Rtsp!BlockEnd, Rtsp!BlockStart
  <2>3. e = Bound(k + 1) /\ s = Bound(k)
    BY <1>1 DEF Rtsp!BlockEnd, Bound
  <2> QED
    BY <2>1, <2>2, <2>3
<1> HIDE DEF F, q, s, e
<1>5. e \in Nat /\ s \in Nat /\ e - s \in Nat /\ e <= F /\ q <= e - s
  <2>1. CASE k = ThreadCnt - 1
    <3>1. k * q = ThreadCnt * q - q /\ ThreadCnt * q \in Nat /\ k * q \in Nat
      BY <1>1, <1>3, <2>1
    <3> QED
      BY ONLY <1>2, <1>3, <1>4, <2>1, <3>1
  <2>2. CASE k # ThreadCnt - 1
    <3>1. PICK d \in Nat : ThreadCnt = k + 1 + d
      <4>1. ThreadCnt - k - 1 \in Nat /\ ThreadCnt = k + 1 + (ThreadCnt - k - 1)
        BY <1>1
      <4> QED
        BY <4>1
    <3>2. (k + 1) * q = k * q + q /\ ThreadCnt * q = k * q + q + d * q /\ d * q \in Nat /\ k * q \in Nat
      BY <1>1, <1>3, <3>1
    <3> QED
      BY ONLY <1>2, <1>3, <1>4, <2>2, <3>2
  <2> QED
    BY <2>1, <2>2
<1>6. /\ o = (s * 8000) \div A /\ l = ((e - s) * 8000) \div A /\ t = (e * 8000) \div A
  BY DEF Rtsp!ToStamp
<1>7. o \in Nat /\ l \in Nat /\ (t = o + l \/ t = o + l + 1)
  <2>1. s * 8000 \in Nat /\ (e - s) * 8000 \in Nat /\ s * 8000 + (e - s) * 8000 = e * 8000
    BY <1>5
  <2> HIDE DEF o, l, t, A
  <2> QED
    BY <1>1, <1>6, <2>1, Quotients
<1>8. l >= 1
  <2>1. A * 1 <= (e - s) * 8000 /\ (e - s) * 8000 \in Nat /\ 1 \in Nat
    BY <1>1, <1>3, <1>5 DEF q
  <2>2. 1 <= ((e - s) * 8000) \div A
    <3> HIDE DEF A
    <3> QED
      BY ONLY <1>1, <2>1, QuotientBounds
  <2> QED
    BY <1>6, <1>7, <2>2
<1>9. t <= Duration
  <2>1. e * 8000 <= A * Duration /\ e * 8000 \in Nat
    <3>1. e * 8000 <= F * 8000 /\ A * Duration \in Nat
      BY <1>1, <1>2, <1>5
    <3> HIDE DEF A
    <3> QED
      BY <1>2, <1>5, <3>1
  <2>2. (e * 8000) \div A <= Duration
    <3> HIDE DEF A
    <3> QED
      BY ONLY <1>1, <2>1, QuotientBounds
  <2> QED
    BY <1>6, <2>2
<1> DEFINE c == IF o + l >= Duration THEN Duration - o ELSE l
<1>10. w.from = o /\ w.to = IF c > 0 THEN o + c ELSE -1
  BY DEF Rtsp!Window, Rtsp!None
<1> HIDE DEF o, l, t, w, A
<1>11. c = l
  BY <1>1, <1>7, <1>9
<1> HIDE DEF c
<1>12. w.from = o /\ w.to = o + l /\ w.from < w.to /\ t \in Nat /\ (w.to = t \/ w.to = t - 1)
  BY <1>7, <1>8, <1>10, <1>11
<1>13. o = Rtsp!ToStamp(Bound(k)) /\ t = Rtsp!ToStamp(Bound(k + 1)) /\ Rtsp!ToStamp(e) = t
  BY <1>4 DEF o, t
<1> QED
  BY <1>7, <1>12, <1>13 DEF w, s, e

\* The packets of the windows of the first k pthreads.
StoredBy(k) == UNION {Rtsp!PacketsIn(server.stream, windows[j]) : j \in 0 .. k - 1}

\* What the files of the first k pthreads make up.
JoinedUpTo(k) ==
    /\ \A n \in StoredBy(k) : server.stream[n].ts < Rtsp!ToStamp(Bound(k))
    /\ Rtsp!FilesUpTo(files)[k] = IF k = 0 THEN <<>>
                                  ELSE Then(Rtsp!HeaderBytes, Rtsp!PacketsOf(server.stream, StoredBy(k)))
    /\ \A n \in DOMAIN server.stream :
          server.stream[n].ts < Rtsp!ToStamp(Bound(k)) /\ ~Rtsp!Seam(server.stream[n].ts) => n \in StoredBy(k)

\* One file more.
LEMMA JoinedGrows ==
  ASSUME NEW k \in Rtsp!Threads, JoinedUpTo(k), server.stream \in Streams, Rtsp!Plain, Rtsp!FirstTries,
         \A j \in Rtsp!Threads : files[j] \in Seq(RtspBytes) /\ Filled(j)
  PROVE  JoinedUpTo(k + 1)
<1> DEFINE s == server.stream
           U == StoredBy(k)
           w == windows[k]
           W == Rtsp!PacketsIn(s, w)
           S == Rtsp!ToStamp(Bound(k))
           T == Rtsp!ToStamp(Bound(k + 1))
<1>1. /\ w.from = S /\ S \in Nat /\ w.to \in Nat /\ w.from < w.to /\ T \in Nat
      /\ Rtsp!ToStamp(Rtsp!BlockEnd(k)) = T /\ (w.to = T \/ w.to = T - 1) /\ w.whole
  <2> DEFINE v == Rtsp!Window(Rtsp!BlockStart(k), Rtsp!BlockEnd(k))
  <2>1. w.from = v.from /\ w.to = v.to /\ w.whole
    BY DEF Rtsp!FirstTries
  <2>2. /\ v.from = S /\ v.from \in Nat /\ v.to \in Nat /\ v.from < v.to /\ T \in Nat
        /\ Rtsp!ToStamp(Rtsp!BlockEnd(k)) = T /\ (v.to = T \/ v.to = T - 1)
    BY WindowsMeet
  <2> HIDE DEF v, w, S, T
  <2> QED
    BY <2>1, <2>2
<1>2. /\ Len(s) \in Nat /\ DOMAIN s = 1 .. Len(s) /\ \A n \in 1 .. Len(s) : s[n].ts \in Nat
      /\ ThreadCnt \in Nat \ {0} /\ k \in 0 .. ThreadCnt - 1 /\ k + 1 \in 1 .. ThreadCnt
  <2>1. Len(s) \in Nat /\ DOMAIN s = 1 .. Len(s) /\ \A n \in 1 .. Len(s) : s[n].ts \in Nat
    BY StreamIs
  <2> QED
    BY <2>1, RtspAssumption DEF Rtsp!Threads
<1>3. \A n \in 1 .. Len(s) : n \in W <=> S <= s[n].ts /\ s[n].ts < w.to
  <2>1. w.to # -1
    BY <1>1
  <2> QED
    BY <1>1, <1>2, <2>1 DEF Rtsp!PacketsIn, Rtsp!InWindow, Rtsp!None
<1>4. U \subseteq 1 .. Len(s) /\ W \subseteq 1 .. Len(s)
  BY <1>2 DEF StoredBy, Rtsp!PacketsIn
<1>5. StoredBy(k + 1) = U \cup W
  <2> DEFINE m == k + 1
  <2>1. \A j : j \in 0 .. m - 1 <=> j \in 0 .. k - 1 \/ j = k
    BY <1>2
  <2> HIDE DEF m
  <2>2. ASSUME NEW n PROVE n \in StoredBy(m) <=> \E j \in 0 .. m - 1 : n \in Rtsp!PacketsIn(s, windows[j])
    BY DEF StoredBy
  <2>3. ASSUME NEW n PROVE n \in U <=> \E j \in 0 .. k - 1 : n \in Rtsp!PacketsIn(s, windows[j])
    BY DEF StoredBy
  <2> HIDE DEF U, s
  <2>4. ASSUME NEW n PROVE n \in StoredBy(m) <=> n \in U \/ n \in W
    BY <2>1, <2>2, <2>3, Zenon
  <2>5. StoredBy(m) = U \cup W
    BY <2>4
  <2> QED
    BY ONLY <2>5 DEF m
<1>6. \A n \in U : s[n].ts < S
  BY DEF JoinedUpTo
<1>7. \A n \in U \cup W : s[n].ts < T
  <2> HIDE DEF s, U, W, w, S, T
  <2>1. ASSUME NEW n \in U PROVE s[n].ts < T
    <3>1. s[n].ts < S /\ s[n].ts \in Nat
      BY <1>2, <1>4, <1>6, <2>1
    <3> QED
      BY <1>1, <3>1
  <2>2. ASSUME NEW n \in W PROVE s[n].ts < T
    <3>1. s[n].ts < w.to /\ s[n].ts \in Nat
      BY <1>2, <1>3, <1>4, <2>2
    <3> QED
      BY <1>1, <3>1
  <2> QED
    BY <2>1, <2>2
<1>8. ASSUME NEW n \in 1 .. Len(s), s[n].ts < T, ~Rtsp!Seam(s[n].ts) PROVE n \in U \cup W
  <2>1. s[n].ts # T - 1
    BY <1>1, <1>8 DEF Rtsp!Seam
  <2>2. s[n].ts < S => n \in U
    BY <1>2, <1>8 DEF JoinedUpTo
  <2>3. s[n].ts \in Nat
    BY <1>2
  <2> HIDE DEF s, U, W, w, S, T
  <2> QED
    BY <1>1, <1>3, <1>8, <2>1, <2>2, <2>3
<1> DEFINE P(X) == Rtsp!PacketsOf(s, X)
           H == Rtsp!HeaderBytes
<1>9. P(U \cup W) = Then(P(U), P(W)) /\ P(U) \in Seq(RtspBytes) /\ P(W) \in Seq(RtspBytes)
  <2>1. \A a \in U, b \in W : a \in Int /\ b \in Int /\ a < b
    <3> SUFFICES ASSUME NEW a \in U, NEW b \in W, ~(a < b) PROVE FALSE
      BY <1>4
    <3>1. a \in 1 .. Len(s) /\ b \in 1 .. Len(s) /\ b <= a
      BY <1>2, <1>4
    <3>2. s[b].ts <= s[a].ts
      BY <1>2, <3>1 DEF Rtsp!Plain
    <3>3. s[a].ts < S /\ S <= s[b].ts /\ s[a].ts \in Nat /\ s[b].ts \in Nat
      BY <1>2, <1>3, <1>6, <3>1
    <3> HIDE DEF s, U, W, w, S, T
    <3> QED
      BY <1>1, <3>2, <3>3
  <2>2. Len(s) \in 0 .. Len(s)
    BY <1>2
  <2> HIDE DEF U, W
  <2>3. Rtsp!PacketsUpTo(s, U \cup W)[Len(s)] = Then(Rtsp!PacketsUpTo(s, U)[Len(s)], Rtsp!PacketsUpTo(s, W)[Len(s)])
    BY <2>1, <2>2, PacketsOfBoth
  <2>4. Rtsp!PacketsUpTo(s, U)[Len(s)] \in Seq(RtspBytes) /\ Rtsp!PacketsUpTo(s, W)[Len(s)] \in Seq(RtspBytes)
    BY <2>2, PacketsUpToAre
  <2> QED
    BY <2>3, <2>4 DEF Rtsp!PacketsOf
<1>10. Rtsp!FilesUpTo(files)[k + 1] = Then(Rtsp!FilesUpTo(files)[k], files[k])
  <2> DEFINE m == k + 1
  <2>1. m \in 1 .. ThreadCnt /\ m - 1 = k
    BY <1>2
  <2> HIDE DEF m
  <2>2. Rtsp!FilesUpTo(files)[m] = Then(Rtsp!FilesUpTo(files)[m - 1], files[m - 1])
    BY <2>1, FilesUpToAre
  <2>3. Rtsp!FilesUpTo(files)[m] = Then(Rtsp!FilesUpTo(files)[k], files[k])
    BY <2>1, <2>2
  <2> QED
    BY ONLY <2>3 DEF m
<1>11. files[k] = Then(IF k = 0 THEN H ELSE <<>>, P(W))
  BY <1>1 DEF Filled
<1>12. Rtsp!FilesUpTo(files)[k + 1] = Then(H, P(U \cup W))
  <2>1. H \in Seq(RtspBytes) /\ <<>> \in Seq(RtspBytes)
    BY HeaderIs
  <2>2. CASE k = 0
    <3>1. Rtsp!FilesUpTo(files)[k] = <<>> /\ U = {}
      BY <2>2 DEF JoinedUpTo, StoredBy
    <3>2. U \cup W = W
      BY <3>1
    <3> HIDE DEF H, P, U, W
    <3>3. Then(H, P(W)) \in Seq(RtspBytes)
      BY <1>9, <2>1, ThenIs
    <3>4. Then(<<>>, Then(H, P(W))) = Then(H, P(W))
      BY <3>3, ThenIs
    <3> QED
      BY <1>10, <1>11, <2>2, <3>1, <3>2, <3>4
  <2>3. CASE k # 0
    <3>1. Rtsp!FilesUpTo(files)[k] = Then(H, P(U))
      BY <2>3 DEF JoinedUpTo
    <3> HIDE DEF H, P, U, W
    <3>2. Then(<<>>, P(W)) = P(W)
      BY <1>9, <2>1, ThenIs
    <3>3. Then(Then(H, P(U)), P(W)) = Then(H, Then(P(U), P(W)))
      BY <1>9, <2>1, ThenIs
    <3> QED
      BY <1>9, <1>10, <1>11, <2>3, <3>1, <3>2, <3>3
  <2> QED
    BY <2>2, <2>3
<1>13. k + 1 # 0
  BY <1>2
<1> QED
  BY <1>2, <1>5, <1>7, <1>8, <1>12, <1>13 DEF JoinedUpTo

\* The invariant implies what a run checks.
LEMMA RtspIndIs == RtspInd => Rtsp!RtspInv
<1> SUFFICES ASSUME RtspInd PROVE Rtsp!RtspInv
  OBVIOUS
<1>1. Rtsp!TypeOK
  BY DEF RtspInd, RtspTypes, RtspCourse, Rtsp!TypeOK, Rtsp!None
<1>2. Rtsp!FileIsItsWindow
  <2> SUFFICES ASSUME stage = "done", Status = "ALLDONE", Rtsp!Plain, windows[ThreadId].whole
               PROVE  files[ThreadId] = (IF ThreadId = 0 THEN Rtsp!HeaderBytes ELSE <<>>)
                         \o Rtsp!PacketsOf(server.stream, Rtsp!PacketsIn(server.stream, windows[ThreadId]))
    BY DEF Rtsp!FileIsItsWindow
  <2>1. ThreadId \in Rtsp!Threads
    BY DEF RtspInd, RtspTypes, RtspCourse
  <2>2. Filled(ThreadId)
    BY <2>1 DEF RtspInd, Stored, Settled
  <2> QED
    BY <2>2 DEF Filled, Then
<1>3. Rtsp!JoinedIsTheStream
  <2> SUFFICES ASSUME stage = "joined", Rtsp!Plain, Rtsp!FirstTries
               PROVE  LET All == UNION {Rtsp!PacketsIn(server.stream, windows[k]) : k \in Rtsp!Threads} IN
                      /\ joined = Rtsp!HeaderBytes \o Rtsp!PacketsOf(server.stream, All)
                      /\ \A n \in DOMAIN server.stream : ~Rtsp!Seam(server.stream[n].ts) => n \in All
    BY DEF Rtsp!JoinedIsTheStream
  <2>1. /\ ThreadId = ThreadCnt - 1 /\ joined = Rtsp!FilesUpTo(files)[ThreadCnt]
        /\ server.stream \in Streams /\ ThreadCnt \in Nat \ {0}
    <3>1. server.stream \in Streams
      BY ServerIs DEF RtspInd, RtspTypes
    <3> QED
      BY <3>1, RtspAssumption DEF RtspInd, RtspCourse
  <2>2. \A k \in Rtsp!Threads : Filled(k)
    <3>1. \A k \in Rtsp!Threads : Settled(k)
      BY <2>1 DEF Settled, Rtsp!Threads
    <3> QED
      BY <3>1 DEF RtspInd, Stored
  <2>3. \A k \in Rtsp!Threads : files[k] \in Seq(RtspBytes)
    <3> SUFFICES ASSUME NEW k \in Rtsp!Threads PROVE files[k] \in Seq(RtspBytes)
      OBVIOUS
    <3> DEFINE h == IF k = 0 THEN Rtsp!HeaderBytes ELSE <<>>
               W == Rtsp!PacketsIn(server.stream, windows[k])
    <3>1. h \in Seq(RtspBytes)
      <4>1. <<>> \in Seq(RtspBytes)
        OBVIOUS
      <4> QED
        BY <4>1, HeaderIs
    <3>2. Rtsp!PacketsOf(server.stream, W) \in Seq(RtspBytes)
      <4>1. Len(server.stream) \in 0 .. Len(server.stream)
        BY <2>1, StreamIs
      <4> HIDE DEF W
      <4>2. Rtsp!PacketsUpTo(server.stream, W)[Len(server.stream)] \in Seq(RtspBytes)
        BY <2>1, <4>1, PacketsUpToAre
      <4> QED
        BY <4>2 DEF Rtsp!PacketsOf
    <3>3. files[k] = Then(h, Rtsp!PacketsOf(server.stream, W))
      BY <2>2 DEF Filled, Rtsp!FirstTries
    <3> HIDE DEF h, W
    <3> QED
      BY <3>1, <3>2, <3>3, ThenIs
  <2> DEFINE S == {k \in 0 .. ThreadCnt : JoinedUpTo(k)}
  <2>4. 0 \in S
    <3>1. StoredBy(0) = {}
      BY DEF StoredBy
    <3>2. Rtsp!FilesUpTo(files)[0] = <<>>
      BY <2>3, FilesUpToAre
    <3>3. Rtsp!ToStamp(Bound(0)) = 0
      <4>1. 0 \in Rtsp!Threads
        BY <2>1 DEF Rtsp!Threads
      <4>2. Bound(0) = 0
        <5>1. Rtsp!FileSize \div ThreadCnt \in Nat
          BY <2>1, <4>1, BlocksHaveBytes
        <5> QED
          BY <2>1, <5>1 DEF Bound, Rtsp!BlockStart
      <4>3. 0 * 8000 = 0 /\ 0 \div AvgBitRate = 0
        BY RtspAssumption
      <4> QED
        BY <4>2, <4>3 DEF Rtsp!ToStamp
    <3>4. \A n \in DOMAIN server.stream : ~(server.stream[n].ts < 0)
      <4> SUFFICES ASSUME NEW n \in DOMAIN server.stream PROVE ~(server.stream[n].ts < 0)
        OBVIOUS
      <4>1. /\ DOMAIN server.stream = 1 .. Len(server.stream)
            /\ \A k \in 1 .. Len(server.stream) : server.stream[k].ts \in Nat
        BY <2>1, StreamIs
      <4>2. server.stream[n].ts \in Nat
        BY <4>1
      <4> DEFINE ts == server.stream[n].ts
      <4> HIDE DEF ts
      <4>3. ts \in Nat => ~(ts < 0)
        OBVIOUS
      <4> QED
        BY <4>2, <4>3 DEF ts
    <3> QED
      BY <2>1, <3>1, <3>2, <3>3, <3>4 DEF JoinedUpTo
  <2>5. ASSUME NEW k \in 0 .. ThreadCnt - 1, k \in S PROVE k + 1 \in S
    <3>1. k \in Rtsp!Threads /\ k + 1 \in 0 .. ThreadCnt
      BY <2>1 DEF Rtsp!Threads
    <3>2. JoinedUpTo(k)
      BY <2>5
    <3>3. JoinedUpTo(k + 1)
      BY <2>1, <2>2, <2>3, <3>1, <3>2, JoinedGrows
    <3> QED
      BY <3>1, <3>3
  <2>6. ThreadCnt \in S
    <3> HIDE DEF S
    <3>1. 0 .. ThreadCnt \subseteq S
      BY <2>1, <2>4, <2>5, AllNumbersTo
    <3> QED
      BY <2>1, <3>1
  <2>7. StoredBy(ThreadCnt) = UNION {Rtsp!PacketsIn(server.stream, windows[k]) : k \in Rtsp!Threads}
    BY DEF StoredBy, Rtsp!Threads
  <2>8. \A n \in DOMAIN server.stream : ~Rtsp!Seam(server.stream[n].ts) => n \in StoredBy(ThreadCnt)
    <3> SUFFICES ASSUME NEW n \in DOMAIN server.stream, ~Rtsp!Seam(server.stream[n].ts) PROVE n \in StoredBy(ThreadCnt)
      OBVIOUS
    <3> DEFINE T == Rtsp!ToStamp(Rtsp!FileSize)
    <3>1. ~(server.stream[n].ts >= T)
      BY DEF Rtsp!Seam
    <3>2. Bound(ThreadCnt) = Rtsp!FileSize
      BY DEF Bound
    <3>3. server.stream[n].ts \in Nat
      BY <2>1, StreamIs
    <3>4. T \in Nat
      <4>1. ThreadCnt - 1 \in Rtsp!Threads /\ ThreadCnt - 1 + 1 = ThreadCnt
        BY <2>1 DEF Rtsp!Threads
      <4> QED
        BY <3>2, <4>1, WindowsMeet
    <3> HIDE DEF T
    <3>5. server.stream[n].ts < T
      BY <3>1, <3>3, <3>4
    <3> QED
      BY <2>6, <3>2, <3>5 DEF JoinedUpTo, T
  <2>9. joined = Rtsp!HeaderBytes \o Rtsp!PacketsOf(server.stream, StoredBy(ThreadCnt))
    BY <2>1, <2>6 DEF JoinedUpTo, Then
  <2> QED
    BY <2>7, <2>8, <2>9
<1> QED
  BY <1>1, <1>2, <1>3 DEF Rtsp!RtspInv

(***************************************************************************)
(* Every pthread of a download over RTSP that is done has stored the header *)
(* (the first one only) and the packets of the window it asked for, all of  *)
(* them, once and in their order, unless a part of the window was lost with *)
(* the connection.  The files, joined, are the stream but for what lies on a*)
(* seam, when no pthread had to ask for the rest of its window.  This holds *)
(* for every stream whose stamps do not go back and whose packets leave room*)
(* in the buffer, every number of pthreads whose blocks last a millisecond, *)
(* and every buffer and limit: TRtspThread::retrKnownSizeFile,              *)
(* rtsp_session_read and TTask::fixRealMediaFile.                           *)
(***************************************************************************)
THEOREM RtspJoinsWindows == StreamsSpec => []RtspJoins
<1> DEFINE Inv == scheme = "rtsp" => RtspInd
<1>1. StreamsInit => Inv
  BY RtspIndInit DEF StreamsInit
<1>2. Inv /\ [StreamsNext]_streamsVars => Inv'
  <2> SUFFICES ASSUME Inv, [StreamsNext]_streamsVars, scheme' = "rtsp" PROVE RtspInd'
    OBVIOUS
  <2>1. CASE StreamsNext
    BY <2>1, RtspIndNext DEF StreamsNext
  <2>2. CASE UNCHANGED streamsVars
    <3>1. /\ scheme' = scheme /\ stage' = stage /\ session' = session /\ data' = data /\ server' = server
          /\ UNCHANGED pthread /\ UNCHANGED onlyRtsp
      BY <2>2 DEF streamsVars, common, pthread, onlyRtsp, onlyMms
    <3> QED
      BY <3>1, RtspIndStays
  <2> QED
    BY <2>1, <2>2
<1>3. Inv => RtspJoins
  BY RtspIndIs DEF RtspJoins
<1> QED
  BY <1>1, <1>2, <1>3, PTL DEF StreamsSpec
=============================================================================
