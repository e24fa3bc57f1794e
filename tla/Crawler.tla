------------------------------ MODULE Crawler ------------------------------
(***************************************************************************)
(* The site crawler (libmtd/Crawler.cpp): TSpiderWorker threads take links   *)
(* from the queue of TCrawler, fetch the pages and put the links of the      *)
(* pages into the queue.                                                    *)
(*                                                                         *)
(* uriQue is only used under uq_mutex, and no section under it waits for     *)
(* anything but uq_cond, so that each of these sections is one step.         *)
(***************************************************************************)
EXTENDS Integers, Sequences, FiniteSets

CONSTANTS
    Workers,        \* WorkerQueue
    Urls, StartUrl,
    Links,          \* page -> the http links of its anchors, in order
    Redirects,      \* page -> the pages its server may redirect to
    MaxTaken        \* bound: links taken from the queue

ASSUME CrawlerAssumption ==
    /\ IsFiniteSet(Workers) /\ StartUrl \in Urls /\ MaxTaken \in Nat
    /\ Links \in [Urls -> Seq(Urls)] /\ Redirects \in [Urls -> SUBSET Urls]

VARIABLES
    m_running,
    uriQue,
    list,           \* name -> the vector in memory, the part of it that is on disk, the file
    fseq,
    pc,
    url,            \* worker -> its uri.url
    seq,            \* worker -> the number in the name of its file
    htmlContent,    \* worker -> the links in the text its THttpCli holds
    received,       \* history: how often a fetch gave 0
    taken,          \* history: links taken
    late            \* history: worker -> links it took after stop()

vars == <<m_running, uriQue, list, fseq, pc, url, seq, htmlContent, received, taken, late>>

Go(w, to) == pc' = [pc EXCEPT ![w] = to]

-----------------------------------------------------------------------------
(* The lists of hosts and pages.  checkUrl searches the vectors and writes what is
   new in them to the files; save... write to the files only, so that the vectors
   stay empty and checkUrl finds nothing.  (saveUnreachHost is never called: Run
   expects -1 for a host that is not reached, fetchHtmlPage never returns it.) *)

Names == {"unreached", "unvisited", "visited"}
NewList == [vector |-> <<>>, pos |-> 0, file |-> <<>>]

Save(l, u) == [vector |-> l.vector, pos |-> l.pos, file |-> Append(l.file, u)]

Flushed(l) == [vector |-> l.vector, pos |-> Len(l.vector),
               file |-> l.file \o SubSeq(l.vector, l.pos + 1, Len(l.vector))]

Known(u) == \E n \in Names : \E i \in DOMAIN list[n].vector : list[n].vector[i] = u

-----------------------------------------------------------------------------
(* start(): the first link is queued before the workers are created. *)
Init ==
    /\ m_running = TRUE
    /\ uriQue = <<StartUrl>>
    /\ list = [n \in Names |-> NewList]
    /\ fseq = 0
    /\ pc = [w \in Workers |-> "loop"]
    /\ url = [w \in Workers |-> StartUrl]
    /\ seq = [w \in Workers |-> 0]
    /\ htmlContent = [w \in Workers |-> <<>>]
    /\ received = 0 /\ taken = 0 /\ late = [w \in Workers |-> 0]

(* RawServer's Exit calls it; nobody is woken. *)
stop ==
    /\ m_running /\ m_running' = FALSE
    /\ UNCHANGED <<uriQue, list, fseq, pc, url, seq, htmlContent, received, taken, late>>

(* while(crawler->m_running) *)
Loop(w) ==
    /\ pc[w] = "loop"
    /\ Go(w, IF m_running THEN "fetchUrl" ELSE "end")
    /\ UNCHANGED <<m_running, uriQue, list, fseq, url, seq, htmlContent, received, taken, late>>

(* fetchUrl: the front of the queue, or pthread_cond_wait. *)
fetchUrl(w) ==
    /\ pc[w] = "fetchUrl"
    /\ \/ /\ uriQue # <<>> /\ taken < MaxTaken
          /\ url' = [url EXCEPT ![w] = Head(uriQue)]
          /\ uriQue' = Tail(uriQue)
          /\ taken' = taken + 1
          /\ late' = [late EXCEPT ![w] = @ + IF m_running THEN 0 ELSE 1]
          /\ Go(w, "checkUrl")
       \/ uriQue = <<>> /\ Go(w, "wait") /\ UNCHANGED <<url, uriQue, taken, late>>
    /\ UNCHANGED <<m_running, list, fseq, seq, htmlContent, received>>

(* A wait may end by itself. *)
SpuriousWakeup(w) ==
    /\ pc[w] = "wait" /\ Go(w, "fetchUrl")
    /\ UNCHANGED <<m_running, uriQue, list, fseq, url, seq, htmlContent, received, taken, late>>

checkUrl(w) ==
    /\ pc[w] = "checkUrl"
    /\ list' = [n \in Names |-> Flushed(list[n])]
    /\ Go(w, IF Known(url[w]) THEN "loop" ELSE "getfileseq")
    /\ UNCHANGED <<m_running, uriQue, fseq, url, seq, htmlContent, received, taken, late>>

\* As a mutant: the number is read under the lock and increased elsewhere.
SameNumber(w) ==
    /\ pc[w] = "getfileseq" /\ Go(w, "fetchHtmlPage")
    /\ seq' = [seq EXCEPT ![w] = fseq]
    /\ UNCHANGED <<m_running, uriQue, list, fseq, url, htmlContent, received, taken, late>>

getfileseq(w) ==
    /\ pc[w] = "getfileseq" /\ Go(w, "fetchHtmlPage")
    /\ seq' = [seq EXCEPT ![w] = fseq]
    /\ fseq' = fseq + 1
    /\ UNCHANGED <<m_running, uriQue, list, url, htmlContent, received, taken, late>>

(* fetchHtmlPage with the name of a file.  Only fetchHtmlChunk clears htmlContent and
   returns 0; fetchHtmlFile adds to what is there and returns the number of bytes,
   which is 0 for an empty page alone.  Run takes a positive result for none of the
   cases it knows.  A chunk that is cut short is waited for for ever. *)
FetchedAs(w, u, content, to) ==
    /\ url' = [url EXCEPT ![w] = u]
    /\ htmlContent' = [htmlContent EXCEPT ![w] = content]
    /\ received' = received + IF to = "saveVisited" THEN 1 ELSE 0
    /\ Go(w, to)

fetchHtmlPage(w) ==
    /\ pc[w] = "fetchHtmlPage"
    /\ \E u \in Redirects[url[w]] \cup {url[w]} :
          LET more == htmlContent[w] \o Links[u] IN
          \/ FetchedAs(w, u, htmlContent[w], "loop")             \* -4
          \/ FetchedAs(w, u, more, "saveUnvisited")              \* -2
          \/ FetchedAs(w, u, Links[u], "saveVisited")            \* 0: chunks
          \/ FetchedAs(w, u, htmlContent[w], "saveVisited")      \* 0: no bytes
          \/ FetchedAs(w, u, more, "loop")                       \* bytes
          \/ FetchedAs(w, u, htmlContent[w], "hung")
    /\ UNCHANGED <<m_running, uriQue, list, fseq, seq, taken, late>>

saveUnvisitedUrl(w) ==
    /\ pc[w] = "saveUnvisited" /\ Go(w, "loop")
    /\ list' = [list EXCEPT !["unvisited"] = Save(@, url[w])]
    /\ UNCHANGED <<m_running, uriQue, fseq, url, seq, htmlContent, received, taken, late>>

saveVisitedUrl(w) ==
    /\ pc[w] = "saveVisited" /\ Go(w, "parse")
    /\ list' = [list EXCEPT !["visited"] = Save(@, url[w])]
    /\ UNCHANGED <<m_running, uriQue, fseq, url, seq, htmlContent, received, taken, late>>

(* parseHyperlinks: the links that checkUrl does not know are queued, in their order. *)
parseHyperlinks(w) ==
    /\ pc[w] = "parse" /\ Go(w, "broadcast")
    /\ LET new == {i \in DOMAIN htmlContent[w] : ~Known(htmlContent[w][i])}
       IN  \E it \in [1 .. Cardinality(new) -> new] :
              /\ \A i, j \in DOMAIN it : i < j => it[i] < it[j]
              /\ uriQue' = uriQue \o [i \in DOMAIN it |-> htmlContent[w][it[i]]]
    /\ list' = IF htmlContent[w] = <<>> THEN list ELSE [n \in Names |-> Flushed(list[n])]
    /\ UNCHANGED <<m_running, fseq, url, seq, htmlContent, received, taken, late>>

\* As a mutant: nobody is woken.
NoBroadcast(w) ==
    /\ pc[w] = "broadcast" /\ Go(w, "loop")
    /\ UNCHANGED <<m_running, uriQue, list, fseq, url, seq, htmlContent, received, taken, late>>

(* pthread_cond_broadcast, after the mutex has been released. *)
broadcast(w) ==
    /\ pc[w] = "broadcast"
    /\ pc' = [v \in Workers |-> IF v = w THEN "loop"
                                ELSE IF pc[v] = "wait" THEN "fetchUrl" ELSE pc[v]]
    /\ UNCHANGED <<m_running, uriQue, list, fseq, url, seq, htmlContent, received, taken, late>>

Run(w) ==
    \/ Loop(w) \/ fetchUrl(w) \/ checkUrl(w) \/ getfileseq(w) \/ fetchHtmlPage(w)
    \/ saveUnvisitedUrl(w) \/ saveVisitedUrl(w) \/ parseHyperlinks(w) \/ broadcast(w)

Next == stop \/ \E w \in Workers : Run(w) \/ SpuriousWakeup(w)

(* The pthreads are scheduled. *)
Spec == Init /\ [][Next]_vars /\ \A w \in Workers : WF_vars(Run(w))

-----------------------------------------------------------------------------
TypeOK ==
    /\ m_running \in BOOLEAN
    /\ \A i \in DOMAIN uriQue : uriQue[i] \in Urls
    /\ \A n \in Names : list[n].pos <= Len(list[n].vector)
    /\ pc \in [Workers -> {"loop", "fetchUrl", "wait", "checkUrl", "getfileseq", "fetchHtmlPage",
                           "saveUnvisited", "saveVisited", "parse", "broadcast", "hung", "end"}]
    /\ url \in [Workers -> Urls] /\ seq \in [Workers -> 0 .. fseq] /\ fseq \in 0 .. taken
    /\ taken \in 0 .. MaxTaken /\ received \in 0 .. taken
    /\ late \in [Workers -> 0 .. MaxTaken]

Fetching == {"fetchHtmlPage", "saveVisited", "saveUnvisited", "parse", "hung"}

(* Two workers never write the same file, however they interleave. *)
FilesAreNotShared ==
    \A v, w \in Workers :
        v # w /\ {pc[v], pc[w]} \subseteq Fetching => seq[v] # seq[w]

(* visited.url names a page once for every time it was received: neither the flush of
   checkUrl nor the saves of two workers lose or repeat a line. *)
VisitedFileIsExact ==
    received = Len(list["visited"].file) + Cardinality({w \in Workers : pc[w] = "saveVisited"})

(* After stop() a worker takes at most one more link. *)
StopIsPrompt == \A w \in Workers : late[w] <= 1

(* What the workers of a crawl keep, with their type. *)
CrawlInv == TypeOK /\ FilesAreNotShared /\ VisitedFileIsExact /\ StopIsPrompt

(* No link is left in the queue while a worker could take it: the wake-up is never lost,
   and when one worker hangs in a page the other goes on. *)
LinksAreTaken ==
    uriQue # <<>> ~> \/ uriQue = <<>> \/ ~m_running \/ taken = MaxTaken
                     \/ \A w \in Workers : pc[w] = "hung"
=============================================================================
