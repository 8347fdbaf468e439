-------------------------- MODULE PageAnswerProofs --------------------------
(***************************************************************************)
(* That the first repository answers, the header describes the body,       *)
(* answers follow each other, buffers are freed once and pages deleted     *)
(* once, whatever the pages do, for any repositories, pages and workers.   *)
(***************************************************************************)
EXTENDS PageAnswer, TLAPS

(***************************************************************************)
(* The inductive invariant                                                 *)
(***************************************************************************)
BufferRecord == [heap : BOOLEAN, content : Contents, freed : Nat]

\* An answer, as the client gets it.
Answers ==
    [code : {0, 200, 204, 404, 500}, zipped : BOOLEAN, keepAlive : BOOLEAN,
     content : Contents \cup {NoContent}, sent : Nat]

TypeInv == TypeOK /\ wire \in [Workers -> Answers]

\* The entries of the index are of pages that live, each at its own url.
IndexInv ==
    /\ \A p \in Pages : deleted[p] <= 1
    /\ \A u \in Urls :
         /\ indexMap[u].owned => indexMap[u].page # NoPage
         /\ indexMap[u].page # NoPage => At[indexMap[u].page] = u /\ deleted[indexMap[u].page] = 0

\* While the search goes on, all there may be is what a page set before it
\* forwarded or refused, and the last of that is the response's.
SearchInv(w) ==
    pc[w] \in {"search", "page", "read"} =>
      /\ urlBuffer[w] \in Urls
      /\ response[w].forward = NoUrl /\ ~response[w].zipped /\ response[w].code \in {0, 200}
      /\ response[w].buffer = Len(buffers[w])
      /\ \A b \in 1..Len(buffers[w]) :
           buffers[w][b].heap /\ buffers[w][b].freed = 0 /\ ~buffers[w][b].content.zipped
      /\ response[w].buffer # 0 =>
           /\ response[w].code = 200 /\ response[w].length > 0
           /\ buffers[w][response[w].buffer].content.length = response[w].length
      /\ pc[w] = "page" =>
           page[w] \in Pages /\ repo[w] \in 1..Len(Repos) /\ Repos[repo[w]] = "dynamic"
      /\ pc[w] = "read" => repo[w] \in 1..Len(Repos) /\ Repos[repo[w]] = "local"

\* What was found is the last buffer, of the program if it is precompiled.
FoundInv(w) ==
    pc[w] = "found" =>
      /\ Found(w) \in 1..Len(Repos)
      /\ response[w].buffer \in {0, Len(buffers[w])}
      /\ \A b \in 1..Len(buffers[w]) :
           /\ buffers[w][b].freed = 0
           /\ buffers[w][b].heap = ~(b = response[w].buffer /\ Repos[Found(w)] = "precompiled")
      /\ ~Nothing(w) =>
           /\ response[w].code = 200
           /\ buffers[w][response[w].buffer].content.length = response[w].length
           /\ buffers[w][response[w].buffer].content.zipped = response[w].zipped

FreedAtMostOnce(bs) == \A b \in 1..Len(bs) : bs[b].freed <= (IF bs[b].heap THEN 1 ELSE 0)

\* From the response's buffer on, everything is freed.
FreedFrom(bs, own) == \A b \in 1..Len(bs) : bs[b].heap /\ own \in 1..b => bs[b].freed = 1

\* What is sent is there, and as the header says; and what is released at the
\* end is everything that was not freed before.
Ready(w) ==
    /\ response[w].code = 200
    /\ ToSend(w) \in 1..Len(buffers[w])
    /\ buffers[w][ToSend(w)].freed = 0
    /\ buffers[w][ToSend(w)].content.zipped = SendsZipped(w)
    /\ buffers[w][ToSend(w)].content.length > 0
    /\ Released(w) \in Seq(BufferRecord) /\ Len(Released(w)) = Len(buffers[w])
    /\ FreedAtMostOnce(Released(w))
    /\ FreedFrom(Released(w), response[w].buffer)

ReadyInv(w) == pc[w] \in {"header", "body", "free"} => Ready(w)

\* The buffers of a worker that is between requests, or done.
BufferInv(w) ==
    /\ FreedAtMostOnce(buffers[w])
    /\ pc[w] \in {"idle", "closed"} => FreedFrom(buffers[w], response[w].buffer)

\* What the client has of the answer, and what the header promised.
WireInv(w) ==
    /\ inTurn[w]
    /\ pc[w] = "idle" => wire[w] = NoAnswer \/ (Whole(wire[w]) /\ wire[w].keepAlive)
    /\ pc[w] \in {"search", "page", "read", "found", "header"} => wire[w] = NoAnswer
    /\ pc[w] \in {"header", "body"} => (keepAlive[w] => ~closing[w])
    /\ pc[w] \in {"body", "free"} => wire[w].keepAlive = keepAlive[w]
    /\ pc[w] = "body" => left[w] > 0 /\ wire[w].sent + left[w] = wire[w].content.length
    /\ pc[w] = "free" =>
         \/ Whole(wire[w]) /\ (keepAlive[w] => ~closing[w])
         \/ ~Whole(wire[w]) /\ closing[w]
    /\ pc[w] = "closed" /\ Whole(wire[w]) => ~wire[w].keepAlive

\* HeaderMatchesBody, of one worker.
HeaderInv(w) ==
    /\ wire[w].zipped = wire[w].content.zipped
    /\ wire[w].zipped => compression[w] = "GZIP"
    /\ wire[w].content.length > 0 => wire[w].code = 200

\* A request that may keep the connection is within the number of them.
CountInv(w) ==
    /\ pc[w] \in {"idle", "search", "page", "read", "found"} => nbFileKeepAlive[w] > 0
    /\ pc[w] \in {"header", "body", "free"} /\ keepAlive[w] => nbFileKeepAlive[w] > 0

WorkerInv(w) ==
    /\ SearchInv(w) /\ FoundInv(w) /\ ReadyInv(w) /\ BufferInv(w)
    /\ WireInv(w) /\ HeaderInv(w) /\ CountInv(w)

IInv ==
    /\ TypeInv /\ IndexInv
    /\ \A w \in Workers : WorkerInv(w)
    /\ FirstRepository

(***************************************************************************)
(* The buffers of a request                                                *)
(***************************************************************************)
LEMMA ContentTyped ==
    ASSUME NEW kind \in {"page", "file", "precompiled"}, NEW name \in Pages \cup Urls,
           NEW version \in 0..ChangeMax, NEW zipped \in BOOLEAN, NEW length \in 0..LengthMax
    PROVE  Content(kind, name, version, zipped, length) \in Contents
BY DEF Content, Contents

LEMMA BufferTyped ==
    ASSUME NEW heap \in BOOLEAN, NEW content \in Contents
    PROVE  /\ Buffer(heap, content) \in BufferRecord
           /\ Buffer(heap, content).heap = heap
           /\ Buffer(heap, content).content = content
           /\ Buffer(heap, content).freed = 0
BY DEF Buffer, BufferRecord

LEMMA AppendedBuffer ==
    ASSUME NEW bs \in Seq(BufferRecord), NEW r \in BufferRecord
    PROVE  /\ Append(bs, r) \in Seq(BufferRecord)
           /\ Len(Append(bs, r)) = Len(bs) + 1
           /\ Append(bs, r)[Len(bs) + 1] = r
           /\ \A b \in 1..Len(bs) : Append(bs, r)[b] = bs[b]
OBVIOUS

LEMMA FreedTyped ==
    ASSUME NEW bs \in Seq(BufferRecord), NEW b \in 1..Len(bs)
    PROVE  /\ Freed(bs, b) \in Seq(BufferRecord)
           /\ Len(Freed(bs, b)) = Len(bs)
           /\ \A i \in 1..Len(bs) :
                /\ Freed(bs, b)[i].heap = bs[i].heap
                /\ Freed(bs, b)[i].content = bs[i].content
                /\ Freed(bs, b)[i].freed = IF i = b THEN bs[i].freed + 1 ELSE bs[i].freed
<1> DEFINE r == [bs[b] EXCEPT !.freed = @ + 1]
<1>1. bs[b] \in BufferRecord
  OBVIOUS
<1>2. r \in BufferRecord
  BY SMTT(60), <1>1 DEF BufferRecord
<1>3. r.heap = bs[b].heap /\ r.content = bs[b].content /\ r.freed = bs[b].freed + 1
  BY <1>1 DEF BufferRecord
<1>4. Freed(bs, b) = [bs EXCEPT ![b] = r]
  BY DEF Freed
<1> HIDE DEF r
<1>5. Freed(bs, b) \in Seq(BufferRecord) /\ Len(Freed(bs, b)) = Len(bs)
  BY <1>2, <1>4
<1>6. \A i \in 1..Len(bs) : Freed(bs, b)[i] = IF i = b THEN r ELSE bs[i]
  BY <1>4
<1> QED
  BY <1>3, <1>5, <1>6

LEMMA FreeFileTyped ==
    ASSUME NEW bs \in Seq(BufferRecord), NEW b \in 1..Len(bs), NEW r \in 1..Len(Repos)
    PROVE  /\ FreeFile(r, bs, b) \in Seq(BufferRecord)
           /\ Len(FreeFile(r, bs, b)) = Len(bs)
           /\ \A i \in 1..Len(bs) :
                /\ FreeFile(r, bs, b)[i].heap = bs[i].heap
                /\ FreeFile(r, bs, b)[i].content = bs[i].content
                /\ FreeFile(r, bs, b)[i].freed =
                     IF i = b /\ Repos[r] # "precompiled" THEN bs[i].freed + 1 ELSE bs[i].freed
BY FreedTyped DEF FreeFile

(***************************************************************************)
(* What a step leaves alone                                                *)
(***************************************************************************)
Untouched(v) ==
    /\ pc[v]' = pc[v] /\ compression[v]' = compression[v] /\ keepAlive[v]' = keepAlive[v]
    /\ nbFileKeepAlive[v]' = nbFileKeepAlive[v] /\ closing[v]' = closing[v]
    /\ urlBuffer[v]' = urlBuffer[v] /\ mime[v]' = mime[v] /\ repo[v]' = repo[v]
    /\ response[v]' = response[v] /\ page[v]' = page[v]
    /\ webpage[v]' = webpage[v] /\ gzipWebPage[v]' = gzipWebPage[v] /\ sizeZip[v]' = sizeZip[v]
    /\ left[v]' = left[v] /\ buffers[v]' = buffers[v] /\ wire[v]' = wire[v] /\ inTurn[v]' = inTurn[v]

LEMMA WorkerKept ==
    ASSUME NEW v \in Workers, WorkerInv(v), Untouched(v)
    PROVE  WorkerInv(v)'
<1> USE DEF Untouched
<1>1. SearchInv(v)'
  BY DEF WorkerInv, SearchInv
<1>2. FoundInv(v)'
  BY DEF WorkerInv, FoundInv, Found, Nothing
<1>3. ReadyInv(v)'
  <2>1. /\ ToSend(v)' = ToSend(v) /\ SendsZipped(v)' = SendsZipped(v)
        /\ Released(v)' = Released(v)
    BY DEF ToSend, SendsZipped, Released, NeedsUnzip, Found
  <2> QED
    BY <2>1 DEF WorkerInv, ReadyInv, Ready
<1>4. BufferInv(v)'
  BY DEF WorkerInv, BufferInv, FreedAtMostOnce, FreedFrom
<1>5. WireInv(v)'
  BY DEF WorkerInv, WireInv
<1>6. HeaderInv(v)' /\ CountInv(v)'
  BY DEF WorkerInv, HeaderInv, CountInv
<1> QED
  BY <1>1, <1>2, <1>3, <1>4, <1>5, <1>6 DEF WorkerInv

\* The types of what only workers change, and of the rest.
WorkerTypes ==
    /\ pc \in [Workers -> PCs]
    /\ compression \in [Workers -> {"NONE", "GZIP"}]
    /\ keepAlive \in [Workers -> BOOLEAN] /\ closing \in [Workers -> BOOLEAN]
    /\ nbFileKeepAlive \in [Workers -> 0..KeepAliveMax]
    /\ urlBuffer \in [Workers -> Urls \cup {NoUrl}] /\ mime \in [Workers -> Urls \cup {NoUrl}]
    /\ repo \in [Workers -> 1..(Len(Repos) + 1)]
    /\ response \in [Workers -> Responses]
    /\ page \in [Workers -> Pages \cup {NoPage}]
    /\ opened \in [Workers -> Lengths]
    /\ buffers \in [Workers -> Seq(BufferRecord)]
    /\ webpage \in [Workers -> Nat] /\ gzipWebPage \in [Workers -> Nat]
    /\ \A w \in Workers : {response[w].buffer, webpage[w], gzipWebPage[w]} \subseteq 0..Len(buffers[w])
    /\ sizeZip \in [Workers -> 0..(LengthMax + 1)] /\ left \in [Workers -> 0..LengthMax]
    /\ inTurn \in [Workers -> BOOLEAN] /\ wire \in [Workers -> Answers]

AppTypes ==
    /\ indexMap \in [Urls -> [page : Pages \cup {NoPage}, owned : BOOLEAN]]
    /\ deleted \in [Pages -> Nat]
    /\ filenamesSet \subseteq Urls
    /\ file \in [Urls -> [length : Lengths \cup {Absent}, version : 0..ChangeMax]]
    /\ repository \in BOOLEAN
    /\ excuse \in [Workers -> BOOLEAN]

LEMMA TypesSplit == TypeInv <=> WorkerTypes /\ AppTypes
BY DEF TypeInv, TypeOK, WorkerTypes, AppTypes, BufferRecord

(***************************************************************************)
(* The steps of the application                                            *)
(***************************************************************************)
LEMMA AppStepKept ==
    ASSUME TypeInv, AppStep
    PROVE  WorkerTypes' /\ \A v \in Workers : Untouched(v)
<1>1. CASE WorkerUnchanged
  <2>1. \A v \in Workers : Untouched(v)
    BY <1>1 DEF WorkerUnchanged, Untouched, requestVars, contentVars, answerVars
  <2>2. WorkerTypes'
    BY <1>1, TypesSplit DEF WorkerUnchanged, WorkerTypes, requestVars, contentVars, answerVars
  <2> QED
    BY <2>1, <2>2
<1> QED
  BY <1>1 DEF AppStep, Add, Remove, ChangeFile, Reload, Destroy

LEMMA DeletedTyped ==
    ASSUME NEW f \in [Pages -> Nat], NEW p
    PROVE  [f EXCEPT ![p] = @ + 1] \in [Pages -> Nat]
<1>1. CASE p \in Pages
  <2>1. f[p] + 1 \in Nat
    BY <1>1
  <2> QED
    BY <1>1, <2>1
<1>2. CASE p \notin Pages
  BY <1>2
<1> QED
  BY <1>1, <1>2

LEMMA AppTypesStep ==
    ASSUME TypeInv, IndexInv, AppStep
    PROVE  AppTypes'
<1> USE PageAssumption DEF TypeInv, TypeOK, AppTypes
<1>1. CASE \E p \in Pages, owned \in BOOLEAN : Add(p, owned)
  <2> PICK p \in Pages, owned \in BOOLEAN : Add(p, owned)
    BY <1>1
  <2>1. At[p] \in Urls
    OBVIOUS
  <2>2. indexMap' \in [Urls -> [page : Pages \cup {NoPage}, owned : BOOLEAN]]
    BY <2>1 DEF Add
  <2>3. deleted' \in [Pages -> Nat]
    <3> DEFINE q == indexMap[At[p]].page
    <3>1. deleted' = deleted \/ deleted' = [deleted EXCEPT ![q] = @ + 1]
      BY DEF Add, Delete
    <3>2. [deleted EXCEPT ![q] = @ + 1] \in [Pages -> Nat]
      BY DeletedTyped
    <3> HIDE DEF q
    <3> QED
      BY <3>1, <3>2
  <2>4. /\ filenamesSet' = filenamesSet /\ file' = file /\ repository' = repository
        /\ excuse' \in [Workers -> BOOLEAN]
    BY DEF Add, Excused
  <2> QED
    BY <2>2, <2>3, <2>4
<1>2. CASE \E u \in Urls, deleteDynamicPage \in BOOLEAN : Remove(u, deleteDynamicPage)
  <2> PICK u \in Urls, d \in BOOLEAN : Remove(u, d)
    BY <1>2
  <2>1. indexMap' \in [Urls -> [page : Pages \cup {NoPage}, owned : BOOLEAN]]
    BY DEF Remove, Erase, NoEntry
  <2>2. deleted' \in [Pages -> Nat]
    <3> DEFINE q == indexMap[u].page
    <3>1. deleted' = deleted \/ deleted' = [deleted EXCEPT ![q] = @ + 1]
      BY DEF Remove, Delete
    <3>2. [deleted EXCEPT ![q] = @ + 1] \in [Pages -> Nat]
      BY DeletedTyped
    <3> HIDE DEF q
    <3> QED
      BY <3>1, <3>2
  <2>3. /\ filenamesSet' = filenamesSet /\ file' = file /\ repository' = repository
        /\ excuse' \in [Workers -> BOOLEAN]
    BY DEF Remove, Excused
  <2> QED
    BY <2>1, <2>2, <2>3
<1>3. CASE \E u \in Urls, n \in Lengths \cup {Absent} : ChangeFile(u, n)
  <2> PICK u \in Urls, n \in Lengths \cup {Absent} : ChangeFile(u, n)
    BY <1>3
  <2>1. file' \in [Urls -> [length : Lengths \cup {Absent}, version : 0..ChangeMax]]
    <3>1. file[u].version \in 0..ChangeMax /\ file[u].version + 1 \in 0..ChangeMax
      BY DEF ChangeFile
    <3> QED
      BY <3>1 DEF ChangeFile
  <2> QED
    BY <2>1 DEF ChangeFile, Excused
<1>4. CASE Reload
  BY <1>4 DEF Reload, OnDisk, Excused
<1>5. CASE Destroy
  <2>1. indexMap' \in [Urls -> [page : Pages \cup {NoPage}, owned : BOOLEAN]]
    BY <1>5 DEF Destroy, NoEntry
  <2>2. deleted' \in [Pages -> Nat]
    BY <1>5 DEF Destroy
  <2> QED
    BY <1>5, <2>1, <2>2 DEF Destroy
<1> QED
  BY <1>1, <1>2, <1>3, <1>4, <1>5 DEF AppStep

\* An entry is replaced, erased or dropped with the others, and its page deleted
\* if it was owned: nobody else has it.
LEMMA AppIndex ==
    ASSUME TypeInv, IndexInv, AppStep
    PROVE  IndexInv'
<1> USE PageAssumption DEF TypeInv, TypeOK, IndexInv
<1>1. CASE \E p \in Pages, owned \in BOOLEAN : Add(p, owned)
  <2> PICK p \in Pages, owned \in BOOLEAN : Add(p, owned)
    BY <1>1
  <2>1. At[p] \in Urls /\ indexMap' = [indexMap EXCEPT ![At[p]] = [page |-> p, owned |-> owned]]
    BY DEF Add
  <2>2. \A u \in Urls \ {At[p]} : indexMap'[u] = indexMap[u] /\ indexMap[u].page # p
    BY <2>1 DEF Add, InIndex
  <2>3. indexMap'[At[p]].page = p /\ indexMap'[At[p]].owned = owned /\ indexMap[At[p]].page # p
    BY <2>1 DEF Add, InIndex
  <2>4. CASE ~indexMap[At[p]].owned
    BY <2>1, <2>2, <2>3, <2>4 DEF Add
  <2>5. CASE indexMap[At[p]].owned
    <3>1. indexMap[At[p]].page \in Pages
      BY <2>1, <2>5
    <3> DEFINE q == indexMap[At[p]].page
    <3>2. deleted' = [deleted EXCEPT ![q] = @ + 1] /\ deleted[q] = 0 /\ At[q] = At[p] /\ q # p
      BY <2>1, <2>3, <2>5 DEF Add, Delete
    <3>3. deleted[p] = 0
      BY DEF Add
    <3> HIDE DEF q
    <3>4. \A x \in Pages : deleted'[x] <= 1
      BY <3>1, <3>2 DEF q
    <3>5. \A u \in Urls \ {At[p]} : indexMap[u].page # NoPage => deleted'[indexMap[u].page] = 0
      BY <3>1, <3>2 DEF q
    <3> QED
      BY <2>1, <2>2, <2>3, <3>2, <3>3, <3>4, <3>5
  <2> QED
    BY <2>4, <2>5
<1>2. CASE \E u \in Urls, deleteDynamicPage \in BOOLEAN : Remove(u, deleteDynamicPage)
  <2> PICK u \in Urls, d \in BOOLEAN : Remove(u, d)
    BY <1>2
  <2>1. indexMap' = [indexMap EXCEPT ![u] = NoEntry] /\ indexMap[u].page \in Pages
    BY DEF Remove, Erase
  <2>2. \A x \in Urls \ {u} : indexMap'[x] = indexMap[x]
    BY <2>1
  <2>3. indexMap'[u].page = NoPage /\ ~indexMap'[u].owned
    BY <2>1 DEF NoEntry
  <2>4. CASE deleted' = deleted
    BY SMTT(60), <2>1, <2>2, <2>3, <2>4
  <2>5. CASE deleted' = [deleted EXCEPT ![indexMap[u].page] = @ + 1]
    <3>1. deleted[indexMap[u].page] = 0
      BY <2>1
    <3>2. \A x \in Pages : deleted'[x] <= 1
      <4> DEFINE q == indexMap[u].page
      <4>1. q \in Pages /\ deleted' = [deleted EXCEPT ![q] = @ + 1] /\ deleted[q] = 0
        BY <2>1, <2>5, <3>1
      <4> HIDE DEF q
      <4> QED
        BY <4>1
    <3>3. \A x \in Urls \ {u} : indexMap[x].page # NoPage => deleted'[indexMap[x].page] = 0
      BY <2>1, <2>5
    <3> QED
      BY SMTT(60), <2>1, <2>2, <2>3, <3>2, <3>3
  <2> QED
    BY <2>4, <2>5 DEF Remove, Delete
<1>3. CASE UNCHANGED <<indexMap, deleted>>
  BY <1>3
<1>4. CASE Destroy
  <2>1. \A u \in Urls : indexMap'[u].page = NoPage /\ ~indexMap'[u].owned
    BY <1>4 DEF Destroy, NoEntry
  <2>2. \A p \in Pages : deleted'[p] <= 1
    <3> SUFFICES ASSUME NEW p \in Pages PROVE deleted'[p] <= 1
      OBVIOUS
    <3>1. CASE \E u \in Urls : indexMap[u] = [page |-> p, owned |-> TRUE]
      <4>1. deleted[p] = 0
        <5> PICK u \in Urls : indexMap[u] = [page |-> p, owned |-> TRUE]
          BY <3>1
        <5>1. indexMap[u].page = p
          OBVIOUS
        <5> QED
          BY ZenonT(60), <5>1
      <4> QED
        BY <1>4, <4>1 DEF Destroy
    <3>2. CASE ~\E u \in Urls : indexMap[u] = [page |-> p, owned |-> TRUE]
      BY <1>4, <3>2 DEF Destroy
    <3> QED
      BY <3>1, <3>2
  <2> QED
    BY <2>1, <2>2
<1> QED
  BY <1>1, <1>2, <1>3, <1>4 DEF AppStep, ChangeFile, Reload

\* No request is passed on while the application changes a repository, but with
\* an excuse; and the repositories go when no worker searches.
LEMMA AppFirst ==
    ASSUME TypeInv, FirstRepository, AppStep
    PROVE  FirstRepository'
<1>1. CASE Excused
  BY <1>1 DEF Excused, FirstRepository
<1>2. CASE Destroy
  BY <1>2 DEF Destroy, WorkerUnchanged, FirstRepository
<1> QED
  BY <1>1, <1>2 DEF AppStep, Add, Remove, ChangeFile, Reload

(***************************************************************************)
(* The search                                                              *)
(***************************************************************************)
\* The rest of the state: the other workers are as they were.
Alone(w) == \A v \in Workers \ {w} : Untouched(v)

LEMMA ResponseTyped ==
    ASSUME NEW r \in Responses, NEW b \in Nat, NEW n \in Lengths
    PROVE  /\ SetContent(r, b, n) \in Responses
           /\ SetContent(r, b, n).buffer = b /\ SetContent(r, b, n).length = n
           /\ SetContent(r, b, n).zipped = r.zipped /\ SetContent(r, b, n).forward = r.forward
           /\ SetContent(r, b, n).code =
                IF r.code # 0 THEN r.code ELSE IF n > 0 THEN 200 ELSE 204
<1> DEFINE code == IF r.code # 0 THEN r.code ELSE IF n > 0 THEN 200 ELSE 204
<1>1. code \in {0, 200, 204}
  BY DEF Responses
<1>2. SetContent(r, b, n) = [r EXCEPT !.buffer = b, !.length = n, !.code = code]
  BY DEF SetContent, Responses
<1> HIDE DEF code
<1>3. SetContent(r, b, n) = [buffer |-> b, length |-> n, zipped |-> r.zipped,
                             forward |-> r.forward, code |-> code]
  <2>1. r = [buffer |-> r.buffer, length |-> r.length, zipped |-> r.zipped,
             forward |-> r.forward, code |-> r.code]
    BY DEF Responses
  <2> DEFINE z == r.zipped
             f == r.forward
             x == r.buffer
             y == r.length
             c == r.code
  <2> HIDE DEF z, f, x, y, c
  <2>2. r = [buffer |-> x, length |-> y, zipped |-> z, forward |-> f, code |-> c]
    BY <2>1 DEF z, f, x, y, c
  <2>3. SetContent(r, b, n) = [buffer |-> b, length |-> n, zipped |-> z, forward |-> f, code |-> code]
    BY <1>2, <2>2
  <2> QED
    BY <2>3 DEF z, f
<1>4. r.zipped \in BOOLEAN /\ r.forward \in Urls \cup {NoUrl}
  BY DEF Responses
<1>5. SetContent(r, b, n) \in Responses
  BY <1>1, <1>3, <1>4 DEF Responses
<1> QED
  BY <1>3, <1>5 DEF code

\* What the search for a page comes to: it ends, goes on or starts again.
SearchTypes ==
    /\ pc \in [Workers -> PCs] /\ repo \in [Workers -> 1..(Len(Repos) + 1)]
    /\ urlBuffer \in [Workers -> Urls \cup {NoUrl}] /\ response \in [Workers -> Responses]

OthersSearch(w) ==
    \A v \in Workers \ {w} :
      /\ pc'[v] = pc[v] /\ repo'[v] = repo[v]
      /\ urlBuffer'[v] = urlBuffer[v] /\ response'[v] = response[v]

LEMMA Missed ==
    ASSUME SearchTypes, Repos \in Seq({"dynamic", "local", "precompiled"}),
           NEW w \in Workers, NEW r \in Responses,
           repo[w] \in 1..Len(Repos), Returned(w, FALSE, r)
    PROVE  /\ SearchTypes' /\ OthersSearch(w)
           /\ pc'[w] = "search" /\ repo'[w] = repo[w] + 1
           /\ urlBuffer'[w] = urlBuffer[w] /\ response'[w] = r
<1>1. /\ response' = [response EXCEPT ![w] = r]
      /\ urlBuffer' = [urlBuffer EXCEPT ![w] = urlBuffer[w]]
      /\ repo' = [repo EXCEPT ![w] = repo[w] + 1] /\ pc' = [pc EXCEPT ![w] = "search"]
  BY DEF Returned, Advance
<1> QED
  BY <1>1 DEF SearchTypes, OthersSearch, PCs

LEMMA Hit ==
    ASSUME SearchTypes, Repos \in Seq({"dynamic", "local", "precompiled"}),
           NEW w \in Workers, NEW r \in Responses,
           repo[w] \in 1..Len(Repos), Returned(w, TRUE, r)
    PROVE  /\ SearchTypes' /\ OthersSearch(w)
           /\ r.forward # NoUrl =>
                /\ pc'[w] = "search" /\ repo'[w] = 1
                /\ urlBuffer'[w] = r.forward /\ urlBuffer'[w] \in Urls
                /\ response'[w] = [r EXCEPT !.forward = NoUrl]
           /\ r.forward = NoUrl =>
                /\ pc'[w] = "found" /\ repo'[w] = repo[w] + 1
                /\ urlBuffer'[w] = urlBuffer[w] /\ response'[w] = r
<1>1. CASE r.forward # NoUrl
  <2>1. r.forward \in Urls /\ [r EXCEPT !.forward = NoUrl] \in Responses
    BY <1>1 DEF Responses
  <2>2. /\ response' = [response EXCEPT ![w] = [r EXCEPT !.forward = NoUrl]]
        /\ urlBuffer' = [urlBuffer EXCEPT ![w] = r.forward]
        /\ repo' = [repo EXCEPT ![w] = 1] /\ pc' = [pc EXCEPT ![w] = "search"]
    BY <1>1 DEF Returned, Restart
  <2> QED
    BY <1>1, <2>1, <2>2 DEF SearchTypes, OthersSearch, PCs
<1>2. CASE r.forward = NoUrl
  <2>1. /\ response' = [response EXCEPT ![w] = r]
        /\ urlBuffer' = [urlBuffer EXCEPT ![w] = urlBuffer[w]]
        /\ repo' = [repo EXCEPT ![w] = repo[w] + 1] /\ pc' = [pc EXCEPT ![w] = "found"]
    BY <1>2 DEF Returned, Advance
  <2> QED
    BY <1>2, <2>1 DEF SearchTypes, OthersSearch, PCs
<1> QED
  BY <1>1, <1>2

\* What a search step hands on as it is: nothing has been sent yet, and no
\* request counted.
LEMMA SearchQuiet ==
    ASSUME NEW w \in Workers, WorkerInv(w), pc[w] \in {"search", "page", "read"},
           pc'[w] \in {"search", "page", "read", "found"},
           UNCHANGED <<requestVars, contentVars, answerVars>>
    PROVE  ReadyInv(w)' /\ WireInv(w)' /\ HeaderInv(w)' /\ CountInv(w)'
<1>1. ReadyInv(w)'
  BY DEF ReadyInv
<1>2. WireInv(w)'
  BY DEF WorkerInv, WireInv, answerVars
<1>3. HeaderInv(w)' /\ CountInv(w)'
  BY DEF WorkerInv, HeaderInv, CountInv, answerVars, requestVars
<1> QED
  BY <1>1, <1>2, <1>3

LEMMA RequestStep ==
    ASSUME WorkerTypes, NEW w \in Workers, WorkerInv(w), Request(w)
    PROVE  WorkerTypes' /\ Alone(w) /\ WorkerInv(w)'
<1> USE PageAssumption DEF Request, WorkerTypes, appVars
<1>1. NoResponse \in Responses /\ NoAnswer \in Answers
  BY DEF NoResponse, Responses, Lengths, NoAnswer, Answer, Answers
<1>2. <<>> \in Seq(BufferRecord) /\ Len(<<>>) = 0
  OBVIOUS
<1>3. /\ urlBuffer'[w] \in Urls /\ response'[w] = NoResponse /\ buffers'[w] = <<>> /\ pc'[w] = "search"
      /\ wire'[w] = NoAnswer /\ inTurn'[w] /\ nbFileKeepAlive'[w] = nbFileKeepAlive[w]
  <2>1. inTurn'[w]
    BY DEF WorkerInv, WireInv
  <2> QED
    BY <2>1
<1>4. WorkerTypes'
  <2>1. /\ urlBuffer' \in [Workers -> Urls \cup {NoUrl}] /\ mime' \in [Workers -> Urls \cup {NoUrl}]
        /\ compression' \in [Workers -> {"NONE", "GZIP"}] /\ keepAlive' \in [Workers -> BOOLEAN]
    BY SMTT(60)
  <2>2. /\ repo' \in [Workers -> 1..(Len(Repos) + 1)] /\ response' \in [Workers -> Responses]
        /\ pc' \in [Workers -> PCs] /\ wire' \in [Workers -> Answers]
        /\ buffers' \in [Workers -> Seq(BufferRecord)] /\ sizeZip' \in [Workers -> 0..(LengthMax + 1)]
    BY SMTT(60), <1>1, <1>2 DEF PCs
  <2>3. inTurn' \in [Workers -> BOOLEAN]
    OBVIOUS
  <2>4. \A v \in Workers : {response[v].buffer, webpage[v], gzipWebPage[v]}' \subseteq 0..Len(buffers[v])'
    <3> SUFFICES ASSUME NEW v \in Workers
                 PROVE  {response'[v].buffer, webpage'[v], gzipWebPage'[v]} \subseteq 0..Len(buffers'[v])
      OBVIOUS
    <3>1. CASE v = w
      <4>1. response'[w].buffer = 0 /\ webpage'[w] = 0 /\ gzipWebPage'[w] = 0 /\ Len(buffers'[w]) = 0
        <5>1. response'[w] = NoResponse /\ buffers'[w] = <<>>
          BY <1>3
        <5>2. webpage'[w] = 0 /\ gzipWebPage'[w] = 0
          OBVIOUS
        <5> QED
          BY <5>1, <5>2, <1>2 DEF NoResponse
      <4> QED
        BY SMTT(60), <3>1, <4>1
    <3>2. CASE v # w
      BY <3>2
    <3> QED
      BY <3>1, <3>2
  <2> QED
    BY <2>1, <2>2, <2>3, <2>4
<1>5. Alone(w)
  BY SMTT(60) DEF Alone, Untouched
<1>6. SearchInv(w)' /\ FoundInv(w)' /\ ReadyInv(w)' /\ BufferInv(w)'
  BY SMTT(60), <1>2, <1>3 DEF SearchInv, FoundInv, ReadyInv, BufferInv, FreedAtMostOnce, NoResponse
<1>7. WireInv(w)' /\ HeaderInv(w)' /\ CountInv(w)'
  BY <1>3 DEF WorkerInv, WireInv, HeaderInv, CountInv, NoAnswer, Answer, NoContent, Content
<1> QED
  BY <1>4, <1>5, <1>6, <1>7 DEF WorkerInv

\* A search step that only moves on.
LEMMA MissStep ==
    ASSUME WorkerTypes, NEW w \in Workers, WorkerInv(w),
           pc[w] \in {"search", "page", "read"}, repo[w] \in 1..Len(Repos),
           Returned(w, FALSE, response[w]),
           UNCHANGED <<requestVars, mime, opened, contentVars, answerVars, buffers>>,
           page' \in [Workers -> Pages \cup {NoPage}],
           \A v \in Workers \ {w} : page'[v] = page[v]
    PROVE  WorkerTypes' /\ Alone(w) /\ WorkerInv(w)'
<1>1. response[w] \in Responses /\ SearchTypes
  BY DEF WorkerTypes, SearchTypes
<1>2. /\ SearchTypes' /\ OthersSearch(w)
      /\ pc'[w] = "search" /\ repo'[w] = repo[w] + 1
      /\ urlBuffer'[w] = urlBuffer[w] /\ response'[w] = response[w]
  BY <1>1, Missed, PageAssumption
<1>3. WorkerTypes'
  <2>1. \A v \in Workers : response'[v] = response[v]
    BY <1>2 DEF OthersSearch
  <2>2. \A v \in Workers : {response[v].buffer, webpage[v], gzipWebPage[v]}' \subseteq 0..Len(buffers[v])'
    BY SMTT(60), <2>1 DEF WorkerTypes, contentVars
  <2> QED
    BY <1>2, <2>2 DEF SearchTypes, WorkerTypes, requestVars, contentVars, answerVars
<1>4. Alone(w)
  BY <1>2 DEF Alone, Untouched, OthersSearch, requestVars, contentVars, answerVars
<1>5. SearchInv(w)'
  BY <1>2 DEF WorkerInv, SearchInv
<1>6. FoundInv(w)' /\ BufferInv(w)'
  BY <1>2 DEF WorkerInv, FoundInv, BufferInv, FreedAtMostOnce
<1>7. ReadyInv(w)' /\ WireInv(w)' /\ HeaderInv(w)' /\ CountInv(w)'
  BY <1>2, SearchQuiet
<1> QED
  BY <1>3, <1>4, <1>5, <1>6, <1>7 DEF WorkerInv

\* A search step that comes back with a content of its own.
LEMMA HitStep ==
    ASSUME WorkerTypes, NEW w \in Workers, WorkerInv(w),
           pc[w] \in {"search", "page", "read"}, repo[w] \in 1..Len(Repos),
           NEW found \in BOOLEAN, NEW flagged \in Responses,
           NEW heap \in BOOLEAN, NEW content \in Contents,
           Allocate(w, heap, content),
           Returned(w, found, SetContent(flagged, NextBuffer(w), content.length)),
           flagged.code = response[w].code,
           flagged.zipped = content.zipped,
           ~found \/ flagged.forward # NoUrl => heap /\ ~content.zipped /\ content.length > 0,
           ~found => flagged.forward = NoUrl,
           found /\ flagged.forward = NoUrl => heap = (Repos[repo[w]] # "precompiled"),
           UNCHANGED <<requestVars, mime, opened, contentVars, answerVars>>,
           page' \in [Workers -> Pages \cup {NoPage}],
           \A v \in Workers \ {w} : page'[v] = page[v]
    PROVE  WorkerTypes' /\ Alone(w) /\ WorkerInv(w)'
<1> DEFINE bs == buffers[w]
           new == Buffer(heap, content)
           r == SetContent(flagged, NextBuffer(w), content.length)
<1>1. /\ bs \in Seq(BufferRecord) /\ Len(bs) \in Nat /\ new \in BufferRecord
      /\ new.heap = heap /\ new.content = content /\ new.freed = 0
  BY BufferTyped DEF WorkerTypes
<1>2. content.length \in Lengths /\ content.zipped \in BOOLEAN
  BY DEF Contents, Lengths
<1>3. /\ r \in Responses /\ r.buffer = Len(bs) + 1 /\ r.length = content.length
      /\ r.zipped = content.zipped /\ r.forward = flagged.forward
      /\ r.code = IF response[w].code # 0 THEN response[w].code
                  ELSE IF content.length > 0 THEN 200 ELSE 204
  <2>1. NextBuffer(w) = Len(bs) + 1 /\ NextBuffer(w) \in Nat
    BY <1>1 DEF NextBuffer
  <2>2. /\ r \in Responses /\ r.buffer = NextBuffer(w) /\ r.length = content.length
        /\ r.zipped = flagged.zipped /\ r.forward = flagged.forward
        /\ r.code = IF flagged.code # 0 THEN flagged.code
                    ELSE IF content.length > 0 THEN 200 ELSE 204
    <3> DEFINE b == NextBuffer(w)
               n == content.length
    <3>1. b \in Nat /\ n \in Lengths
      BY <1>2, <2>1
    <3> HIDE DEF b, n
    <3>2. /\ SetContent(flagged, b, n) \in Responses
          /\ SetContent(flagged, b, n).buffer = b /\ SetContent(flagged, b, n).length = n
          /\ SetContent(flagged, b, n).zipped = flagged.zipped
          /\ SetContent(flagged, b, n).forward = flagged.forward
          /\ SetContent(flagged, b, n).code =
               IF flagged.code # 0 THEN flagged.code ELSE IF n > 0 THEN 200 ELSE 204
      BY SMTT(60), <3>1, ResponseTyped
    <3> QED
      BY <3>2 DEF b, n
  <2> QED
    BY <2>1, <2>2
<1>4. /\ buffers' \in [Workers -> Seq(BufferRecord)]
      /\ \A v \in Workers \ {w} : buffers'[v] = buffers[v]
      /\ Len(buffers'[w]) = Len(bs) + 1 /\ buffers'[w][Len(bs) + 1] = new
      /\ \A b \in 1..Len(bs) : buffers'[w][b] = bs[b]
  <2>1. buffers' = [buffers EXCEPT ![w] = Append(bs, new)]
    BY DEF Allocate
  <2>2. Append(bs, new) \in Seq(BufferRecord)
    BY <1>1, AppendedBuffer
  <2>3. /\ Len(Append(bs, new)) = Len(bs) + 1 /\ Append(bs, new)[Len(bs) + 1] = new
        /\ \A b \in 1..Len(bs) : Append(bs, new)[b] = bs[b]
    BY <1>1, AppendedBuffer
  <2> HIDE DEF bs, new
  <2>4. buffers'[w] = Append(bs, new)
    BY <2>1 DEF WorkerTypes
  <2> QED
    BY <2>1, <2>2, <2>3, <2>4 DEF WorkerTypes
<1> HIDE DEF new, r
<1>5. /\ SearchTypes' /\ OthersSearch(w)
      /\ ~found => /\ pc'[w] = "search" /\ repo'[w] = repo[w] + 1
                   /\ urlBuffer'[w] = urlBuffer[w] /\ response'[w] = r
      /\ found /\ r.forward # NoUrl =>
           /\ pc'[w] = "search" /\ repo'[w] = 1
           /\ urlBuffer'[w] = r.forward /\ urlBuffer'[w] \in Urls
           /\ response'[w] = [r EXCEPT !.forward = NoUrl]
      /\ found /\ r.forward = NoUrl =>
           /\ pc'[w] = "found" /\ repo'[w] = repo[w] + 1
           /\ urlBuffer'[w] = urlBuffer[w] /\ response'[w] = r
  <2>1. Returned(w, found, r)
    BY DEF r
  <2>2. SearchTypes /\ r \in Responses /\ Repos \in Seq({"dynamic", "local", "precompiled"})
    BY <1>3, PageAssumption DEF WorkerTypes, SearchTypes
  <2>3. CASE found = TRUE
    <3>1. Returned(w, TRUE, r)
      BY <2>1, <2>3
    <3>2. /\ SearchTypes' /\ OthersSearch(w)
          /\ r.forward # NoUrl =>
               /\ pc'[w] = "search" /\ repo'[w] = 1
               /\ urlBuffer'[w] = r.forward /\ urlBuffer'[w] \in Urls
               /\ response'[w] = [r EXCEPT !.forward = NoUrl]
          /\ r.forward = NoUrl =>
               /\ pc'[w] = "found" /\ repo'[w] = repo[w] + 1
               /\ urlBuffer'[w] = urlBuffer[w] /\ response'[w] = r
      BY <2>2, <3>1, Hit
    <3> QED
      BY <2>3, <3>2
  <2>4. CASE found = FALSE
    <3>1. Returned(w, FALSE, r)
      BY <2>1, <2>4
    <3>2. /\ SearchTypes' /\ OthersSearch(w)
          /\ pc'[w] = "search" /\ repo'[w] = repo[w] + 1
          /\ urlBuffer'[w] = urlBuffer[w] /\ response'[w] = r
      BY <2>2, <3>1, Missed
    <3> QED
      BY <2>4, <3>2
  <2> QED
    BY <2>3, <2>4
<1>6. /\ response'[w].buffer = Len(bs) + 1 /\ response'[w].length = content.length
      /\ response'[w].zipped = content.zipped /\ response'[w].code = r.code
  BY <1>3, <1>5 DEF Responses
<1>7. WorkerTypes'
  <2>1. \A v \in Workers : {response[v].buffer, webpage[v], gzipWebPage[v]}' \subseteq 0..Len(buffers[v])'
    <3> SUFFICES ASSUME NEW v \in Workers
                 PROVE  {response'[v].buffer, webpage'[v], gzipWebPage'[v]} \subseteq 0..Len(buffers'[v])
      OBVIOUS
    <3>1. webpage'[v] = webpage[v] /\ gzipWebPage'[v] = gzipWebPage[v]
      BY DEF contentVars
    <3>2. CASE v = w
      <4>1. webpage[w] \in 0..Len(bs) /\ gzipWebPage[w] \in 0..Len(bs)
        BY DEF WorkerTypes
      <4> QED
        BY <1>1, <1>4, <1>6, <3>1, <3>2, <4>1
    <3>3. CASE v # w
      <4>1. {response[v].buffer, webpage[v], gzipWebPage[v]} \subseteq 0..Len(buffers[v])
        BY DEF WorkerTypes
      <4>2. response'[v] = response[v] /\ buffers'[v] = buffers[v]
        BY <1>4, <1>5, <3>3 DEF OthersSearch
      <4> QED
        BY <3>1, <4>1, <4>2
    <3> QED
      BY <3>2, <3>3
  <2> QED
    BY <1>4, <1>5, <2>1 DEF SearchTypes, WorkerTypes, requestVars, contentVars, answerVars
<1>8. Alone(w)
  BY <1>4, <1>5 DEF Alone, Untouched, OthersSearch, requestVars, contentVars, answerVars
<1>9. pc'[w] \in {"search", "found"}
  BY <1>5
<1>10. /\ urlBuffer[w] \in Urls /\ response[w].code \in {0, 200}
       /\ \A b \in 1..Len(bs) : bs[b].heap /\ bs[b].freed = 0 /\ ~bs[b].content.zipped
  BY DEF WorkerInv, SearchInv
<1>11. content.length > 0 => response'[w].code = 200
  BY <1>3, <1>6, <1>10
<1>12. SearchInv(w)'
  <2> SUFFICES ASSUME pc'[w] = "search"
               PROVE  SearchInv(w)'
    BY <1>9 DEF SearchInv
  <2>1. ~found \/ flagged.forward # NoUrl
    BY <1>3, <1>5
  <2>2. heap /\ ~content.zipped /\ content.length > 0
    BY <2>1
  <2>3. response'[w].forward = NoUrl
    BY <1>3, <1>5 DEF Responses
  <2>4. urlBuffer'[w] \in Urls
    BY <1>5, <1>10, <2>1, <1>3
  <2>5. \A b \in 1..Len(buffers'[w]) :
          buffers'[w][b].heap /\ buffers'[w][b].freed = 0 /\ ~buffers'[w][b].content.zipped
    <3> SUFFICES ASSUME NEW b \in 1..Len(buffers'[w])
                 PROVE  buffers'[w][b].heap /\ buffers'[w][b].freed = 0 /\ ~buffers'[w][b].content.zipped
      OBVIOUS
    <3>1. CASE b \in 1..Len(bs)
      <4>1. buffers'[w][b] = bs[b]
        BY <1>4, <3>1
      <4>2. bs[b].heap /\ bs[b].freed = 0 /\ ~bs[b].content.zipped
        BY <1>10, <3>1
      <4> QED
        BY <4>1, <4>2
    <3>2. CASE b = Len(bs) + 1
      BY <1>1, <1>4, <2>2, <3>2
    <3> QED
      BY <1>1, <1>4, <3>1, <3>2
  <2> QED
    BY SMTT(60), <1>1, <1>4, <1>6, <1>11, <2>2, <2>3, <2>4, <2>5 DEF SearchInv
<1>13. FoundInv(w)'
  <2> SUFFICES ASSUME pc'[w] = "found"
               PROVE  FoundInv(w)'
    BY DEF FoundInv
  <2>1. found /\ flagged.forward = NoUrl /\ repo'[w] = repo[w] + 1
    BY <1>3, <1>5
  <2>2. Found(w)' = repo[w] /\ heap = (Repos[repo[w]] # "precompiled")
    BY <2>1 DEF Found, WorkerTypes
  <2>3. \A b \in 1..Len(buffers'[w]) :
          /\ buffers'[w][b].freed = 0
          /\ buffers'[w][b].heap = ~(b = response'[w].buffer /\ Repos[Found(w)'] = "precompiled")
    <3> SUFFICES ASSUME NEW b \in 1..Len(buffers'[w])
                 PROVE  /\ buffers'[w][b].freed = 0
                        /\ buffers'[w][b].heap = ~(b = response'[w].buffer /\ Repos[Found(w)'] = "precompiled")
      OBVIOUS
    <3>1. CASE b \in 1..Len(bs)
      <4>1. buffers'[w][b] = bs[b]
        BY <1>4, <3>1
      <4>2. bs[b].heap /\ bs[b].freed = 0
        BY <1>10, <3>1
      <4>3. bs[b].heap = TRUE
        BY <1>1, <3>1, <4>2 DEF BufferRecord
      <4>4. b # response'[w].buffer
        BY <1>1, <1>6, <3>1
      <4> QED
        BY <4>1, <4>2, <4>3, <4>4
    <3>2. CASE b = Len(bs) + 1
      BY <1>1, <1>4, <1>6, <2>2, <3>2
    <3> QED
      BY <1>1, <1>4, <3>1, <3>2
  <2>4. ~Nothing(w)' =>
          /\ response'[w].code = 200
          /\ buffers'[w][response'[w].buffer].content.length = response'[w].length
          /\ buffers'[w][response'[w].buffer].content.zipped = response'[w].zipped
    BY <1>1, <1>2, <1>4, <1>6, <1>11 DEF Nothing, Lengths
  <2> QED
    BY <1>1, <1>4, <1>6, <2>2, <2>3, <2>4 DEF FoundInv
<1>14. BufferInv(w)'
  <2>1. FreedAtMostOnce(buffers'[w])
    BY SMTT(60), <1>1, <1>4, <1>10 DEF FreedAtMostOnce
  <2> QED
    BY <1>9, <2>1 DEF BufferInv
<1>15. ReadyInv(w)' /\ WireInv(w)' /\ HeaderInv(w)' /\ CountInv(w)'
  BY <1>9, SearchQuiet
<1> QED
  BY <1>7, <1>8, <1>12, <1>13, <1>14, <1>15 DEF WorkerInv

\* A content that is not one: noContent().
LEMMA NullStep ==
    ASSUME WorkerTypes, NEW w \in Workers, WorkerInv(w),
           pc[w] = "page", NEW flagged \in Responses,
           Returned(w, TRUE, SetContent(flagged, 0, 0)), flagged.forward = NoUrl,
           UNCHANGED <<requestVars, mime, opened, contentVars, answerVars, buffers>>,
           page' \in [Workers -> Pages \cup {NoPage}],
           \A v \in Workers \ {w} : page'[v] = page[v]
    PROVE  WorkerTypes' /\ Alone(w) /\ WorkerInv(w)'
<1> DEFINE r == SetContent(flagged, 0, 0)
<1>1. r \in Responses /\ r.buffer = 0 /\ r.length = 0 /\ r.forward = NoUrl
  <2>1. 0 \in Nat /\ 0 \in Lengths
    BY PageAssumption DEF Lengths
  <2> QED
    BY <2>1, ResponseTyped
<1>2. repo[w] \in 1..Len(Repos) /\ Repos[repo[w]] = "dynamic"
  BY DEF WorkerInv, SearchInv
<1>3. SearchTypes
  BY DEF WorkerTypes, SearchTypes
<1> HIDE DEF r
<1>4. /\ SearchTypes' /\ OthersSearch(w)
      /\ pc'[w] = "found" /\ repo'[w] = repo[w] + 1
      /\ urlBuffer'[w] = urlBuffer[w] /\ response'[w] = r
  <2>1. Returned(w, TRUE, r)
    BY DEF r
  <2> QED
    BY ZenonT(60), <1>1, <1>2, <1>3, <2>1, Hit, PageAssumption
<1>5. WorkerTypes'
  <2>1. \A v \in Workers : {response[v].buffer, webpage[v], gzipWebPage[v]}' \subseteq 0..Len(buffers[v])'
    <3> SUFFICES ASSUME NEW v \in Workers
                 PROVE  {response'[v].buffer, webpage'[v], gzipWebPage'[v]} \subseteq 0..Len(buffers'[v])
      OBVIOUS
    <3>1. {response[v].buffer, webpage[v], gzipWebPage[v]} \subseteq 0..Len(buffers[v])
      BY DEF WorkerTypes
    <3>2. response'[v].buffer \in {0, response[v].buffer}
      BY <1>1, <1>4 DEF OthersSearch
    <3> QED
      BY <3>1, <3>2 DEF contentVars
  <2> QED
    BY <1>4, <2>1 DEF SearchTypes, WorkerTypes, requestVars, contentVars, answerVars
<1>6. Alone(w)
  BY <1>4 DEF Alone, Untouched, OthersSearch, requestVars, contentVars, answerVars
<1>7. \A b \in 1..Len(buffers[w]) : buffers[w][b].heap = TRUE /\ buffers[w][b].freed = 0
  <2> SUFFICES ASSUME NEW b \in 1..Len(buffers[w])
               PROVE  buffers[w][b].heap = TRUE /\ buffers[w][b].freed = 0
    OBVIOUS
  <2>1. buffers[w][b] \in BufferRecord
    BY DEF WorkerTypes
  <2> QED
    BY <2>1 DEF WorkerInv, SearchInv, BufferRecord
<1>8. FoundInv(w)'
  <2>1. Found(w)' = repo[w]
    BY <1>2, <1>4 DEF Found
  <2> QED
    BY <1>1, <1>2, <1>4, <1>7, <2>1 DEF FoundInv, Nothing
<1>9. SearchInv(w)'
  BY <1>4 DEF SearchInv
<1>10. BufferInv(w)'
  BY <1>4, <1>7 DEF BufferInv, FreedAtMostOnce
<1>11. ReadyInv(w)' /\ WireInv(w)' /\ HeaderInv(w)' /\ CountInv(w)'
  BY <1>4, SearchQuiet
<1> QED
  BY <1>5, <1>6, <1>8, <1>9, <1>10, <1>11 DEF WorkerInv

\* A page that sets no content: it forwards, refuses, or what a page before it
\* set is what was found.
LEMMA UnsetStep ==
    ASSUME WorkerTypes, NEW w \in Workers, WorkerInv(w),
           pc[w] = "page", NEW found \in BOOLEAN, NEW flagged \in Responses,
           Returned(w, found, flagged),
           flagged.buffer = response[w].buffer, flagged.length = response[w].length,
           flagged.code = response[w].code, ~flagged.zipped,
           ~found => flagged.forward = NoUrl,
           UNCHANGED <<requestVars, mime, opened, contentVars, answerVars, buffers>>,
           page' \in [Workers -> Pages \cup {NoPage}],
           \A v \in Workers \ {w} : page'[v] = page[v]
    PROVE  WorkerTypes' /\ Alone(w) /\ WorkerInv(w)'
<1>1. /\ repo[w] \in 1..Len(Repos) /\ Repos[repo[w]] = "dynamic" /\ urlBuffer[w] \in Urls
      /\ response[w].code \in {0, 200} /\ response[w].buffer = Len(buffers[w])
  BY DEF WorkerInv, SearchInv
<1>2. SearchTypes
  BY DEF WorkerTypes, SearchTypes
<1>3. /\ SearchTypes' /\ OthersSearch(w)
      /\ ~found => /\ pc'[w] = "search" /\ repo'[w] = repo[w] + 1
                   /\ urlBuffer'[w] = urlBuffer[w] /\ response'[w] = flagged
      /\ found /\ flagged.forward # NoUrl =>
           /\ pc'[w] = "search" /\ repo'[w] = 1
           /\ urlBuffer'[w] = flagged.forward /\ urlBuffer'[w] \in Urls
           /\ response'[w] = [flagged EXCEPT !.forward = NoUrl]
      /\ found /\ flagged.forward = NoUrl =>
           /\ pc'[w] = "found" /\ repo'[w] = repo[w] + 1
           /\ urlBuffer'[w] = urlBuffer[w] /\ response'[w] = flagged
  <2>1. CASE found = TRUE
    <3>1. Returned(w, TRUE, flagged)
      BY <2>1
    <3> QED
      BY ZenonT(60), <1>1, <1>2, <2>1, <3>1, Hit, PageAssumption
  <2>2. CASE found = FALSE
    <3>1. Returned(w, FALSE, flagged)
      BY <2>2
    <3> QED
      BY ZenonT(60), <1>1, <1>2, <2>2, <3>1, Missed, PageAssumption
  <2> QED
    BY <2>1, <2>2
<1>4. /\ response'[w].buffer = response[w].buffer /\ response'[w].length = response[w].length
      /\ response'[w].code = response[w].code /\ response'[w].zipped = FALSE
      /\ response'[w].forward = NoUrl /\ urlBuffer'[w] \in Urls
      /\ pc'[w] \in {"search", "found"}
  BY <1>1, <1>3 DEF Responses
<1>5. WorkerTypes'
  <2>1. \A v \in Workers : {response[v].buffer, webpage[v], gzipWebPage[v]}' \subseteq 0..Len(buffers[v])'
    <3> SUFFICES ASSUME NEW v \in Workers
                 PROVE  {response'[v].buffer, webpage'[v], gzipWebPage'[v]} \subseteq 0..Len(buffers'[v])
      OBVIOUS
    <3>1. {response[v].buffer, webpage[v], gzipWebPage[v]} \subseteq 0..Len(buffers[v])
      BY DEF WorkerTypes
    <3>2. response'[v].buffer = response[v].buffer
      BY <1>4, <1>3 DEF OthersSearch
    <3> QED
      BY <3>1, <3>2 DEF contentVars
  <2> QED
    BY <1>3, <2>1 DEF SearchTypes, WorkerTypes, requestVars, contentVars, answerVars
<1>6. Alone(w)
  BY <1>3 DEF Alone, Untouched, OthersSearch, requestVars, contentVars, answerVars
<1>7. \A b \in 1..Len(buffers[w]) : buffers[w][b].heap = TRUE /\ buffers[w][b].freed = 0
                                      /\ buffers[w][b].content.zipped = FALSE
  <2> SUFFICES ASSUME NEW b \in 1..Len(buffers[w])
               PROVE  buffers[w][b].heap = TRUE /\ buffers[w][b].freed = 0
                        /\ buffers[w][b].content.zipped = FALSE
    OBVIOUS
  <2>1. buffers[w][b] \in BufferRecord
    BY DEF WorkerTypes
  <2> QED
    BY SMTT(60), <2>1 DEF WorkerInv, SearchInv, BufferRecord, Contents
<1>8. SearchInv(w)'
  BY <1>3, <1>4 DEF WorkerInv, SearchInv
<1>9. FoundInv(w)'
  <2> SUFFICES ASSUME pc'[w] = "found"
               PROVE  FoundInv(w)'
    BY DEF FoundInv
  <2>1. Found(w)' = repo[w]
    BY <1>1, <1>3 DEF Found
  <2>2. response[w].buffer # 0 =>
          /\ response[w].code = 200 /\ response[w].buffer \in 1..Len(buffers[w])
          /\ buffers[w][response[w].buffer].content.length = response[w].length
    <3>1. Len(buffers[w]) \in Nat
      BY DEF WorkerTypes
    <3> QED
      BY <1>1, <3>1 DEF WorkerInv, SearchInv
  <2> QED
    BY ZenonT(60), <1>1, <1>4, <1>7, <2>1, <2>2 DEF FoundInv, Nothing
<1>10. BufferInv(w)'
  BY <1>4, <1>7 DEF BufferInv, FreedAtMostOnce
<1>11. ReadyInv(w)' /\ WireInv(w)' /\ HeaderInv(w)' /\ CountInv(w)'
  BY <1>4, SearchQuiet
<1> QED
  BY <1>5, <1>6, <1>8, <1>9, <1>10, <1>11 DEF WorkerInv

\* A step that takes a worker from one place of the search to another.
LEMMA MoveStep ==
    ASSUME WorkerTypes, NEW w \in Workers, WorkerInv(w),
           UNCHANGED <<requestVars, urlBuffer, mime, repo, response, contentVars, answerVars, buffers>>,
           NEW place \in {"page", "read", "crashed"}, pc' = [pc EXCEPT ![w] = place],
           pc[w] \in {"search", "page"},
           repo[w] \in 1..Len(Repos),
           place = "page" => page'[w] \in Pages /\ Repos[repo[w]] = "dynamic",
           place = "read" => Repos[repo[w]] = "local",
           page' \in [Workers -> Pages \cup {NoPage}], opened' \in [Workers -> Lengths],
           \A v \in Workers \ {w} : page'[v] = page[v]
    PROVE  WorkerTypes' /\ Alone(w) /\ WorkerInv(w)'
<1>1. pc' \in [Workers -> PCs] /\ pc'[w] = place /\ \A v \in Workers \ {w} : pc'[v] = pc[v]
  BY DEF WorkerTypes, PCs
<1>2. WorkerTypes'
  BY <1>1 DEF WorkerTypes, requestVars, contentVars, answerVars
<1>3. Alone(w)
  BY <1>1 DEF Alone, Untouched, requestVars, contentVars, answerVars
<1>4. SearchInv(w)'
  BY SMTT(60), <1>1 DEF WorkerInv, SearchInv
<1>5. FoundInv(w)' /\ ReadyInv(w)'
  BY <1>1 DEF FoundInv, ReadyInv
<1>6. BufferInv(w)'
  BY <1>1 DEF WorkerInv, BufferInv, FreedAtMostOnce
<1>7. WireInv(w)'
  BY <1>1 DEF WorkerInv, WireInv, answerVars
<1>8. HeaderInv(w)' /\ CountInv(w)'
  BY <1>1 DEF WorkerInv, HeaderInv, CountInv, answerVars, requestVars
<1> QED
  BY <1>2, <1>3, <1>4, <1>5, <1>6, <1>7, <1>8 DEF WorkerInv

LEMMA SearchesAt ==
    ASSUME WorkerTypes, NEW w \in Workers, WorkerInv(w)
    PROVE  /\ \A kind : Searching(w, kind) => repo[w] \in 1..Len(Repos) /\ Repos[repo[w]] = kind
           /\ pc[w] = "page" => /\ repo[w] \in 1..Len(Repos) /\ Repos[repo[w]] = "dynamic"
                                /\ page[w] \in Pages
           /\ pc[w] = "read" => repo[w] \in 1..Len(Repos) /\ Repos[repo[w]] = "local"
BY DEF WorkerTypes, Searching, WorkerInv, SearchInv

LEMMA DynamicLookupStep ==
    ASSUME WorkerTypes, AppTypes, NEW w \in Workers, WorkerInv(w), DynamicLookup(w)
    PROVE  WorkerTypes' /\ Alone(w) /\ WorkerInv(w)'
<1>1. pc[w] = "search" /\ repo[w] \in 1..Len(Repos) /\ Repos[repo[w]] = "dynamic"
  BY SearchesAt DEF DynamicLookup, Searching
<1>2. urlBuffer[w] \in Urls
  BY <1>1 DEF WorkerInv, SearchInv
<1>3. CASE Returned(w, FALSE, response[w]) /\ page' = page
  BY <1>1, <1>3, MissStep DEF DynamicLookup, WorkerTypes
<1>4. CASE /\ indexMap[urlBuffer[w]].page # NoPage
           /\ page' = [page EXCEPT ![w] = indexMap[urlBuffer[w]].page]
           /\ pc' = [pc EXCEPT ![w] = "page"]
           /\ UNCHANGED <<response, urlBuffer, repo>>
  <2>1. indexMap[urlBuffer[w]].page \in Pages
    BY <1>2, <1>4 DEF AppTypes
  <2>2. /\ page' \in [Workers -> Pages \cup {NoPage}] /\ page'[w] \in Pages
        /\ \A v \in Workers \ {w} : page'[v] = page[v]
    BY <1>4, <2>1 DEF WorkerTypes
  <2>3. opened' \in [Workers -> Lengths]
    BY DEF DynamicLookup, WorkerTypes
  <2> QED
    BY <1>1, <1>4, <2>2, <2>3, MoveStep DEF DynamicLookup
<1> QED
  BY <1>3, <1>4 DEF DynamicLookup

LEMMA LocalMissStep ==
    ASSUME WorkerTypes, NEW w \in Workers, WorkerInv(w), LocalMiss(w)
    PROVE  WorkerTypes' /\ Alone(w) /\ WorkerInv(w)'
<1>1. pc[w] = "search" /\ repo[w] \in 1..Len(Repos)
  BY SearchesAt DEF LocalMiss, Searching
<1> QED
  BY <1>1, MissStep DEF LocalMiss, WorkerTypes

LEMMA LocalOpenStep ==
    ASSUME WorkerTypes, AppTypes, NEW w \in Workers, WorkerInv(w), LocalOpen(w)
    PROVE  WorkerTypes' /\ Alone(w) /\ WorkerInv(w)'
<1>1. pc[w] = "search" /\ repo[w] \in 1..Len(Repos) /\ Repos[repo[w]] = "local"
  BY SearchesAt DEF LocalOpen, Searching
<1>2. opened' \in [Workers -> Lengths]
  <2>1. urlBuffer[w] \in Urls /\ file[urlBuffer[w]].length # Absent
    BY DEF LocalOpen, OnDisk
  <2>2. file[urlBuffer[w]].length \in Lengths
    BY <2>1 DEF AppTypes
  <2> QED
    BY <2>2 DEF LocalOpen, WorkerTypes
<1>3. page' \in [Workers -> Pages \cup {NoPage}] /\ \A v \in Workers \ {w} : page'[v] = page[v]
  BY DEF LocalOpen, WorkerTypes
<1> QED
  BY <1>1, <1>2, <1>3, MoveStep DEF LocalOpen

LEMMA RunDeletedPageStep ==
    ASSUME WorkerTypes, NEW w \in Workers, WorkerInv(w), RunDeletedPage(w)
    PROVE  WorkerTypes' /\ Alone(w) /\ WorkerInv(w)'
<1>1. pc[w] = "page" /\ repo[w] \in 1..Len(Repos)
  BY SearchesAt DEF RunDeletedPage
<1>2. /\ page' \in [Workers -> Pages \cup {NoPage}] /\ \A v \in Workers \ {w} : page'[v] = page[v]
      /\ opened' \in [Workers -> Lengths]
  BY DEF RunDeletedPage, WorkerTypes, searchVars
<1>3. UNCHANGED <<requestVars, urlBuffer, mime, repo, response, contentVars, answerVars, buffers>>
  BY DEF RunDeletedPage, searchVars
<1> QED
  BY <1>1, <1>2, <1>3, MoveStep DEF RunDeletedPage

LEMMA LocalReadStep ==
    ASSUME WorkerTypes, AppTypes, NEW w \in Workers, WorkerInv(w), LocalRead(w)
    PROVE  WorkerTypes' /\ Alone(w) /\ WorkerInv(w)'
<1>1. pc[w] = "read" /\ repo[w] \in 1..Len(Repos) /\ Repos[repo[w]] = "local"
  BY SearchesAt DEF LocalRead
<1>2. urlBuffer[w] \in Urls /\ response[w].forward = NoUrl /\ response[w].zipped = FALSE
  BY <1>1 DEF WorkerInv, SearchInv, WorkerTypes, Responses
<1>3. page' \in [Workers -> Pages \cup {NoPage}] /\ \A v \in Workers \ {w} : page'[v] = page[v]
  BY DEF LocalRead, WorkerTypes
<1> DEFINE c == Content("file", urlBuffer[w], file[urlBuffer[w]].version, FALSE, opened[w])
<1>4. CASE Returned(w, FALSE, response[w]) /\ buffers' = buffers
  BY <1>1, <1>3, <1>4, MissStep DEF LocalRead
<1>5. CASE /\ Allocate(w, TRUE, c)
           /\ Returned(w, TRUE, SetContent(response[w], NextBuffer(w), opened[w]))
  <2>1. c \in Contents /\ c.length = opened[w] /\ c.zipped = FALSE
    <3>1. file[urlBuffer[w]].version \in 0..ChangeMax /\ opened[w] \in 0..LengthMax
      BY <1>2 DEF AppTypes, WorkerTypes, Lengths
    <3> QED
      BY <1>2, <3>1, ContentTyped DEF Content
  <2>2. response[w] \in Responses
    BY DEF WorkerTypes
  <2>3. UNCHANGED <<requestVars, mime, opened, contentVars, answerVars>>
    BY DEF LocalRead
  <2> HIDE DEF c
  <2>4. Allocate(w, TRUE, c) /\ Returned(w, TRUE, SetContent(response[w], NextBuffer(w), c.length))
    BY <1>5, <2>1
  <2> QED
    BY <1>1, <1>2, <1>3, <2>1, <2>2, <2>3, <2>4, HitStep
<1> QED
  BY <1>4, <1>5 DEF LocalRead

LEMMA PrecompiledLookupStep ==
    ASSUME WorkerTypes, NEW w \in Workers, WorkerInv(w), PrecompiledLookup(w)
    PROVE  WorkerTypes' /\ Alone(w) /\ WorkerInv(w)'
<1>1. pc[w] = "search" /\ repo[w] \in 1..Len(Repos) /\ Repos[repo[w]] = "precompiled"
  BY SearchesAt DEF PrecompiledLookup, Searching
<1>2. urlBuffer[w] \in Urls /\ response[w].forward = NoUrl /\ response[w].zipped = FALSE
  BY <1>1 DEF WorkerInv, SearchInv, WorkerTypes, Responses
<1>3. page' \in [Workers -> Pages \cup {NoPage}] /\ \A v \in Workers \ {w} : page'[v] = page[v]
  BY DEF PrecompiledLookup, WorkerTypes
<1> DEFINE zipped == Precompiled[urlBuffer[w]] = "zipped"
           flagged == [response[w] EXCEPT !.zipped = @ \/ zipped]
           c == Content("precompiled", urlBuffer[w], 0, zipped, LengthMax)
<1>4. CASE Returned(w, FALSE, response[w]) /\ buffers' = buffers
  BY <1>1, <1>3, <1>4, MissStep DEF PrecompiledLookup
<1>5. CASE /\ Allocate(w, FALSE, c)
           /\ Returned(w, TRUE, SetContent(flagged, NextBuffer(w), LengthMax))
  <2>1. zipped \in BOOLEAN /\ LengthMax \in 0..LengthMax /\ 0 \in 0..ChangeMax
    BY PageAssumption
  <2> HIDE DEF zipped
  <2>2. c \in Contents /\ c.length = LengthMax /\ c.zipped = zipped
    BY <1>2, <2>1, ContentTyped DEF Content
  <2>3. /\ flagged \in Responses /\ flagged.zipped = zipped
        /\ flagged.code = response[w].code /\ flagged.forward = NoUrl
    <3>1. response[w] \in Responses
      BY DEF WorkerTypes
    <3>2. (response[w].zipped \/ zipped) = zipped
      BY <1>2, <2>1
    <3> QED
      BY <1>2, <2>1, <3>1, <3>2 DEF Responses
  <2>4. UNCHANGED <<requestVars, mime, opened, contentVars, answerVars>>
    BY DEF PrecompiledLookup
  <2> HIDE DEF c, flagged
  <2>5. Allocate(w, FALSE, c) /\ Returned(w, TRUE, SetContent(flagged, NextBuffer(w), c.length))
    BY <1>5, <2>2
  <2>6. FALSE = (Repos[repo[w]] # "precompiled")
    BY <1>1
  <2> QED
    BY <1>1, <1>3, <2>2, <2>3, <2>4, <2>5, <2>6, HitStep
<1> QED
  BY <1>4, <1>5 DEF PrecompiledLookup

LEMMA RunPageStep ==
    ASSUME WorkerTypes, NEW w \in Workers, WorkerInv(w), RunPage(w)
    PROVE  WorkerTypes' /\ Alone(w) /\ WorkerInv(w)'
<1>1. pc[w] = "page" /\ repo[w] \in 1..Len(Repos) /\ Repos[repo[w]] = "dynamic" /\ page[w] \in Pages
  BY SearchesAt DEF RunPage
<1>2. urlBuffer[w] \in Urls /\ response[w].forward = NoUrl /\ response[w].zipped = FALSE
  BY <1>1 DEF WorkerInv, SearchInv, WorkerTypes, Responses
<1>3. page' \in [Workers -> Pages \cup {NoPage}] /\ \A v \in Workers \ {w} : page'[v] = page[v]
  BY DEF RunPage, WorkerTypes
<1>4. response[w] \in Responses
  BY DEF WorkerTypes
<1>5. UNCHANGED <<requestVars, mime, opened, contentVars, answerVars>>
  BY DEF RunPage
<1> DEFINE Flagged(o) == [response[w] EXCEPT !.zipped = @ \/ o.zipped,
                                             !.forward = IF o.forward = NoUrl THEN @ ELSE o.forward]
           Made(o) == Content("page", page[w], 0, o.zipped, o.length)
<1>6. PICK o \in Outcomes[page[w]] :
        \/ /\ o.set = "unset"
           /\ Returned(w, o.found, Flagged(o))
           /\ UNCHANGED buffers
        \/ /\ o.set = "null"
           /\ Returned(w, o.found, SetContent(Flagged(o), 0, 0))
           /\ UNCHANGED buffers
        \/ /\ o.set = "data"
           /\ Allocate(w, TRUE, Made(o))
           /\ Returned(w, o.found, SetContent(Flagged(o), NextBuffer(w), o.length))
  BY Zenon DEF RunPage
<1>7. o \in Outcome
  BY <1>1, PageAssumption
<1>8. /\ ~o.found \/ o.forward # NoUrl => ~o.zipped /\ (o.set = "unset" \/ (o.set = "data" /\ o.length > 0))
      /\ ~o.found => o.forward = NoUrl
      /\ o.zipped => o.set # "unset"
  BY <1>1, PageAssumption
<1> DEFINE flagged == Flagged(o)
           c == Made(o)
<1>9. /\ flagged \in Responses /\ flagged.zipped = o.zipped /\ flagged.forward = o.forward
      /\ flagged.code = response[w].code
      /\ flagged.buffer = response[w].buffer /\ flagged.length = response[w].length
  <2>1. (response[w].zipped \/ o.zipped) = o.zipped /\ o.zipped \in BOOLEAN
    BY <1>2, <1>7 DEF Outcome
  <2>2. (IF o.forward = NoUrl THEN response[w].forward ELSE o.forward) = o.forward
    BY <1>2
  <2>3. o.forward \in Urls \cup {NoUrl}
    BY <1>7 DEF Outcome
  <2>4. flagged = [response[w] EXCEPT !.zipped = o.zipped, !.forward = o.forward]
    BY ZenonT(60), <1>4, <2>1, <2>2 DEF Responses
  <2> HIDE DEF flagged
  <2> QED
    BY ZenonT(60), <1>4, <2>1, <2>3, <2>4 DEF Responses
<1>10. c \in Contents /\ c.zipped = o.zipped /\ c.length = o.length
  <2>1. 0 \in 0..ChangeMax /\ o.zipped \in BOOLEAN /\ o.length \in 0..LengthMax
    BY <1>7, PageAssumption DEF Outcome, Lengths
  <2> QED
    BY <1>1, <2>1, ContentTyped DEF Content
<1>11. o.found \in BOOLEAN /\ o.set \in {"unset", "null", "data"}
  BY <1>7 DEF Outcome
<1>12. CASE o.set = "unset" /\ Returned(w, o.found, flagged) /\ UNCHANGED buffers
  <2>1. ~flagged.zipped /\ (~o.found => flagged.forward = NoUrl)
    BY <1>8, <1>9, <1>12
  <2> HIDE DEF flagged
  <2> QED
    BY <1>1, <1>3, <1>5, <1>9, <1>11, <1>12, <2>1, UnsetStep
<1>13. CASE o.set = "null" /\ Returned(w, o.found, SetContent(flagged, 0, 0)) /\ UNCHANGED buffers
  <2>1. o.found = TRUE /\ flagged.forward = NoUrl
    BY <1>8, <1>9, <1>11, <1>13
  <2> HIDE DEF flagged
  <2> QED
    BY <1>1, <1>3, <1>5, <1>9, <1>13, <2>1, NullStep
<1>14. CASE /\ o.set = "data" /\ Allocate(w, TRUE, c)
            /\ Returned(w, o.found, SetContent(flagged, NextBuffer(w), o.length))
  <2> HIDE DEF flagged, c
  <2>1. Returned(w, o.found, SetContent(flagged, NextBuffer(w), c.length))
    BY <1>10, <1>14
  <2>2. /\ flagged.zipped = c.zipped
        /\ ~o.found \/ flagged.forward # NoUrl => ~c.zipped /\ c.length > 0
        /\ ~o.found => flagged.forward = NoUrl
    BY <1>8, <1>9, <1>10, <1>14
  <2>3. TRUE = (Repos[repo[w]] # "precompiled")
    BY <1>1
  <2> QED
    BY ZenonT(60), <1>1, <1>3, <1>5, <1>9, <1>10, <1>11, <1>14, <2>1, <2>2, <2>3, HitStep
<1> QED
  BY <1>6, <1>12, <1>13, <1>14
(***************************************************************************)
(* The messages that end a connection                                      *)
(***************************************************************************)
\* What was found is given back where it came from.
LEMMA FoundFreed ==
    ASSUME WorkerTypes, NEW w \in Workers, FoundInv(w), pc[w] = "found", response[w].buffer # 0
    PROVE  LET bs == FreeFile(Found(w), buffers[w], response[w].buffer) IN
             /\ bs \in Seq(BufferRecord) /\ Len(bs) = Len(buffers[w])
             /\ FreedAtMostOnce(bs) /\ FreedFrom(bs, response[w].buffer)
<1> DEFINE bs == buffers[w]
           own == response[w].buffer
           freed == FreeFile(Found(w), bs, own)
           heap == Repos[Found(w)] # "precompiled"
<1>1. /\ bs \in Seq(BufferRecord) /\ Len(bs) \in Nat /\ own \in Nat
      /\ \A i \in 1..Len(bs) : bs[i] \in BufferRecord
  BY DEF WorkerTypes, Responses
<1>2. own = Len(bs) /\ own \in 1..Len(bs) /\ Found(w) \in 1..Len(Repos)
  BY <1>1 DEF FoundInv
<1>3. \A i \in 1..Len(bs) : bs[i].freed = 0 /\ bs[i].heap = ~(i = own /\ ~heap)
  BY DEF FoundInv
<1>4. /\ freed \in Seq(BufferRecord) /\ Len(freed) = Len(bs)
      /\ \A i \in 1..Len(bs) :
           /\ freed[i].heap = bs[i].heap
           /\ freed[i].freed = IF i = own /\ heap THEN bs[i].freed + 1 ELSE bs[i].freed
  BY ZenonT(60), <1>1, <1>2, FreeFileTyped
<1> HIDE DEF freed, heap, bs, own
<1>5. \A i \in 1..Len(bs) : freed[i].freed = IF i = own /\ heap THEN 1 ELSE 0
  BY <1>3, <1>4
<1>6. \A i \in 1..Len(bs) : (freed[i].heap <=> (i # own \/ heap))
  BY <1>3, <1>4
<1>7. FreedAtMostOnce(freed)
  BY <1>4, <1>5, <1>6 DEF FreedAtMostOnce
<1>8. FreedFrom(freed, own)
  <2> SUFFICES ASSUME NEW i \in 1..Len(freed), freed[i].heap, own \in 1..i
               PROVE  freed[i].freed = 1
    BY DEF FreedFrom
  <2>1. i = own /\ i \in 1..Len(bs)
    BY <1>1, <1>2, <1>4
  <2> QED
    BY <1>5, <1>6, <2>1
<1> QED
  BY <1>4, <1>7, <1>8 DEF freed, bs, own

LEMMA LastMessageStep ==
    ASSUME WorkerTypes, NEW w \in Workers, WorkerInv(w), pc[w] \in {"search", "found"},
           NEW code \in {0, 200, 204, 404, 500}, LastMessage(w, code),
           UNCHANGED <<requestVars, urlBuffer, mime, repo, page, opened, contentVars, left, inTurn>>,
           NEW bs \in Seq(BufferRecord), buffers' = [buffers EXCEPT ![w] = bs],
           Len(bs) = Len(buffers[w]), FreedAtMostOnce(bs),
           NEW r \in Responses, response' = [response EXCEPT ![w] = r],
           r.buffer \in {0, response[w].buffer}, FreedFrom(bs, r.buffer)
    PROVE  WorkerTypes' /\ Alone(w) /\ WorkerInv(w)'
<1> DEFINE last == Answer(code, FALSE, FALSE, NoContent)
<1>1. /\ last \in Answers /\ last.keepAlive = FALSE /\ last.zipped = FALSE
      /\ last.content.zipped = FALSE /\ last.content.length = 0
  BY DEF Answer, Answers, NoContent, Content
<1>2. wire[w] = NoAnswer /\ wire' \in {[wire EXCEPT ![w] = last], wire}
  BY ZenonT(60) DEF WorkerInv, WireInv, LastMessage
<1>3. /\ NoAnswer \in Answers /\ NoAnswer.keepAlive = FALSE /\ NoAnswer.zipped = FALSE
      /\ NoAnswer.content.zipped = FALSE /\ NoAnswer.content.length = 0
  BY DEF NoAnswer, Answer, Answers, NoContent, Content
<1> HIDE DEF last
<1>4. /\ wire' \in [Workers -> Answers] /\ wire'[w] \in {last, NoAnswer}
      /\ \A v \in Workers \ {w} : wire'[v] = wire[v]
  <2>1. CASE wire' = [wire EXCEPT ![w] = last]
    BY <1>1, <2>1 DEF WorkerTypes
  <2>2. CASE wire' = wire
    BY <1>2, <2>2 DEF WorkerTypes
  <2> QED
    BY <1>2, <2>1, <2>2
<1>5. /\ pc' \in [Workers -> PCs] /\ pc'[w] = "closed" /\ \A v \in Workers \ {w} : pc'[v] = pc[v]
  BY DEF LastMessage, WorkerTypes, PCs
<1>6. /\ buffers' \in [Workers -> Seq(BufferRecord)] /\ buffers'[w] = bs
      /\ \A v \in Workers \ {w} : buffers'[v] = buffers[v]
      /\ response' \in [Workers -> Responses] /\ response'[w] = r
      /\ \A v \in Workers \ {w} : response'[v] = response[v]
  BY DEF WorkerTypes
<1>7. WorkerTypes'
  <2>1. \A v \in Workers : {response[v].buffer, webpage[v], gzipWebPage[v]}' \subseteq 0..Len(buffers[v])'
    <3> SUFFICES ASSUME NEW v \in Workers
                 PROVE  {response'[v].buffer, webpage'[v], gzipWebPage'[v]} \subseteq 0..Len(buffers'[v])
      OBVIOUS
    <3>1. {response[v].buffer, webpage[v], gzipWebPage[v]} \subseteq 0..Len(buffers[v])
      BY DEF WorkerTypes
    <3>2. response'[v].buffer \in {0, response[v].buffer} /\ Len(buffers'[v]) = Len(buffers[v])
      BY <1>6
    <3> QED
      BY <3>1, <3>2 DEF contentVars
  <2> QED
    BY ZenonT(60), <1>4, <1>5, <1>6, <2>1 DEF WorkerTypes, requestVars, contentVars
<1>8. Alone(w)
  BY <1>4, <1>5, <1>6 DEF Alone, Untouched, requestVars, contentVars
<1>9. SearchInv(w)' /\ FoundInv(w)' /\ ReadyInv(w)' /\ CountInv(w)'
  BY <1>5 DEF SearchInv, FoundInv, ReadyInv, CountInv
<1>10. BufferInv(w)'
  BY <1>5, <1>6 DEF BufferInv
<1>11. WireInv(w)'
  <2>1. ~wire'[w].keepAlive
    BY <1>1, <1>3, <1>4
  <2> QED
    BY <1>5, <2>1 DEF WorkerInv, WireInv
<1>12. HeaderInv(w)'
  <2>1. wire'[w].zipped = FALSE /\ wire'[w].content.zipped = FALSE /\ wire'[w].content.length = 0
    BY <1>1, <1>3, <1>4
  <2>2. wire'[w].zipped = wire'[w].content.zipped
    BY ZenonT(60), <2>1
  <2>3. ~wire'[w].zipped
    BY <2>1
  <2>4. ~(wire'[w].content.length > 0)
    BY <2>1
  <2> QED
    BY <2>2, <2>3, <2>4 DEF HeaderInv
<1> QED
  BY <1>7, <1>8, <1>9, <1>10, <1>11, <1>12 DEF WorkerInv

LEMMA NotFoundStep ==
    ASSUME WorkerTypes, NEW w \in Workers, WorkerInv(w), NotFound(w)
    PROVE  WorkerTypes' /\ Alone(w) /\ WorkerInv(w)'
<1>1. pc[w] = "search" /\ LastMessage(w, 404) /\ response' = [response EXCEPT ![w] = NoResponse]
  BY DEF NotFound
<1>2. UNCHANGED <<requestVars, urlBuffer, mime, repo, page, opened, contentVars, left, inTurn>>
  BY DEF NotFound
<1>3. NoResponse \in Responses /\ NoResponse.buffer = 0
  BY PageAssumption DEF NoResponse, Responses, Lengths
<1>4. buffers[w] \in Seq(BufferRecord) /\ buffers' = [buffers EXCEPT ![w] = buffers[w]]
  BY DEF NotFound, WorkerTypes
<1>5. FreedAtMostOnce(buffers[w]) /\ FreedFrom(buffers[w], 0)
  <2>1. \A b \in Nat : 0 \notin 1..b
    OBVIOUS
  <2>2. Len(buffers[w]) \in Nat
    BY <1>4
  <2> QED
    BY <2>1, <2>2 DEF WorkerInv, BufferInv, FreedFrom
<1> HIDE DEF NoResponse
<1> QED
  BY ZenonT(60), <1>1, <1>2, <1>3, <1>4, <1>5, LastMessageStep

LEMMA AnswerNothingStep ==
    ASSUME WorkerTypes, NEW w \in Workers, WorkerInv(w), AnswerNothing(w)
    PROVE  WorkerTypes' /\ Alone(w) /\ WorkerInv(w)'
<1>1. pc[w] = "found" /\ FoundInv(w) /\ response' = response
  BY DEF AnswerNothing, WorkerInv, searchVars
<1>2. UNCHANGED <<requestVars, urlBuffer, mime, repo, page, opened, contentVars, left, inTurn>>
  BY DEF AnswerNothing, searchVars
<1>3. PICK c \in {0, 200, 204, 404, 500} : LastMessage(w, c)
  BY SMTT(60) DEF AnswerNothing, WorkerTypes, Responses
<1>4. PICK r \in Responses : r = response[w]
  BY DEF WorkerTypes
<1>5. response' = [response EXCEPT ![w] = r]
  BY <1>1, <1>4 DEF WorkerTypes
<1>6. \E bs \in Seq(BufferRecord) :
        /\ buffers' = [buffers EXCEPT ![w] = bs] /\ Len(bs) = Len(buffers[w])
        /\ FreedAtMostOnce(bs) /\ FreedFrom(bs, r.buffer)
  <2>1. CASE response[w].buffer = 0
    <3>1. buffers[w] \in Seq(BufferRecord) /\ buffers' = [buffers EXCEPT ![w] = buffers[w]]
      BY <2>1 DEF AnswerNothing, WorkerTypes
    <3>2. \A b \in Nat : 0 \notin 1..b
      OBVIOUS
    <3>3. Len(buffers[w]) \in Nat
      BY <3>1
    <3>4. FreedAtMostOnce(buffers[w]) /\ FreedFrom(buffers[w], r.buffer)
      BY <1>4, <2>1, <3>2, <3>3 DEF WorkerInv, BufferInv, FreedFrom
    <3> DEFINE bs == buffers[w]
    <3>5. /\ bs \in Seq(BufferRecord) /\ buffers' = [buffers EXCEPT ![w] = bs]
          /\ Len(bs) = Len(buffers[w]) /\ FreedAtMostOnce(bs) /\ FreedFrom(bs, r.buffer)
      BY <3>1, <3>4
    <3> HIDE DEF bs
    <3> QED
      BY ZenonT(60), <3>5
  <2>2. CASE response[w].buffer # 0
    <3> DEFINE bs == FreeFile(Found(w), buffers[w], response[w].buffer)
    <3>1. buffers' = [buffers EXCEPT ![w] = bs]
      BY <2>2 DEF AnswerNothing
    <3>2. /\ bs \in Seq(BufferRecord) /\ Len(bs) = Len(buffers[w])
          /\ FreedAtMostOnce(bs) /\ FreedFrom(bs, r.buffer)
      BY <1>1, <1>4, <2>2, FoundFreed
    <3> HIDE DEF bs
    <3> QED
      BY ZenonT(60), <3>1, <3>2
  <2> QED
    BY <2>1, <2>2
<1>7. PICK bs \in Seq(BufferRecord) :
        /\ buffers' = [buffers EXCEPT ![w] = bs] /\ Len(bs) = Len(buffers[w])
        /\ FreedAtMostOnce(bs) /\ FreedFrom(bs, r.buffer)
  BY ZenonT(60), <1>6
<1>8. r.buffer \in {0, response[w].buffer} /\ pc[w] \in {"search", "found"}
  BY <1>1, <1>4
<1> QED
  BY ZenonT(60), <1>2, <1>3, <1>5, <1>7, <1>8, LastMessageStep

LEMMA ZipFailsStep ==
    ASSUME WorkerTypes, NEW w \in Workers, WorkerInv(w), ZipFails(w)
    PROVE  WorkerTypes' /\ Alone(w) /\ WorkerInv(w)'
<1>1. pc[w] = "found" /\ FoundInv(w) /\ response' = response /\ LastMessage(w, 500)
  BY DEF ZipFails, WorkerInv, searchVars
<1>2. UNCHANGED <<requestVars, urlBuffer, mime, repo, page, opened, contentVars, left, inTurn>>
  BY DEF ZipFails, searchVars
<1>3. PICK r \in Responses : r = response[w]
  BY DEF WorkerTypes
<1>4. response' = [response EXCEPT ![w] = r] /\ r.buffer \in {0, response[w].buffer}
  BY <1>1, <1>3 DEF WorkerTypes
<1> DEFINE bs == FreeFile(Found(w), buffers[w], response[w].buffer)
<1>5. buffers' = [buffers EXCEPT ![w] = bs]
  BY DEF ZipFails, ZipFailed
<1>6. /\ bs \in Seq(BufferRecord) /\ Len(bs) = Len(buffers[w])
      /\ FreedAtMostOnce(bs) /\ FreedFrom(bs, r.buffer)
  <2>1. response[w].buffer # 0
    BY DEF ZipFails, Nothing
  <2> QED
    BY <1>1, <1>3, <2>1, FoundFreed
<1> HIDE DEF bs
<1> QED
  BY ZenonT(60), <1>1, <1>2, <1>4, <1>5, <1>6, LastMessageStep
(***************************************************************************)
(* What is sent, and what is released after it                             *)
(***************************************************************************)
\* A second buffer is freed, and then the one that was found.
LEMMA TwoReleased ==
    ASSUME NEW bs \in Seq(BufferRecord), Len(bs) > 0, NEW r \in 1..Len(Repos),
           \A i \in 1..Len(bs) : /\ bs[i].freed = 0
                                 /\ bs[i].heap = ~(i = Len(bs) /\ Repos[r] = "precompiled"),
           NEW new \in BufferRecord, new.heap = TRUE, new.freed = 0
    PROVE  LET both == Append(bs, new)
               one == Freed(both, Len(bs) + 1)
               none == FreeFile(r, one, Len(bs))
           IN  /\ both \in Seq(BufferRecord) /\ Len(both) = Len(bs) + 1 /\ FreedAtMostOnce(both)
               /\ both[Len(bs)] = bs[Len(bs)] /\ both[Len(bs) + 1] = new
               /\ one \in Seq(BufferRecord) /\ Len(one) = Len(bs) + 1 /\ FreedAtMostOnce(one)
               /\ one[Len(bs)].freed = 0 /\ one[Len(bs)].content = bs[Len(bs)].content
               /\ none \in Seq(BufferRecord) /\ Len(none) = Len(bs) + 1
               /\ FreedAtMostOnce(none) /\ FreedFrom(none, Len(bs))
<1> DEFINE n == Len(bs)
           both == Append(bs, new)
           one == Freed(both, n + 1)
           none == FreeFile(r, one, n)
           heap == Repos[r] # "precompiled"
<1>1. n \in Nat /\ n > 0
  OBVIOUS
<1>2. /\ both \in Seq(BufferRecord) /\ Len(both) = n + 1
      /\ both[n + 1] = new /\ \A i \in 1..n : both[i] = bs[i]
  BY AppendedBuffer
<1>3. \A i \in 1..n : bs[i].freed = 0 /\ bs[i].heap = ~(i = n /\ ~heap)
  OBVIOUS
<1> HIDE DEF both, heap
<1>4. /\ one \in Seq(BufferRecord) /\ Len(one) = n + 1
      /\ \A i \in 1..(n + 1) :
           /\ one[i].heap = both[i].heap /\ one[i].content = both[i].content
           /\ one[i].freed = IF i = n + 1 THEN both[i].freed + 1 ELSE both[i].freed
  <2>1. n + 1 \in 1..Len(both)
    BY <1>1, <1>2
  <2> QED
    BY <1>2, <2>1, FreedTyped
<1> HIDE DEF one
<1>5. /\ none \in Seq(BufferRecord) /\ Len(none) = n + 1
      /\ \A i \in 1..(n + 1) :
           /\ none[i].heap = one[i].heap /\ none[i].content = one[i].content
           /\ none[i].freed = IF i = n /\ heap THEN one[i].freed + 1 ELSE one[i].freed
  <2>1. n \in 1..Len(one)
    BY <1>1, <1>4
  <2> QED
    BY SMTT(60), <1>4, <2>1, FreeFileTyped DEF heap
<1> HIDE DEF n, none
<1>6. \A i \in 1..(n + 1) : i \in 1..n \/ i = n + 1
  BY <1>1
<1>7. \A i \in 1..(n + 1) : both[i].freed = 0 /\ (both[i].heap <=> (i # n \/ heap))
  <2> SUFFICES ASSUME NEW i \in 1..(n + 1)
               PROVE  both[i].freed = 0 /\ (both[i].heap <=> (i # n \/ heap))
    OBVIOUS
  <2>1. CASE i \in 1..n
    <3>1. both[i] = bs[i] /\ bs[i].freed = 0 /\ bs[i].heap = ~(i = n /\ ~heap)
      BY <1>2, <1>3, <2>1
    <3>2. both[i].freed = 0
      BY <3>1
    <3>3. both[i].heap <=> (i # n \/ heap)
      BY <3>1
    <3> QED
      BY <3>2, <3>3
  <2>2. CASE i = n + 1
    <3>1. both[i].freed = 0 /\ both[i].heap = TRUE /\ i # n
      BY <1>1, <1>2, <2>2
    <3> QED
      BY <3>1
  <2> QED
    BY <1>6, <2>1, <2>2
<1>8. \A i \in 1..(n + 1) : (one[i].heap <=> (i # n \/ heap)) /\ one[i].freed = IF i = n + 1 THEN 1 ELSE 0
  BY <1>4, <1>7
<1>9. \A i \in 1..(n + 1) : /\ none[i].heap <=> (i # n \/ heap)
                            /\ none[i].freed = IF i = n + 1 \/ (i = n /\ heap) THEN 1 ELSE 0
  <2>1. \A i \in 1..(n + 1) : none[i].heap <=> (i # n \/ heap)
    BY SMTT(60), <1>5, <1>8
  <2>2. \A i \in 1..(n + 1) : none[i].freed = IF i = n + 1 \/ (i = n /\ heap) THEN 1 ELSE 0
    BY <1>1, <1>5, <1>8
  <2> QED
    BY <2>1, <2>2
<1>10. FreedAtMostOnce(both)
  BY <1>2, <1>7 DEF FreedAtMostOnce, n
<1>11. FreedAtMostOnce(one)
  <2>1. n + 1 # n
    BY <1>1
  <2> QED
    BY <1>4, <1>8, <2>1 DEF FreedAtMostOnce
<1>12. FreedAtMostOnce(none)
  <2>1. n + 1 # n
    BY <1>1
  <2> QED
    BY <1>5, <1>9, <2>1 DEF FreedAtMostOnce
<1>13. FreedFrom(none, n)
  <2> SUFFICES ASSUME NEW i \in 1..Len(none), none[i].heap, n \in 1..i
               PROVE  none[i].freed = 1
    BY DEF FreedFrom
  <2>1. i \in 1..(n + 1) /\ (i = n \/ i = n + 1)
    BY <1>1, <1>5
  <2> QED
    BY <1>9, <2>1
<1>14. both[n] = bs[n] /\ one[n].freed = 0 /\ one[n].content = bs[n].content
  <2>1. n \in 1..n /\ n \in 1..(n + 1) /\ n # n + 1
    BY <1>1
  <2> QED
    BY <1>2, <1>4, <1>8, <2>1
<1> QED
  BY <1>2, <1>4, <1>5, <1>10, <1>11, <1>12, <1>13, <1>14 DEF n, both, one, none
\* The releases that go with the buffers bs and the variables of httpSend().
Release(w, bs, page1, zipped1, size) ==
    IF size > 0 /\ ~response[w].zipped THEN FreeFile(Found(w), Freed(bs, zipped1), page1)
    ELSE IF NeedsUnzip(w) THEN FreeFile(Found(w), Freed(bs, page1), zipped1)
    ELSE FreeFile(Found(w), bs, page1)

\* The contents of an answer are right: sent is the one that is sent, and
\* after all of released nothing is left.
Fits(w, bs, page1, zipped1, size, sent, released) ==
    /\ bs \in Seq(BufferRecord) /\ size \in 0..(LengthMax + 1) /\ FreedAtMostOnce(bs)
    /\ page1 \in 0..Len(bs) /\ zipped1 \in 0..Len(bs) /\ response[w].buffer \in 0..Len(bs)
    /\ sent = IF size > 0 /\ compression[w] = "GZIP" THEN zipped1 ELSE page1
    /\ sent \in 1..Len(bs) /\ bs[sent].freed = 0 /\ bs[sent].content.length > 0
    /\ bs[sent].content.zipped = (size > 0 /\ compression[w] = "GZIP")
    /\ released = Release(w, bs, page1, zipped1, size)
    /\ released \in Seq(BufferRecord) /\ Len(released) = Len(bs)
    /\ FreedAtMostOnce(released) /\ FreedFrom(released, response[w].buffer)

PreparedAs(w, bs, page1, zipped1, size) ==
    /\ buffers' = [buffers EXCEPT ![w] = bs]
    /\ webpage' = [webpage EXCEPT ![w] = page1]
    /\ gzipWebPage' = [gzipWebPage EXCEPT ![w] = zipped1]
    /\ sizeZip' = [sizeZip EXCEPT ![w] = size]

\* What every way of preparing a content comes to.
Prepared(w) ==
    \E bs, page1, zipped1, size, sent, released :
        PreparedAs(w, bs, page1, zipped1, size) /\ Fits(w, bs, page1, zipped1, size, sent, released)

LEMMA PrepareStep ==
    ASSUME WorkerTypes, NEW w \in Workers, FoundInv(w), pc[w] = "found", ~Nothing(w), Prepare(w)
    PROVE  Prepared(w) /\ response[w].code = 200
<1> DEFINE bs == buffers[w]
           n == Len(bs)
           length == response[w].length
           zipped == response[w].zipped
           plain == bs[n].content
           New(z, size) == [plain EXCEPT !.zipped = z, !.length = size]
           Made(z, size) == Buffer(TRUE, New(z, size))
           both(z, size) == Append(bs, Made(z, size))
           one(z, size) == Freed(both(z, size), n + 1)
           none(z, size) == FreeFile(Found(w), one(z, size), n)
<1>1. /\ bs \in Seq(BufferRecord) /\ n \in Nat /\ n > 0 /\ response[w].buffer = n
      /\ length \in 0..LengthMax /\ length > 0 /\ zipped \in BOOLEAN
      /\ Found(w) \in 1..Len(Repos)
      /\ response[w].code = 200
  <2>1. response[w] \in Responses /\ bs \in Seq(BufferRecord) /\ n \in Nat
    BY DEF WorkerTypes
  <2>2. response[w].buffer \in {0, n} /\ response[w].buffer # 0 /\ length # 0
    BY DEF FoundInv, Nothing
  <2>3. length \in 0..LengthMax /\ zipped \in BOOLEAN
    BY <2>1 DEF Responses, Lengths
  <2> QED
    BY <2>1, <2>2, <2>3 DEF FoundInv
<1>2. \A i \in 1..n : /\ bs[i].freed = 0
                      /\ bs[i].heap = ~(i = n /\ Repos[Found(w)] = "precompiled")
  BY <1>1 DEF FoundInv
<1>3. plain \in Contents /\ plain.length = length /\ plain.zipped = zipped /\ bs[n].freed = 0
  <2>1. bs[n] \in BufferRecord /\ n \in 1..n
    BY <1>1
  <2>2. plain \in Contents
    BY <2>1 DEF BufferRecord
  <2> QED
    BY <1>1, <1>2, <2>1, <2>2 DEF FoundInv
<1>4. ASSUME NEW z, z \in BOOLEAN, NEW size \in 1..LengthMax
      PROVE  /\ both(z, size) \in Seq(BufferRecord) /\ Len(both(z, size)) = n + 1
             /\ FreedAtMostOnce(both(z, size))
             /\ both(z, size)[n] = bs[n]
             /\ both(z, size)[n + 1].freed = 0
             /\ both(z, size)[n + 1].content.zipped = z
             /\ both(z, size)[n + 1].content.length = size
             /\ one(z, size) \in Seq(BufferRecord) /\ Len(one(z, size)) = n + 1
             /\ FreedAtMostOnce(one(z, size))
             /\ one(z, size)[n].freed = 0 /\ one(z, size)[n].content = plain
             /\ none(z, size) \in Seq(BufferRecord) /\ Len(none(z, size)) = n + 1
             /\ FreedAtMostOnce(none(z, size)) /\ FreedFrom(none(z, size), n)
  <2>1. New(z, size) \in Contents /\ New(z, size).zipped = z /\ New(z, size).length = size
    <3> DEFINE c == plain
               d == New(z, size)
    <3>1. c \in Contents
      BY <1>3
    <3>2. d = [c EXCEPT !.zipped = z, !.length = size]
      OBVIOUS
    <3> HIDE DEF c, d
    <3>3. d \in Contents /\ d.zipped = z /\ d.length = size
      <4> DEFINE kind == c.kind
                 name == c.name
                 version == c.version
                 x == c.zipped
                 y == c.length
      <4>1. /\ kind \in {"page", "file", "precompiled"} /\ name \in Pages \cup Urls
            /\ version \in 0..ChangeMax /\ size \in 0..LengthMax
        BY <3>1, PageAssumption DEF Contents
      <4>2. c = [kind |-> kind, name |-> name, version |-> version, zipped |-> x, length |-> y]
        BY <3>1 DEF Contents
      <4> HIDE DEF kind, name, version, x, y
      <4>3. d = [kind |-> kind, name |-> name, version |-> version, zipped |-> z, length |-> size]
        BY <3>2, <4>2
      <4>4. d.zipped = z
        BY <4>3
      <4>5. d.length = size
        BY <4>3
      <4>6. d \in Contents
        BY <1>4, <4>1, <4>3 DEF Contents
      <4> QED
        BY <4>4, <4>5, <4>6
    <3> QED
      BY <3>3 DEF d
  <2> DEFINE new == Made(z, size)
  <2>2. /\ new \in BufferRecord /\ new.heap = TRUE /\ new.freed = 0
        /\ new.content.zipped = z /\ new.content.length = size
    <3> DEFINE c == New(z, size)
    <3>1. c \in Contents /\ c.zipped = z /\ c.length = size
      BY <2>1
    <3> HIDE DEF c
    <3>2. Buffer(TRUE, c).heap = TRUE /\ Buffer(TRUE, c).freed = 0 /\ Buffer(TRUE, c).content = c
      BY DEF Buffer
    <3>3. Buffer(TRUE, c) \in BufferRecord
      BY <3>1 DEF Buffer, BufferRecord
    <3>4. new = Buffer(TRUE, c)
      BY DEF c
    <3> HIDE DEF new
    <3> QED
      BY <3>1, <3>2, <3>3, <3>4
  <2> HIDE DEF Made
  <2>3. /\ both(z, size) \in Seq(BufferRecord) /\ Len(both(z, size)) = n + 1
        /\ FreedAtMostOnce(both(z, size))
        /\ both(z, size)[n] = bs[n] /\ both(z, size)[n + 1] = new
        /\ one(z, size) \in Seq(BufferRecord) /\ Len(one(z, size)) = n + 1
        /\ FreedAtMostOnce(one(z, size))
        /\ one(z, size)[n].freed = 0 /\ one(z, size)[n].content = plain
        /\ none(z, size) \in Seq(BufferRecord) /\ Len(none(z, size)) = n + 1
        /\ FreedAtMostOnce(none(z, size)) /\ FreedFrom(none(z, size), n)
    <3> DEFINE r == Found(w)
               a == Append(bs, new)
               f == Freed(a, Len(bs) + 1)
               g == FreeFile(r, f, Len(bs))
    <3>1. /\ bs \in Seq(BufferRecord) /\ Len(bs) > 0 /\ r \in 1..Len(Repos)
          /\ \A i \in 1..Len(bs) : /\ bs[i].freed = 0
                                  /\ bs[i].heap = ~(i = Len(bs) /\ Repos[r] = "precompiled")
      BY <1>1, <1>2
    <3>2. a = both(z, size) /\ f = one(z, size) /\ g = none(z, size)
      OBVIOUS
    <3> HIDE DEF bs, new, r, both, one, none
    <3>3. /\ a \in Seq(BufferRecord) /\ Len(a) = Len(bs) + 1 /\ FreedAtMostOnce(a)
          /\ a[Len(bs)] = bs[Len(bs)] /\ a[Len(bs) + 1] = new
          /\ f \in Seq(BufferRecord) /\ Len(f) = Len(bs) + 1 /\ FreedAtMostOnce(f)
          /\ f[Len(bs)].freed = 0 /\ f[Len(bs)].content = bs[Len(bs)].content
          /\ g \in Seq(BufferRecord) /\ Len(g) = Len(bs) + 1
          /\ FreedAtMostOnce(g) /\ FreedFrom(g, Len(bs))
      BY <2>2, <3>1, TwoReleased
    <3> HIDE DEF a, f, g
    <3> QED
      BY <3>2, <3>3
  <2> HIDE DEF both, one, none
  <2> QED
    BY <2>2, <2>3
<1>5. bs \in Seq(BufferRecord) /\ FreedAtMostOnce(bs)
  BY <1>1, <1>2 DEF FreedAtMostOnce
<1>6. /\ FreeFile(Found(w), bs, n) \in Seq(BufferRecord) /\ Len(FreeFile(Found(w), bs, n)) = n
      /\ FreedAtMostOnce(FreeFile(Found(w), bs, n)) /\ FreedFrom(FreeFile(Found(w), bs, n), n)
  BY <1>1, FoundFreed
<1> HIDE DEF both, one, none, New
<1>7. CASE ~NeedsUnzip(w) /\ ~NeedsZip(w) /\ zipped /\ PreparedAs(w, bs, n, n, length)
  <2>1. compression[w] = "GZIP"
    BY <1>7 DEF NeedsUnzip, WorkerTypes
  <2>2. Release(w, bs, n, n, length) = FreeFile(Found(w), bs, n)
    BY <1>7 DEF Release
  <2> DEFINE released == FreeFile(Found(w), bs, n)
  <2> HIDE DEF released
  <2>3. Fits(w, bs, n, n, length, n, released)
    <3>1. bs[n].content.zipped = TRUE /\ bs[n].content.length > 0
      BY <1>1, <1>3, <1>7
    <3>2. (length > 0 /\ compression[w] = "GZIP") = TRUE
      BY <1>1, <2>1
    <3>3. bs[n].content.zipped = (length > 0 /\ compression[w] = "GZIP")
      BY <3>1, <3>2
    <3>4. n = (IF length > 0 /\ compression[w] = "GZIP" THEN n ELSE n)
      OBVIOUS
    <3>5. n \in 1..n /\ n \in 0..n /\ length \in 0..(LengthMax + 1)
      BY <1>1, PageAssumption
    <3> HIDE DEF bs, length, n
    <3> QED
      BY <1>1, <1>3, <1>5, <1>6, <2>2, <3>1, <3>3, <3>4, <3>5 DEF Fits, released, n
  <2> QED
    BY <1>1, <1>7, <2>3 DEF Prepared
<1>8. CASE ~NeedsUnzip(w) /\ ~NeedsZip(w) /\ ~zipped /\ PreparedAs(w, bs, n, 0, 0)
  <2>1. Release(w, bs, n, 0, 0) = FreeFile(Found(w), bs, n)
    BY <1>8 DEF Release
  <2> DEFINE released == FreeFile(Found(w), bs, n)
  <2> HIDE DEF released
  <2>2. Fits(w, bs, n, 0, 0, n, released)
    <3>1. bs[n].content.zipped = FALSE /\ bs[n].content.length > 0
      BY <1>1, <1>3, <1>8
    <3>2. 0 \in 0..(LengthMax + 1)
      BY PageAssumption
    <3> HIDE DEF bs
    <3> QED
      BY <1>1, <1>3, <1>5, <1>6, <2>1, <3>1, <3>2 DEF Fits, released
  <2> QED
    BY <1>1, <1>8, <2>2 DEF Prepared
<1>9. CASE NeedsUnzip(w) /\ \E k \in 1..LengthMax : PreparedAs(w, both(FALSE, k), n + 1, n, length)
  <2> PICK k \in 1..LengthMax : PreparedAs(w, both(FALSE, k), n + 1, n, length)
    BY <1>9
  <2>1. compression[w] = "NONE" /\ zipped
    BY <1>9 DEF NeedsUnzip
  <2>2. Release(w, both(FALSE, k), n + 1, n, length) = none(FALSE, k)
    BY <1>9, <2>1 DEF Release, none, one
  <2> DEFINE bs1 == both(FALSE, k)
             released == none(FALSE, k)
  <2>3. /\ bs1 \in Seq(BufferRecord) /\ Len(bs1) = n + 1 /\ FreedAtMostOnce(bs1)
        /\ bs1[n + 1].freed = 0 /\ bs1[n + 1].content.zipped = FALSE /\ bs1[n + 1].content.length = k
        /\ released \in Seq(BufferRecord) /\ Len(released) = n + 1
        /\ FreedAtMostOnce(released) /\ FreedFrom(released, n)
    BY <1>4
  <2>4. released = Release(w, bs1, n + 1, n, length) /\ PreparedAs(w, bs1, n + 1, n, length)
    BY <2>2
  <2>5. Fits(w, bs1, n + 1, n, length, n + 1, released)
    <3>1. (length > 0 /\ compression[w] = "GZIP") = FALSE
      BY <2>1
    <3> HIDE DEF bs1, released, bs, length, n
    <3>2. bs1[n + 1].content.zipped = (length > 0 /\ compression[w] = "GZIP")
      BY <2>3, <3>1
    <3>3. n + 1 = (IF length > 0 /\ compression[w] = "GZIP" THEN n ELSE n + 1)
      BY <3>1
    <3>4. /\ n + 1 \in 1..(n + 1) /\ n + 1 \in 0..(n + 1) /\ n \in 0..(n + 1)
          /\ length \in 0..(LengthMax + 1) /\ k > 0
      BY <1>1, PageAssumption
    <3> QED
      BY <1>1, <2>3, <2>4, <3>2, <3>3, <3>4 DEF Fits
  <2> HIDE DEF bs1, released, bs, n, length
  <2> QED
    BY <1>1, <2>4, <2>5 DEF Prepared
<1>10. CASE NeedsZip(w) /\ \E k \in 1..length : PreparedAs(w, both(TRUE, k), n, n + 1, k)
  <2> PICK k \in 1..length : PreparedAs(w, both(TRUE, k), n, n + 1, k)
    BY <1>10
  <2>1. compression[w] = "GZIP" /\ ~zipped /\ k \in 1..LengthMax
    BY <1>1, <1>10, PageAssumption DEF NeedsZip
  <2>2. Release(w, both(TRUE, k), n, n + 1, k) = none(TRUE, k)
    <3>1. k > 0 /\ ~response[w].zipped
      BY <2>1
    <3> QED
      BY <3>1 DEF Release, none, one
  <2> DEFINE bs1 == both(TRUE, k)
             released == none(TRUE, k)
  <2>3. /\ bs1 \in Seq(BufferRecord) /\ Len(bs1) = n + 1 /\ FreedAtMostOnce(bs1)
        /\ bs1[n + 1].freed = 0 /\ bs1[n + 1].content.zipped = TRUE /\ bs1[n + 1].content.length = k
        /\ released \in Seq(BufferRecord) /\ Len(released) = n + 1
        /\ FreedAtMostOnce(released) /\ FreedFrom(released, n)
    BY <1>4, <2>1
  <2>4. released = Release(w, bs1, n, n + 1, k) /\ PreparedAs(w, bs1, n, n + 1, k)
    BY <2>2
  <2>5. Fits(w, bs1, n, n + 1, k, n + 1, released)
    <3>1. (k > 0 /\ compression[w] = "GZIP") = TRUE
      BY <2>1
    <3> HIDE DEF bs1, released, bs, length, n
    <3>2. bs1[n + 1].content.zipped = (k > 0 /\ compression[w] = "GZIP")
      BY <2>3, <3>1
    <3>3. n + 1 = (IF k > 0 /\ compression[w] = "GZIP" THEN n + 1 ELSE n)
      BY <3>1
    <3>4. /\ n + 1 \in 1..(n + 1) /\ n + 1 \in 0..(n + 1) /\ n \in 0..(n + 1)
          /\ k \in 0..(LengthMax + 1) /\ k > 0
      BY <1>1, <2>1, PageAssumption
    <3> QED
      BY <1>1, <2>3, <2>4, <3>2, <3>3, <3>4 DEF Fits
  <2> HIDE DEF bs1, released, bs, n, length
  <2> QED
    BY <1>1, <2>4, <2>5 DEF Prepared
<1>11. CASE NeedsZip(w) /\ PreparedAs(w, one(TRUE, LengthMax), n, n + 1, 0)
  <2>1. compression[w] = "GZIP" /\ ~zipped /\ LengthMax \in 1..LengthMax
    BY <1>11, PageAssumption DEF NeedsZip
  <2>2. Release(w, one(TRUE, LengthMax), n, n + 1, 0) = none(TRUE, LengthMax)
    BY <2>1 DEF Release, NeedsUnzip, none
  <2> DEFINE bs1 == one(TRUE, LengthMax)
             released == none(TRUE, LengthMax)
  <2>3. /\ bs1 \in Seq(BufferRecord) /\ Len(bs1) = n + 1 /\ FreedAtMostOnce(bs1)
        /\ bs1[n].freed = 0 /\ bs1[n].content = plain
        /\ released \in Seq(BufferRecord) /\ Len(released) = n + 1
        /\ FreedAtMostOnce(released) /\ FreedFrom(released, n)
    BY <1>4, <2>1
  <2>4. released = Release(w, bs1, n, n + 1, 0) /\ PreparedAs(w, bs1, n, n + 1, 0)
    BY <1>11, <2>2
  <2>5. plain.zipped = FALSE /\ plain.length > 0
    BY <1>1, <1>3, <2>1
  <2>6. Fits(w, bs1, n, n + 1, 0, n, released)
    <3>1. (0 > 0 /\ compression[w] = "GZIP") = FALSE
      OBVIOUS
    <3> HIDE DEF bs1, released, bs, n, plain
    <3>2. bs1[n].content.zipped = (0 > 0 /\ compression[w] = "GZIP")
      BY Zenon, <2>3, <2>5, <3>1
    <3>3. n = (IF 0 > 0 /\ compression[w] = "GZIP" THEN n + 1 ELSE n)
      BY <3>1
    <3>4. /\ n \in 1..(n + 1) /\ n + 1 \in 0..(n + 1) /\ n \in 0..(n + 1)
          /\ 0 \in 0..(LengthMax + 1)
      BY <1>1, PageAssumption
    <3>5. bs1[n].content.length > 0
      BY <2>3, <2>5
    <3> QED
      BY <1>1, <2>3, <2>4, <3>2, <3>3, <3>4, <3>5 DEF Fits
  <2> HIDE DEF bs1, released, bs, n, length, plain
  <2> QED
    BY <1>1, <2>4, <2>6 DEF Prepared
<1>12. \/ /\ ~NeedsUnzip(w) /\ ~NeedsZip(w)
          /\ \/ zipped /\ PreparedAs(w, bs, n, n, length)
             \/ ~zipped /\ PreparedAs(w, bs, n, 0, 0)
       \/ NeedsUnzip(w) /\ \E k \in 1..LengthMax : PreparedAs(w, both(FALSE, k), n + 1, n, length)
       \/ NeedsZip(w) /\ \E k \in 1..length : PreparedAs(w, both(TRUE, k), n, n + 1, k)
       \/ NeedsZip(w) /\ PreparedAs(w, one(TRUE, LengthMax), n, n + 1, 0)
  <2>1. buffers = [buffers EXCEPT ![w] = bs]
    BY DEF WorkerTypes
  <2>2. response[w].buffer = n
    BY SMTT(60), <1>1
  <2> DEFINE own == response[w].buffer
             New1(z, size) == [buffers[w][own].content EXCEPT !.zipped = z, !.length = size]
             Use(page1, zipped1, size) ==
               /\ webpage' = [webpage EXCEPT ![w] = page1]
               /\ gzipWebPage' = [gzipWebPage EXCEPT ![w] = zipped1]
               /\ sizeZip' = [sizeZip EXCEPT ![w] = size]
             second == Len(buffers[w]) + 1
  <2>3. \/ /\ ~NeedsUnzip(w) /\ ~NeedsZip(w)
           /\ IF response[w].zipped THEN Use(own, own, response[w].length) ELSE Use(own, 0, 0)
           /\ buffers' = buffers
        \/ /\ NeedsUnzip(w)
           /\ \E k \in 1..LengthMax :
                buffers' = [buffers EXCEPT ![w] = Append(@, Buffer(TRUE, New1(FALSE, k)))]
           /\ Use(second, own, response[w].length)
        \/ /\ NeedsZip(w)
           /\ \E k \in 1..response[w].length :
                /\ buffers' = [buffers EXCEPT ![w] = Append(@, Buffer(TRUE, New1(TRUE, k)))]
                /\ Use(own, second, k)
        \/ /\ NeedsZip(w)
           /\ buffers' = [buffers EXCEPT ![w] =
                Freed(Append(@, Buffer(TRUE, New1(TRUE, LengthMax))), second)]
           /\ Use(own, second, 0)
    BY Zenon DEF Prepare, Allocate, NextBuffer
  <2>4. \A z, k : New1(z, k) = New(z, k)
    BY <2>2 DEF New
  <2>5. CASE /\ ~NeedsUnzip(w) /\ ~NeedsZip(w)
             /\ IF response[w].zipped THEN Use(own, own, response[w].length) ELSE Use(own, 0, 0)
             /\ buffers' = buffers
    <3>1. CASE zipped
      <4>1. Use(own, own, length)
        BY <2>5, <3>1
      <4>2. PreparedAs(w, bs, n, n, length)
        BY <2>1, <2>2, <2>5, <4>1 DEF PreparedAs
      <4> QED
        BY <2>5, <3>1, <4>2
    <3>2. CASE ~zipped
      <4>1. Use(own, 0, 0)
        BY <2>5, <3>2
      <4>2. PreparedAs(w, bs, n, 0, 0)
        BY <2>1, <2>2, <2>5, <4>1 DEF PreparedAs
      <4> QED
        BY <2>5, <3>2, <4>2
    <3> QED
      BY <3>1, <3>2
  <2>6. CASE /\ NeedsUnzip(w)
             /\ \E k \in 1..LengthMax :
                  buffers' = [buffers EXCEPT ![w] = Append(@, Buffer(TRUE, New1(FALSE, k)))]
             /\ Use(second, own, response[w].length)
    <3> PICK k \in 1..LengthMax :
              buffers' = [buffers EXCEPT ![w] = Append(@, Buffer(TRUE, New1(FALSE, k)))]
      BY Zenon, <2>6
    <3>1. PreparedAs(w, both(FALSE, k), n + 1, n, length)
      <4> HIDE DEF New1
      <4> QED
        BY <2>2, <2>4, <2>6 DEF PreparedAs, both
    <3> QED
      BY <2>6, <3>1
  <2>7. CASE /\ NeedsZip(w)
             /\ \E k \in 1..response[w].length :
                  /\ buffers' = [buffers EXCEPT ![w] = Append(@, Buffer(TRUE, New1(TRUE, k)))]
                  /\ Use(own, second, k)
    <3> PICK k \in 1..response[w].length :
              /\ buffers' = [buffers EXCEPT ![w] = Append(@, Buffer(TRUE, New1(TRUE, k)))]
              /\ Use(own, second, k)
      BY Zenon, <2>7
    <3>1. PreparedAs(w, both(TRUE, k), n, n + 1, k)
      <4> HIDE DEF New1
      <4> QED
        BY <2>2, <2>4, <2>7 DEF PreparedAs, both
    <3> QED
      BY <2>7, <3>1
  <2>8. CASE /\ NeedsZip(w)
             /\ buffers' = [buffers EXCEPT ![w] =
                  Freed(Append(@, Buffer(TRUE, New1(TRUE, LengthMax))), second)]
             /\ Use(own, second, 0)
    <3>1. PreparedAs(w, one(TRUE, LengthMax), n, n + 1, 0)
      <4> HIDE DEF New1
      <4> QED
        BY <2>2, <2>4, <2>8 DEF PreparedAs, both, one
    <3> QED
      BY <2>8, <3>1
  <2> QED
    BY Zenon, <2>3, <2>5, <2>6, <2>7, <2>8
<1> QED
  BY <1>1, <1>7, <1>8, <1>9, <1>10, <1>11, <1>12
LEMMA StartAnswerStep ==
    ASSUME WorkerTypes, NEW w \in Workers, WorkerInv(w), StartAnswer(w)
    PROVE  WorkerTypes' /\ Alone(w) /\ WorkerInv(w)'
<1>1. /\ pc[w] = "found" /\ FoundInv(w) /\ ~Nothing(w) /\ Prepare(w) /\ Counted(w)
      /\ compression' = compression /\ repo' = repo /\ response' = response
      /\ urlBuffer' = urlBuffer /\ mime' = mime /\ page' = page /\ opened' = opened
      /\ left' = left /\ wire' = wire /\ inTurn' = inTurn
  BY DEF StartAnswer, WorkerInv, searchVars, answerVars
<1>2. /\ pc' \in [Workers -> PCs] /\ pc'[w] = "header" /\ \A v \in Workers \ {w} : pc'[v] = pc[v]
  BY DEF StartAnswer, WorkerTypes, PCs
<1>3. response[w].code = 200
  BY <1>1, PrepareStep
<1>4. PICK bs, page1, zipped1, size, sent, released :
        PreparedAs(w, bs, page1, zipped1, size) /\ Fits(w, bs, page1, zipped1, size, sent, released)
  <2>1. Prepared(w)
    BY <1>1, PrepareStep
  <2> QED
    BY <2>1 DEF Prepared
<1>5. /\ buffers' \in [Workers -> Seq(BufferRecord)] /\ buffers'[w] = bs
      /\ webpage' \in [Workers -> Nat] /\ webpage'[w] = page1
      /\ gzipWebPage' \in [Workers -> Nat] /\ gzipWebPage'[w] = zipped1
      /\ sizeZip' \in [Workers -> 0..(LengthMax + 1)] /\ sizeZip'[w] = size
      /\ \A v \in Workers \ {w} :
           /\ buffers'[v] = buffers[v] /\ webpage'[v] = webpage[v]
           /\ gzipWebPage'[v] = gzipWebPage[v] /\ sizeZip'[v] = sizeZip[v]
  <2>1. /\ bs \in Seq(BufferRecord) /\ Len(bs) \in Nat /\ page1 \in Nat /\ zipped1 \in Nat
        /\ size \in 0..(LengthMax + 1)
    BY <1>4 DEF Fits
  <2> QED
    BY SMTT(60), <1>4, <2>1 DEF PreparedAs, WorkerTypes
<1> DEFINE last == keepAlive[w] /\ nbFileKeepAlive[w] <= 1
           left1 == IF keepAlive[w] THEN nbFileKeepAlive[w] - 1 ELSE nbFileKeepAlive[w]
           keep == keepAlive[w] /\ ~last
<1>6. /\ keepAlive' \in [Workers -> BOOLEAN] /\ keepAlive'[w] = keep
      /\ closing' \in [Workers -> BOOLEAN] /\ closing'[w] = last
      /\ nbFileKeepAlive' \in [Workers -> 0..KeepAliveMax] /\ nbFileKeepAlive'[w] = left1
      /\ \A v \in Workers \ {w} :
           /\ keepAlive'[v] = keepAlive[v] /\ closing'[v] = closing[v]
           /\ nbFileKeepAlive'[v] = nbFileKeepAlive[v]
  <2>1. nbFileKeepAlive[w] \in 1..KeepAliveMax
    <3>1. nbFileKeepAlive[w] \in 0..KeepAliveMax /\ nbFileKeepAlive[w] > 0
      BY <1>1 DEF WorkerInv, CountInv, WorkerTypes
    <3> QED
      BY <3>1, PageAssumption
  <2>2. left1 \in 0..KeepAliveMax
    BY <2>1, PageAssumption
  <2>3. last \in BOOLEAN /\ keep \in BOOLEAN
    OBVIOUS
  <2>4. /\ nbFileKeepAlive' = [nbFileKeepAlive EXCEPT ![w] = left1]
        /\ closing' = [closing EXCEPT ![w] = last] /\ keepAlive' = [keepAlive EXCEPT ![w] = keep]
    BY <1>1 DEF Counted
  <2> HIDE DEF left1, last, keep
  <2>5. nbFileKeepAlive' \in [Workers -> 0..KeepAliveMax] /\ nbFileKeepAlive'[w] = left1
    BY <2>2, <2>4 DEF WorkerTypes
  <2>6. closing' \in [Workers -> BOOLEAN] /\ closing'[w] = last
    BY <2>3, <2>4 DEF WorkerTypes
  <2>7. keepAlive' \in [Workers -> BOOLEAN] /\ keepAlive'[w] = keep
    BY <2>3, <2>4 DEF WorkerTypes
  <2>8. \A v \in Workers \ {w} :
          /\ keepAlive'[v] = keepAlive[v] /\ closing'[v] = closing[v]
          /\ nbFileKeepAlive'[v] = nbFileKeepAlive[v]
    BY <2>4 DEF WorkerTypes
  <2> QED
    BY <2>5, <2>6, <2>7, <2>8
<1>7. WorkerTypes'
  <2>1. \A v \in Workers : {response[v].buffer, webpage[v], gzipWebPage[v]}' \subseteq 0..Len(buffers[v])'
    <3> SUFFICES ASSUME NEW v \in Workers
                 PROVE  {response'[v].buffer, webpage'[v], gzipWebPage'[v]} \subseteq 0..Len(buffers'[v])
      OBVIOUS
    <3>1. CASE v = w
      <4>1. {response[w].buffer, page1, zipped1} \subseteq 0..Len(bs)
        BY <1>4 DEF Fits
      <4> QED
        BY <1>1, <1>5, <3>1, <4>1
    <3>2. CASE v # w
      <4>1. {response[v].buffer, webpage[v], gzipWebPage[v]} \subseteq 0..Len(buffers[v])
        BY DEF WorkerTypes
      <4> QED
        BY <1>1, <1>5, <3>2, <4>1
    <3> QED
      BY <3>1, <3>2
  <2> QED
    BY <1>1, <1>2, <1>5, <1>6, <2>1 DEF WorkerTypes
<1>8. Alone(w)
  BY <1>1, <1>2, <1>5, <1>6 DEF Alone, Untouched
<1>9. ReadyInv(w)'
  <2>1. SendsZipped(w)' = (size > 0 /\ compression[w] = "GZIP")
    BY <1>1, <1>5 DEF SendsZipped
  <2>2. ToSend(w)' = sent
    <3>1. ToSend(w)' = IF size > 0 /\ compression[w] = "GZIP" THEN zipped1 ELSE page1
      BY <1>1, <1>5 DEF SendsZipped, ToSend
    <3>2. sent = IF size > 0 /\ compression[w] = "GZIP" THEN zipped1 ELSE page1
      BY <1>4 DEF Fits
    <3> QED
      BY <3>1, <3>2
  <2>3. Released(w)' = released
    <3>1. NeedsUnzip(w)' = NeedsUnzip(w) /\ Found(w)' = Found(w)
      BY <1>1 DEF NeedsUnzip, Found
    <3>2. Released(w)' = Release(w, bs, page1, zipped1, size)
      BY <1>1, <1>5, <3>1 DEF Released, Release
    <3> QED
      BY <1>4, <3>2 DEF Fits
  <2>4. /\ sent \in 1..Len(bs) /\ bs[sent].freed = 0 /\ bs[sent].content.length > 0
        /\ bs[sent].content.zipped = (size > 0 /\ compression[w] = "GZIP")
        /\ released \in Seq(BufferRecord) /\ Len(released) = Len(bs)
        /\ FreedAtMostOnce(released) /\ FreedFrom(released, response[w].buffer)
    BY <1>4 DEF Fits
  <2>5. buffers'[w][sent].content.zipped = SendsZipped(w)'
    BY <1>5, <2>1, <2>4
  <2>6. /\ response'[w].code = 200 /\ ToSend(w)' \in 1..Len(buffers'[w])
        /\ buffers'[w][ToSend(w)'].freed = 0 /\ buffers'[w][ToSend(w)'].content.length > 0
    BY <1>1, <1>3, <1>5, <2>2, <2>4
  <2>7. /\ Released(w)' \in Seq(BufferRecord) /\ Len(Released(w)') = Len(buffers'[w])
        /\ FreedAtMostOnce(Released(w)') /\ FreedFrom(Released(w)', response'[w].buffer)
    BY <1>1, <1>5, <2>3, <2>4
  <2>8. (FreedAtMostOnce(Released(w)) /\ FreedFrom(Released(w), response[w].buffer))'
    BY <2>7 DEF FreedAtMostOnce, FreedFrom
  <2> QED
    BY <2>2, <2>5, <2>6, <2>7, <2>8 DEF ReadyInv, Ready
<1>10. SearchInv(w)' /\ FoundInv(w)'
  BY <1>2 DEF SearchInv, FoundInv
<1>11. BufferInv(w)'
  <2>1. FreedAtMostOnce(bs)
    BY <1>4 DEF Fits
  <2> QED
    BY <1>2, <1>5, <2>1 DEF BufferInv, FreedAtMostOnce
<1>12. WireInv(w)'
  <2>1. keepAlive'[w] => ~closing'[w]
    BY <1>6
  <2> QED
    BY <1>1, <1>2, <2>1 DEF WorkerInv, WireInv
<1>13. HeaderInv(w)'
  BY <1>1 DEF WorkerInv, HeaderInv
<1>14. CountInv(w)'
  <2>1. keepAlive'[w] => nbFileKeepAlive'[w] > 0
    <3>1. nbFileKeepAlive[w] \in 0..KeepAliveMax
      BY DEF WorkerTypes
    <3> QED
      BY <1>6, <3>1, PageAssumption
  <2> QED
    BY <1>2, <2>1 DEF CountInv
<1> QED
  BY <1>7, <1>8, <1>9, <1>10, <1>11, <1>12, <1>13, <1>14 DEF WorkerInv
\* What was prepared stays so until it is released.
LEMMA ReadyKept ==
    ASSUME NEW w \in Workers, Ready(w), UNCHANGED <<compression, repo, response, contentVars, buffers>>
    PROVE  Ready(w)'
<1>1. /\ ToSend(w)' = ToSend(w) /\ SendsZipped(w)' = SendsZipped(w) /\ Released(w)' = Released(w)
      /\ response' = response /\ buffers' = buffers
  BY DEF ToSend, SendsZipped, Released, NeedsUnzip, Found, contentVars
<1> QED
  BY <1>1 DEF Ready

LEMMA SendHeaderStep ==
    ASSUME WorkerTypes, NEW w \in Workers, WorkerInv(w), SendHeader(w)
    PROVE  WorkerTypes' /\ Alone(w) /\ WorkerInv(w)'
<1> DEFINE content == buffers[w][ToSend(w)].content
           zipped == SendsZipped(w)
           new == Answer(response[w].code, zipped, keepAlive[w], content)
<1>1. /\ pc[w] = "header" /\ Ready(w)
      /\ left' = [left EXCEPT ![w] = content.length] /\ wire' = [wire EXCEPT ![w] = new]
      /\ pc' = [pc EXCEPT ![w] = "body"]
      /\ compression' = compression /\ keepAlive' = keepAlive /\ closing' = closing
      /\ nbFileKeepAlive' = nbFileKeepAlive
      /\ urlBuffer' = urlBuffer /\ mime' = mime /\ repo' = repo /\ response' = response
      /\ page' = page /\ opened' = opened
      /\ webpage' = webpage /\ gzipWebPage' = gzipWebPage /\ sizeZip' = sizeZip
      /\ inTurn' = inTurn /\ buffers' = buffers
  BY DEF SendHeader, WorkerInv, ReadyInv, requestVars, searchVars, contentVars
<1>2. /\ content \in Contents /\ content.length \in 0..LengthMax /\ content.length > 0
      /\ content.zipped = zipped /\ response[w].code = 200
  <2>1. buffers[w][ToSend(w)] \in BufferRecord
    BY <1>1 DEF Ready, WorkerTypes
  <2>2. content \in Contents
    BY <2>1 DEF BufferRecord
  <2>3. content.length \in 0..LengthMax
    BY <2>2 DEF Contents
  <2> QED
    BY <1>1, <2>2, <2>3 DEF Ready
<1>3. zipped \in BOOLEAN /\ keepAlive[w] \in BOOLEAN /\ (zipped => compression[w] = "GZIP")
  BY DEF SendsZipped, WorkerTypes
<1> HIDE DEF content, zipped
<1>4. new \in Answers
  <2>1. 0 \in Nat
    OBVIOUS
  <2> QED
    BY <1>2, <1>3, <2>1 DEF Answer, Answers
<1>5. /\ new.zipped = zipped /\ new.keepAlive = keepAlive[w] /\ new.content = content
      /\ new.sent = 0 /\ new.code = 200
  BY <1>2 DEF Answer
<1> HIDE DEF new
<1>6. /\ pc' \in [Workers -> PCs] /\ pc'[w] = "body"
      /\ left' \in [Workers -> 0..LengthMax] /\ left'[w] = content.length
      /\ wire' \in [Workers -> Answers] /\ wire'[w] = new
      /\ \A v \in Workers \ {w} : pc'[v] = pc[v] /\ left'[v] = left[v] /\ wire'[v] = wire[v]
  BY SMTT(60), <1>1, <1>2, <1>4 DEF WorkerTypes, PCs
<1>7. WorkerTypes'
  BY <1>1, <1>6 DEF WorkerTypes
<1>8. Alone(w)
  BY <1>1, <1>6 DEF Alone, Untouched
<1>9. ReadyInv(w)'
  BY <1>1, ReadyKept DEF ReadyInv, contentVars
<1>10. SearchInv(w)' /\ FoundInv(w)'
  BY <1>6 DEF SearchInv, FoundInv
<1>11. BufferInv(w)'
  BY <1>1, <1>6 DEF WorkerInv, BufferInv, FreedAtMostOnce
<1>12. WireInv(w)'
  <2>1. inTurn[w] /\ (keepAlive[w] => ~closing[w])
    BY <1>1 DEF WorkerInv, WireInv
  <2>2. /\ wire'[w].keepAlive = keepAlive[w] /\ left'[w] > 0
        /\ wire'[w].sent + left'[w] = wire'[w].content.length
    BY <1>2, <1>5, <1>6
  <2> QED
    BY <1>1, <1>6, <2>1, <2>2 DEF WireInv
<1>13. HeaderInv(w)'
  <2>1. wire'[w].zipped = wire'[w].content.zipped
    BY <1>2, <1>5, <1>6
  <2>2. wire'[w].zipped => compression'[w] = "GZIP"
    BY <1>1, <1>3, <1>5, <1>6
  <2>3. wire'[w].code = 200
    BY <1>5, <1>6
  <2> QED
    BY <2>1, <2>2, <2>3 DEF HeaderInv
<1>14. CountInv(w)'
  BY <1>1, <1>6 DEF WorkerInv, CountInv
<1> QED
  BY <1>7, <1>8, <1>9, <1>10, <1>11, <1>12, <1>13, <1>14 DEF WorkerInv

LEMMA SendBodyStep ==
    ASSUME WorkerTypes, NEW w \in Workers, WorkerInv(w), SendBody(w)
    PROVE  WorkerTypes' /\ Alone(w) /\ WorkerInv(w)'
<1>1. /\ pc[w] = "body" /\ Ready(w)
      /\ compression' = compression /\ keepAlive' = keepAlive /\ closing' = closing
      /\ nbFileKeepAlive' = nbFileKeepAlive
      /\ urlBuffer' = urlBuffer /\ mime' = mime /\ repo' = repo /\ response' = response
      /\ page' = page /\ opened' = opened
      /\ webpage' = webpage /\ gzipWebPage' = gzipWebPage /\ sizeZip' = sizeZip
      /\ inTurn' = inTurn /\ buffers' = buffers
  BY DEF SendBody, WorkerInv, ReadyInv, requestVars, searchVars, contentVars
<1>2. PICK n \in 1..left[w] :
        /\ left' = [left EXCEPT ![w] = left[w] - n]
        /\ wire' = [wire EXCEPT ![w].sent = @ + n]
        /\ pc' = [pc EXCEPT ![w] = IF n = left[w] THEN "free" ELSE "body"]
  BY DEF SendBody
<1>3. left[w] \in 0..LengthMax /\ wire[w] \in Answers /\ wire[w].sent \in Nat
  <2>1. wire[w] \in Answers
    BY DEF WorkerTypes
  <2>2. wire[w].sent \in Nat
    BY <2>1 DEF Answers
  <2> QED
    BY <2>1, <2>2 DEF WorkerTypes
<1> DEFINE new == [wire[w] EXCEPT !.sent = @ + n]
<1>4. /\ new \in Answers /\ new.zipped = wire[w].zipped /\ new.keepAlive = wire[w].keepAlive
      /\ new.content = wire[w].content /\ new.code = wire[w].code /\ new.sent = wire[w].sent + n
  <2>1. wire[w].sent + n \in Nat
    BY <1>3
  <2>2. new \in Answers
    BY <1>3, <2>1 DEF Answers
  <2>3. new.sent = wire[w].sent + n /\ new.content = wire[w].content /\ new.code = wire[w].code
    BY <1>3 DEF Answers
  <2>4. new.zipped = wire[w].zipped
    BY <1>3 DEF Answers
  <2>5. new.keepAlive = wire[w].keepAlive
    BY <1>3 DEF Answers
  <2> QED
    BY <2>2, <2>3, <2>4, <2>5
<1>5. wire' = [wire EXCEPT ![w] = new]
  BY <1>2
<1> HIDE DEF new
<1>6. /\ pc' \in [Workers -> PCs] /\ pc'[w] = IF n = left[w] THEN "free" ELSE "body"
      /\ left' \in [Workers -> 0..LengthMax] /\ left'[w] = left[w] - n
      /\ wire' \in [Workers -> Answers] /\ wire'[w] = new
      /\ \A v \in Workers \ {w} : pc'[v] = pc[v] /\ left'[v] = left[v] /\ wire'[v] = wire[v]
  <2>1. left[w] - n \in 0..LengthMax
    BY <1>3, PageAssumption
  <2>2. left' \in [Workers -> 0..LengthMax] /\ left'[w] = left[w] - n
    BY <1>2, <2>1 DEF WorkerTypes
  <2>3. wire' \in [Workers -> Answers] /\ wire'[w] = new
    BY <1>4, <1>5 DEF WorkerTypes
  <2>4. pc' \in [Workers -> PCs] /\ pc'[w] = IF n = left[w] THEN "free" ELSE "body"
    BY <1>2 DEF WorkerTypes, PCs
  <2>5. \A v \in Workers \ {w} : pc'[v] = pc[v] /\ left'[v] = left[v] /\ wire'[v] = wire[v]
    BY <1>2, <1>5 DEF WorkerTypes
  <2> QED
    BY <2>2, <2>3, <2>4, <2>5
<1>7. WorkerTypes'
  BY <1>1, <1>6 DEF WorkerTypes
<1>8. Alone(w)
  BY <1>1, <1>6 DEF Alone, Untouched
<1>9. ReadyInv(w)'
  BY <1>1, ReadyKept DEF ReadyInv, contentVars
<1>10. SearchInv(w)' /\ FoundInv(w)'
  BY <1>6 DEF SearchInv, FoundInv
<1>11. BufferInv(w)'
  BY <1>1, <1>6 DEF WorkerInv, BufferInv, FreedAtMostOnce
<1>12. WireInv(w)'
  <2>1. /\ inTurn[w] /\ (keepAlive[w] => ~closing[w]) /\ wire[w].keepAlive = keepAlive[w]
        /\ wire[w].sent + left[w] = wire[w].content.length
    BY <1>1 DEF WorkerInv, WireInv
  <2>2. wire'[w].keepAlive = keepAlive'[w] /\ inTurn'[w] /\ (keepAlive'[w] => ~closing'[w])
    BY <1>1, <1>4, <1>6, <2>1
  <2>3. CASE n = left[w]
    <3>1. pc'[w] = "free" /\ wire'[w].sent = wire'[w].content.length
      BY <1>4, <1>6, <2>1, <2>3
    <3> QED
      BY <2>2, <3>1 DEF WireInv, Whole
  <2>4. CASE n # left[w]
    <3>1. pc'[w] = "body" /\ left'[w] > 0
      BY <1>3, <1>6, <2>4
    <3>2. wire'[w].sent + left'[w] = wire'[w].content.length
      BY <1>3, <1>4, <1>6, <2>1
    <3> QED
      BY <2>2, <3>1, <3>2 DEF WireInv
  <2> QED
    BY <2>3, <2>4
<1>13. HeaderInv(w)'
  <2>1. /\ wire'[w].zipped = wire[w].zipped /\ wire'[w].content = wire[w].content
        /\ wire'[w].code = wire[w].code
    BY <1>4, <1>6
  <2> QED
    BY <1>1, <2>1 DEF WorkerInv, HeaderInv
<1>14. CountInv(w)'
  BY <1>1, <1>6 DEF WorkerInv, CountInv
<1> QED
  BY <1>7, <1>8, <1>9, <1>10, <1>11, <1>12, <1>13, <1>14 DEF WorkerInv

LEMMA SendFailsStep ==
    ASSUME WorkerTypes, NEW w \in Workers, WorkerInv(w), SendFails(w)
    PROVE  WorkerTypes' /\ Alone(w) /\ WorkerInv(w)'
<1>1. /\ pc[w] = "body" /\ Ready(w)
      /\ compression' = compression /\ keepAlive' = keepAlive /\ nbFileKeepAlive' = nbFileKeepAlive
      /\ urlBuffer' = urlBuffer /\ mime' = mime /\ repo' = repo /\ response' = response
      /\ page' = page /\ opened' = opened
      /\ webpage' = webpage /\ gzipWebPage' = gzipWebPage /\ sizeZip' = sizeZip
      /\ wire' = wire /\ inTurn' = inTurn /\ buffers' = buffers
  BY DEF SendFails, WorkerInv, ReadyInv, searchVars, contentVars
<1>2. /\ pc' \in [Workers -> PCs] /\ pc'[w] = "free"
      /\ left' \in [Workers -> 0..LengthMax]
      /\ closing' \in [Workers -> BOOLEAN] /\ closing'[w] = TRUE
      /\ \A v \in Workers \ {w} : pc'[v] = pc[v] /\ left'[v] = left[v] /\ closing'[v] = closing[v]
  BY SMTT(60), PageAssumption DEF SendFails, SendFailed, WorkerTypes, PCs
<1>3. WorkerTypes'
  BY <1>1, <1>2 DEF WorkerTypes
<1>4. Alone(w)
  BY <1>1, <1>2 DEF Alone, Untouched
<1>5. ReadyInv(w)'
  BY <1>1, ReadyKept DEF ReadyInv, contentVars
<1>6. SearchInv(w)' /\ FoundInv(w)'
  BY <1>2 DEF SearchInv, FoundInv
<1>7. BufferInv(w)'
  BY <1>1, <1>2 DEF WorkerInv, BufferInv, FreedAtMostOnce
<1>8. WireInv(w)'
  <2>1. /\ inTurn[w] /\ wire[w].keepAlive = keepAlive[w]
        /\ left[w] > 0 /\ wire[w].sent + left[w] = wire[w].content.length
    BY <1>1 DEF WorkerInv, WireInv
  <2>2. wire[w].sent \in Nat /\ left[w] \in Nat
    BY DEF WorkerTypes, Answers
  <2>3. ~Whole(wire[w])
    BY <2>1, <2>2 DEF Whole
  <2> QED
    BY <1>1, <1>2, <2>1, <2>3 DEF WireInv
<1>9. HeaderInv(w)' /\ CountInv(w)'
  BY <1>1, <1>2 DEF WorkerInv, HeaderInv, CountInv
<1> QED
  BY <1>3, <1>4, <1>5, <1>6, <1>7, <1>8, <1>9 DEF WorkerInv

LEMMA EndAnswerStep ==
    ASSUME WorkerTypes, NEW w \in Workers, WorkerInv(w), EndAnswer(w)
    PROVE  WorkerTypes' /\ Alone(w) /\ WorkerInv(w)'
<1> DEFINE bs == Released(w)
<1>1. /\ pc[w] = "free" /\ Ready(w)
      /\ compression' = compression /\ keepAlive' = keepAlive /\ closing' = closing
      /\ nbFileKeepAlive' = nbFileKeepAlive
      /\ urlBuffer' = urlBuffer /\ mime' = mime /\ repo' = repo /\ response' = response
      /\ page' = page /\ opened' = opened
      /\ webpage' = webpage /\ gzipWebPage' = gzipWebPage /\ sizeZip' = sizeZip
      /\ left' = left /\ wire' = wire /\ inTurn' = inTurn
      /\ buffers' = [buffers EXCEPT ![w] = bs]
      /\ pc' = [pc EXCEPT ![w] = IF keepAlive[w] /\ ~closing[w] THEN "idle" ELSE "closed"]
  BY DEF EndAnswer, WorkerInv, ReadyInv, requestVars, searchVars, contentVars, answerVars
<1>2. /\ bs \in Seq(BufferRecord) /\ Len(bs) = Len(buffers[w])
      /\ FreedAtMostOnce(bs) /\ FreedFrom(bs, response[w].buffer)
  BY <1>1 DEF Ready
<1> HIDE DEF bs
<1>3. /\ buffers' \in [Workers -> Seq(BufferRecord)] /\ buffers'[w] = bs
      /\ pc' \in [Workers -> PCs]
      /\ pc'[w] = IF keepAlive[w] /\ ~closing[w] THEN "idle" ELSE "closed"
      /\ \A v \in Workers \ {w} : pc'[v] = pc[v] /\ buffers'[v] = buffers[v]
  BY <1>1, <1>2 DEF WorkerTypes, PCs
<1>4. WorkerTypes'
  <2>1. \A v \in Workers : {response[v].buffer, webpage[v], gzipWebPage[v]}' \subseteq 0..Len(buffers[v])'
    <3> SUFFICES ASSUME NEW v \in Workers
                 PROVE  {response'[v].buffer, webpage'[v], gzipWebPage'[v]} \subseteq 0..Len(buffers'[v])
      OBVIOUS
    <3>1. {response[v].buffer, webpage[v], gzipWebPage[v]} \subseteq 0..Len(buffers[v])
      BY DEF WorkerTypes
    <3>2. Len(buffers'[v]) = Len(buffers[v])
      BY <1>2, <1>3
    <3> QED
      BY <1>1, <3>1, <3>2
  <2> QED
    BY <1>1, <1>3, <2>1 DEF WorkerTypes
<1>5. Alone(w)
  BY <1>1, <1>3 DEF Alone, Untouched
<1>6. SearchInv(w)' /\ FoundInv(w)' /\ ReadyInv(w)'
  BY <1>3 DEF SearchInv, FoundInv, ReadyInv
<1>7. BufferInv(w)'
  BY <1>1, <1>2, <1>3 DEF BufferInv, FreedAtMostOnce, FreedFrom
<1>8. WireInv(w)'
  <2>1. /\ inTurn[w] /\ wire[w].keepAlive = keepAlive[w]
        /\ \/ Whole(wire[w]) /\ (keepAlive[w] => ~closing[w])
           \/ ~Whole(wire[w]) /\ closing[w]
    BY <1>1 DEF WorkerInv, WireInv
  <2>2. CASE keepAlive[w] /\ ~closing[w]
    <3>1. pc'[w] = "idle" /\ Whole(wire[w]) /\ wire[w].keepAlive
      BY <1>3, <2>1, <2>2
    <3> QED
      BY <1>1, <2>1, <3>1 DEF WireInv
  <2>3. CASE ~(keepAlive[w] /\ ~closing[w])
    <3>1. pc'[w] = "closed" /\ (Whole(wire[w]) => ~wire[w].keepAlive)
      BY <1>3, <2>1, <2>3
    <3> QED
      BY <1>1, <2>1, <3>1 DEF WireInv
  <2> QED
    BY <2>2, <2>3
<1>9. HeaderInv(w)' /\ CountInv(w)'
  BY <1>1, <1>3 DEF WorkerInv, HeaderInv, CountInv
<1> QED
  BY <1>4, <1>5, <1>6, <1>7, <1>8, <1>9 DEF WorkerInv
(***************************************************************************)
(* The repositories that were passed over                                  *)
(***************************************************************************)
\* FirstRepository, of one worker.
First(w) ==
    pc[w] = "search" /\ ~excuse[w] => \A r \in 1..(repo[w] - 1) : ~Holds(Repos[r], urlBuffer[w])

LEMMA FirstKept ==
    ASSUME NEW v, First(v), Untouched(v), excuse'[v] = excuse[v], UNCHANGED appVars
    PROVE  First(v)'
BY DEF First, Untouched, Holds, appVars

LEMMA HitFirst ==
    ASSUME WorkerTypes, NEW w \in Workers, NEW r, Returned(w, TRUE, r)
    PROVE  First(w)'
<1>1. CASE r.forward # NoUrl
  <2>1. repo'[w] = 1
    BY <1>1 DEF Returned, Restart, WorkerTypes
  <2> QED
    BY <2>1 DEF First
<1>2. CASE r.forward = NoUrl
  <2>1. pc'[w] = "found"
    BY <1>2 DEF Returned, WorkerTypes
  <2> QED
    BY <2>1 DEF First
<1> QED
  BY <1>1, <1>2

\* A repository is passed over that does not have the page.
LEMMA MissFirst ==
    ASSUME WorkerTypes, NEW w \in Workers, First(w), pc[w] = "search", repo[w] \in 1..Len(Repos),
           NEW r, Returned(w, FALSE, r), ~Holds(Repos[repo[w]], urlBuffer[w]),
           excuse' = excuse, UNCHANGED appVars
    PROVE  First(w)'
<1>1. repo'[w] = repo[w] + 1 /\ urlBuffer'[w] = urlBuffer[w]
  BY DEF Returned, Advance, WorkerTypes
<1>2. SUFFICES ASSUME ~excuse[w]
               PROVE  \A k \in 1..(repo'[w] - 1) : ~Holds(Repos[k], urlBuffer[w])
  BY <1>1 DEF First, Holds, appVars
<1> SUFFICES ASSUME NEW k \in 1..(repo'[w] - 1)
             PROVE  ~Holds(Repos[k], urlBuffer[w])
  OBVIOUS
<1>3. CASE k = repo[w]
  BY <1>3
<1>4. CASE k # repo[w]
  <2>1. k \in 1..(repo[w] - 1)
    BY <1>1, <1>4
  <2> QED
    BY <1>2, <2>1 DEF First
<1> QED
  BY <1>3, <1>4

LEMMA ExcusedFirst ==
    ASSUME AppTypes, NEW w \in Workers, excuse' = [excuse EXCEPT ![w] = TRUE]
    PROVE  First(w)'
BY DEF AppTypes, First

LEMMA StepFirst ==
    ASSUME WorkerTypes, AppTypes, NEW w \in Workers, WorkerInv(w), First(w), Request(w) \/ WorkerStep(w)
    PROVE  /\ UNCHANGED appVars /\ First(w)'
           /\ excuse' \in [Workers -> BOOLEAN] /\ \A v \in Workers \ {w} : excuse'[v] = excuse[v]
<1>1. excuse \in [Workers -> BOOLEAN]
  BY DEF AppTypes
<1>2. excuse' = excuse => /\ excuse' \in [Workers -> BOOLEAN]
                          /\ \A v \in Workers \ {w} : excuse'[v] = excuse[v]
  BY <1>1
<1>3. excuse' = [excuse EXCEPT ![w] = TRUE] =>
        /\ excuse' \in [Workers -> BOOLEAN] /\ \A v \in Workers \ {w} : excuse'[v] = excuse[v]
  BY <1>1
<1>4. CASE Request(w)
  <2>1. /\ UNCHANGED appVars /\ repo'[w] = 1
        /\ excuse' \in [Workers -> BOOLEAN] /\ \A v \in Workers \ {w} : excuse'[v] = excuse[v]
    BY <1>1, <1>4 DEF Request, WorkerTypes
  <2> QED
    BY <2>1 DEF First
<1>5. CASE DynamicLookup(w)
  <2>1. UNCHANGED appVars /\ excuse' = excuse
    BY <1>5 DEF DynamicLookup
  <2>2. pc[w] = "search" /\ repo[w] \in 1..Len(Repos) /\ Repos[repo[w]] = "dynamic"
    BY <1>5, SearchesAt DEF DynamicLookup, Searching
  <2>3. CASE indexMap[urlBuffer[w]].page = NoPage /\ Returned(w, FALSE, response[w])
    <3>1. ~Holds(Repos[repo[w]], urlBuffer[w])
      BY <2>2, <2>3 DEF Holds
    <3> QED
      BY <1>2, <2>1, <2>2, <2>3, <3>1, MissFirst
  <2>4. CASE pc' = [pc EXCEPT ![w] = "page"]
    BY <1>2, <2>1, <2>4 DEF First, WorkerTypes
  <2> QED
    BY <1>5, <2>3, <2>4 DEF DynamicLookup
<1>6. CASE RunPage(w)
  <2>1. UNCHANGED appVars
    BY <1>6 DEF RunPage
  <2> DEFINE Ran(o, r) ==
               /\ Returned(w, o.found, r)
               /\ excuse' = [excuse EXCEPT ![w] = IF o.found THEN o.forward = NoUrl /\ @ ELSE TRUE]
  <2>a. PICK o \in Outcomes[page[w]] : \E r : Ran(o, r)
    BY <1>6 DEF RunPage
  <2>2. PICK r : Ran(o, r)
    BY <2>a
  <2>3. o.found \in BOOLEAN
    <3>1. page[w] \in Pages
      BY <1>6, SearchesAt DEF RunPage
    <3>2. o \in Outcome
      BY <3>1, PageAssumption
    <3> QED
      BY <3>2 DEF Outcome
  <2>4. CASE o.found = TRUE
    <3>1. Returned(w, TRUE, r)
      BY <2>2, <2>4
    <3>2. First(w)'
      BY <3>1, HitFirst
    <3>3. PICK e \in BOOLEAN : excuse' = [excuse EXCEPT ![w] = e]
      <4> DEFINE e == o.forward = NoUrl /\ excuse[w]
      <4>1. excuse' = [excuse EXCEPT ![w] = e] /\ e \in BOOLEAN
        BY <2>2, <2>4
      <4> HIDE DEF e
      <4> QED
        BY <4>1
    <3>4. excuse' \in [Workers -> BOOLEAN] /\ \A v \in Workers \ {w} : excuse'[v] = excuse[v]
      BY <1>1, <3>3
    <3> QED
      BY <2>1, <3>2, <3>4
  <2>5. CASE o.found = FALSE
    <3>1. excuse' = [excuse EXCEPT ![w] = TRUE]
      BY <2>2, <2>5
    <3> QED
      BY <1>3, <2>1, <3>1, ExcusedFirst
  <2> QED
    BY <2>3, <2>4, <2>5
<1>7. CASE LocalMiss(w)
  <2>1. UNCHANGED appVars /\ Returned(w, FALSE, response[w])
    BY <1>7 DEF LocalMiss
  <2>2. pc[w] = "search" /\ repo[w] \in 1..Len(Repos) /\ Repos[repo[w]] = "local"
    BY <1>7, SearchesAt DEF LocalMiss, Searching
  <2>3. CASE urlBuffer[w] \notin filenamesSet /\ excuse' = excuse
    <3>1. ~Holds(Repos[repo[w]], urlBuffer[w])
      BY <2>2, <2>3 DEF Holds
    <3> QED
      BY <1>2, <2>1, <2>2, <2>3, <3>1, MissFirst
  <2>4. CASE excuse' = [excuse EXCEPT ![w] = TRUE]
    BY <1>3, <2>1, <2>4, ExcusedFirst
  <2> QED
    BY <1>7, <2>3, <2>4 DEF LocalMiss
<1>8. CASE LocalRead(w)
  <2>1. UNCHANGED appVars
    BY <1>8 DEF LocalRead
  <2>2. CASE excuse' = [excuse EXCEPT ![w] = TRUE]
    BY <1>3, <2>1, <2>2, ExcusedFirst
  <2>3. CASE excuse' = excuse /\ \E r : Returned(w, TRUE, r)
    BY <1>2, <2>1, <2>3, HitFirst
  <2> QED
    BY <1>8, <2>2, <2>3 DEF LocalRead
<1>9. CASE PrecompiledLookup(w)
  <2>1. UNCHANGED appVars /\ excuse' = excuse
    BY <1>9 DEF PrecompiledLookup
  <2>2. pc[w] = "search" /\ repo[w] \in 1..Len(Repos) /\ Repos[repo[w]] = "precompiled"
    BY <1>9, SearchesAt DEF PrecompiledLookup, Searching
  <2>3. CASE Precompiled[urlBuffer[w]] = "none" /\ Returned(w, FALSE, response[w])
    <3>1. ~Holds(Repos[repo[w]], urlBuffer[w])
      BY <2>2, <2>3 DEF Holds
    <3> QED
      BY <1>2, <2>1, <2>2, <2>3, <3>1, MissFirst
  <2>4. CASE \E r : Returned(w, TRUE, r)
    BY <1>2, <2>1, <2>4, HitFirst
  <2> QED
    BY <1>9, <2>3, <2>4 DEF PrecompiledLookup
<1>10. CASE pc'[w] # "search" /\ UNCHANGED appVars /\ excuse' = excuse
  BY <1>2, <1>10 DEF First
<1>11. CASE RunDeletedPage(w) \/ LocalOpen(w) \/ NotFound(w) \/ AnswerNothing(w) \/ ZipFails(w)
  <2>1. UNCHANGED appVars /\ excuse' = excuse
    BY <1>11 DEF RunDeletedPage, LocalOpen, NotFound, AnswerNothing, ZipFails, searchVars
  <2>2. pc'[w] # "search"
    BY <1>11 DEF RunDeletedPage, LocalOpen, NotFound, AnswerNothing, ZipFails, LastMessage, WorkerTypes
  <2> QED
    BY <1>10, <2>1, <2>2
<1>12. CASE StartAnswer(w) \/ SendHeader(w) \/ SendBody(w) \/ SendFails(w) \/ EndAnswer(w)
  <2>1. UNCHANGED appVars /\ excuse' = excuse
    BY <1>12 DEF StartAnswer, SendHeader, SendBody, SendFails, EndAnswer, searchVars
  <2>2. pc'[w] # "search"
    BY <1>12 DEF StartAnswer, SendHeader, SendBody, SendFails, EndAnswer, WorkerTypes
  <2> QED
    BY <1>10, <2>1, <2>2
<1> QED
  BY <1>4, <1>5, <1>6, <1>7, <1>8, <1>9, <1>11, <1>12 DEF WorkerStep
(***************************************************************************)
(* The invariant                                                           *)
(***************************************************************************)
LEMMA InitInv == Init => IInv
<1> SUFFICES ASSUME Init PROVE IInv
  OBVIOUS
<1> USE PageAssumption DEF Init
<1>1. NoResponse \in Responses /\ NoAnswer \in Answers
  BY DEF NoResponse, Responses, Lengths, NoAnswer, Answer, Answers
<1>2. WorkerTypes
  <2>1. <<>> \in Seq(BufferRecord) /\ Len(<<>>) = 0
    OBVIOUS
  <2>2. \A w \in Workers : {response[w].buffer, webpage[w], gzipWebPage[w]} \subseteq 0..Len(buffers[w])
    BY <2>1 DEF NoResponse
  <2>3. /\ repo \in [Workers -> 1..(Len(Repos) + 1)] /\ opened \in [Workers -> Lengths]
        /\ sizeZip \in [Workers -> 0..(LengthMax + 1)] /\ left \in [Workers -> 0..LengthMax]
        /\ nbFileKeepAlive \in [Workers -> 0..KeepAliveMax]
    BY DEF Lengths
  <2> QED
    BY <1>1, <2>1, <2>2, <2>3 DEF WorkerTypes, PCs
<1>3. AppTypes
  <2>1. NoEntry \in [page : Pages \cup {NoPage}, owned : BOOLEAN]
    BY DEF NoEntry
  <2>2. \A u \in Urls : [length |-> IF u \in FileUrls THEN 1 ELSE Absent, version |-> 0]
                          \in [length : Lengths \cup {Absent}, version : 0..ChangeMax]
    BY DEF Lengths
  <2> QED
    BY <2>1, <2>2 DEF AppTypes
<1>4. IndexInv
  BY DEF IndexInv, NoEntry
<1>5. ASSUME NEW w \in Workers PROVE WorkerInv(w)
  <2>1. /\ pc[w] = "idle" /\ buffers[w] = <<>> /\ wire[w] = NoAnswer /\ inTurn[w]
        /\ nbFileKeepAlive[w] = KeepAliveMax
    OBVIOUS
  <2>2. SearchInv(w) /\ FoundInv(w) /\ ReadyInv(w)
    BY <2>1 DEF SearchInv, FoundInv, ReadyInv
  <2>3. BufferInv(w)
    <3>1. FreedAtMostOnce(<<>>) /\ \A own : FreedFrom(<<>>, own)
      BY DEF FreedAtMostOnce, FreedFrom
    <3> QED
      BY <2>1, <3>1 DEF BufferInv
  <2>4. WireInv(w)
    BY <2>1 DEF WireInv
  <2>5. HeaderInv(w)
    <3>1. /\ NoAnswer.zipped = FALSE /\ NoAnswer.content.zipped = FALSE
          /\ NoAnswer.content.length = 0
      BY DEF NoAnswer, Answer, NoContent, Content
    <3>2. wire[w].zipped = FALSE /\ wire[w].content.zipped = FALSE
      BY <2>1, <3>1
    <3>3. ~(wire[w].content.length > 0)
      BY <2>1, <3>1
    <3>4. wire[w].zipped = wire[w].content.zipped
      BY <3>2
    <3>5. ~wire[w].zipped
      BY <3>2
    <3> QED
      BY <3>3, <3>4, <3>5 DEF HeaderInv
  <2>6. CountInv(w)
    BY <2>1 DEF CountInv
  <2> QED
    BY <2>2, <2>3, <2>4, <2>5, <2>6 DEF WorkerInv
<1>6. FirstRepository
  BY DEF FirstRepository
<1> QED
  BY <1>2, <1>3, <1>4, <1>5, <1>6, TypesSplit DEF IInv

LEMMA StepKept ==
    ASSUME WorkerTypes, AppTypes, NEW w \in Workers, WorkerInv(w), Request(w) \/ WorkerStep(w)
    PROVE  WorkerTypes' /\ Alone(w) /\ WorkerInv(w)'
<1>1. CASE Request(w)
  BY <1>1, RequestStep
<1>2. CASE DynamicLookup(w) \/ RunPage(w) \/ RunDeletedPage(w)
  BY <1>2, DynamicLookupStep, RunPageStep, RunDeletedPageStep
<1>3. CASE LocalMiss(w) \/ LocalOpen(w) \/ LocalRead(w) \/ PrecompiledLookup(w)
  BY <1>3, LocalMissStep, LocalOpenStep, LocalReadStep, PrecompiledLookupStep
<1>4. CASE NotFound(w) \/ AnswerNothing(w) \/ ZipFails(w) \/ StartAnswer(w)
  BY <1>4, NotFoundStep, AnswerNothingStep, ZipFailsStep, StartAnswerStep
<1>5. CASE SendHeader(w) \/ SendBody(w) \/ SendFails(w) \/ EndAnswer(w)
  BY <1>5, SendHeaderStep, SendBodyStep, SendFailsStep, EndAnswerStep
<1> QED
  BY <1>1, <1>2, <1>3, <1>4, <1>5 DEF WorkerStep

LEMMA NextInv ==
    ASSUME IInv, Next
    PROVE  IInv'
<1>1. WorkerTypes /\ AppTypes /\ TypeInv /\ IndexInv /\ FirstRepository
  BY TypesSplit DEF IInv
<1>2. \A v \in Workers : WorkerInv(v)
  BY DEF IInv
<1>3. CASE AppStep
  <2>1. WorkerTypes' /\ \A v \in Workers : Untouched(v)
    BY <1>1, <1>3, AppStepKept
  <2>2. AppTypes' /\ IndexInv' /\ FirstRepository'
    BY <1>1, <1>3, AppTypesStep, AppIndex, AppFirst
  <2>3. \A v \in Workers : WorkerInv(v)'
    BY <1>2, <2>1, WorkerKept
  <2>4. TypeInv'
    BY <2>1, <2>2, TypesSplit, PTL
  <2> QED
    BY <2>2, <2>3, <2>4 DEF IInv
<1>4. CASE \E w \in Workers : Request(w) \/ WorkerStep(w)
  <2> PICK w \in Workers : Request(w) \/ WorkerStep(w)
    BY <1>4
  <2>1. WorkerTypes' /\ Alone(w) /\ WorkerInv(w)'
    BY <1>1, <1>2, StepKept
  <2>2. \A v \in Workers : First(v)
    BY <1>1 DEF FirstRepository, First
  <2>3. /\ UNCHANGED appVars /\ First(w)'
        /\ excuse' \in [Workers -> BOOLEAN] /\ \A v \in Workers \ {w} : excuse'[v] = excuse[v]
    BY <1>1, <1>2, <2>2, StepFirst
  <2>4. \A v \in Workers : WorkerInv(v)'
    <3> SUFFICES ASSUME NEW v \in Workers PROVE WorkerInv(v)'
      OBVIOUS
    <3>1. CASE v = w
      BY <2>1, <3>1
    <3>2. CASE v # w
      <4>1. Untouched(v)
        BY <2>1, <3>2 DEF Alone
      <4> QED
        BY <1>2, <4>1, WorkerKept
    <3> QED
      BY <3>1, <3>2
  <2>5. FirstRepository'
    <3>1. \A v \in Workers : First(v)'
      <4> SUFFICES ASSUME NEW v \in Workers PROVE First(v)'
        OBVIOUS
      <4>1. CASE v = w
        BY <2>3, <4>1
      <4>2. CASE v # w
        <5>1. Untouched(v) /\ excuse'[v] = excuse[v]
          BY <2>1, <2>3, <4>2 DEF Alone
        <5> QED
          BY <2>2, <2>3, <5>1, FirstKept
      <4> QED
        BY <4>1, <4>2
    <3> QED
      BY <3>1 DEF FirstRepository, First
  <2>6. AppTypes' /\ IndexInv'
    BY <1>1, <2>3 DEF AppTypes, IndexInv, appVars
  <2>7. TypeInv'
    BY <2>1, <2>6, TypesSplit, PTL
  <2> QED
    BY <2>4, <2>5, <2>6, <2>7 DEF IInv
<1> QED
  BY <1>3, <1>4 DEF Next

LEMMA StutterInv ==
    ASSUME IInv, UNCHANGED vars
    PROVE  IInv'
<1> USE DEF vars, appVars, requestVars, searchVars, contentVars, answerVars
<1>1. TypeInv' /\ IndexInv'
  BY DEF IInv, TypeInv, TypeOK, IndexInv
<1>2. \A v \in Workers : WorkerInv(v)'
  <2>1. \A v \in Workers : WorkerInv(v) /\ Untouched(v)
    BY DEF IInv, Untouched
  <2> QED
    BY <2>1, WorkerKept
<1>3. FirstRepository'
  BY DEF IInv, FirstRepository, Holds
<1> QED
  BY <1>1, <1>2, <1>3 DEF IInv

LEMMA AnswerInvariant == Spec => []IInv
<1>1. Init => IInv
  BY InitInv
<1>2. IInv /\ [Next]_vars => IInv'
  BY NextInv, StutterInv
<1> QED
  BY <1>1, <1>2, PTL DEF Spec

(***************************************************************************)
(* The theorems                                                            *)
(***************************************************************************)
\* The local variables of accept_request(), the response, the buffers and the
\* repositories stay within their types: nbFileKeepAlive counts down to 0 and
\* no further, and webpage and gzipWebPage are buffers of the request.
THEOREM AnswerTypeCorrect == Spec => []TypeOK
<1>1. IInv => TypeOK
  BY DEF IInv, TypeInv
<1> QED
  BY <1>1, AnswerInvariant, PTL

\* The first repository that holds a page answers for it, whatever the pages
\* forward to, refuse or leave in the response, and whatever the application
\* changes meanwhile (the loop over webRepositories in accept_request()).
THEOREM FirstAnswers == Spec => []FirstRepository
<1>1. IInv => FirstRepository
  BY DEF IInv
<1> QED
  BY <1>1, AnswerInvariant, PTL

\* Content-Encoding says what the body is, the body is zipped only for a client
\* that unzips, and no 204 has one, on every way through the compression.
THEOREM HeaderDescribesBody == Spec => []HeaderMatchesBody
<1>1. IInv => HeaderMatchesBody
  BY DEF IInv, WorkerInv, HeaderInv, HeaderMatchesBody
<1> QED
  BY <1>1, AnswerInvariant, PTL

\* An answer follows another one only if that was sent whole and its header
\* offered to keep the connection (httpSend2(), keepAlive, closing).
THEOREM AnswersFollow == Spec => []AnswersInTurn
<1>1. IInv => AnswersInTurn
  BY DEF IInv, WorkerInv, WireInv, AnswersInTurn
<1> QED
  BY <1>1, AnswerInvariant, PTL

\* The buffers of a request are freed once, after they were sent, and those of
\* the precompiled pages never, however many a request has had (freeFile(), and
\* free() of what was zipped or unzipped).
THEOREM FreedOnce == Spec => []BuffersFreed
<1>1. IInv => BuffersFreed
  <2> SUFFICES ASSUME IInv, NEW w \in Workers
               PROVE  /\ \A b \in 1..Len(buffers[w]) :
                           /\ buffers[w][b].freed <= (IF buffers[w][b].heap THEN 1 ELSE 0)
                           /\ pc[w] \in {"idle", "closed"} /\ buffers[w][b].heap /\ response[w].buffer \in 1..b
                                => buffers[w][b].freed = 1
                      /\ pc[w] \in {"header", "body"} => buffers[w][ToSend(w)].freed = 0
    BY DEF BuffersFreed
  <2>1. ReadyInv(w) /\ BufferInv(w)
    BY DEF IInv, WorkerInv
  <2>2. pc[w] \in {"header", "body"} => buffers[w][ToSend(w)].freed = 0
    BY <2>1 DEF ReadyInv, Ready
  <2>3. FreedAtMostOnce(buffers[w]) /\ (pc[w] \in {"idle", "closed"} => FreedFrom(buffers[w], response[w].buffer))
    BY <2>1 DEF BufferInv
  <2> QED
    BY <2>2, <2>3 DEF FreedAtMostOnce, FreedFrom
<1> QED
  BY <1>1, AnswerInvariant, PTL

\* No page is deleted twice or found after it was deleted, whatever add() and
\* remove() are called with (DynamicRepository and its destructor).
THEOREM DeletedOnce == Spec => []PagesDeletedOnce
<1>1. IInv => PagesDeletedOnce
  BY DEF IInv, IndexInv, PagesDeletedOnce
<1> QED
  BY <1>1, AnswerInvariant, PTL
=============================================================================
