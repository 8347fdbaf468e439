----------------------------- MODULE PageAnswer -----------------------------
(***************************************************************************)
(* accept_request() from the moment a request is complete: the repository  *)
(* that has the page, its content, compression, httpSend() and the release *)
(* of the buffers, while threads of the application change what the        *)
(* repositories hold.  The requests themselves are RequestLoop's, and a    *)
(* worker here serves one connection.                                      *)
(*                                                                         *)
(* A content is what it is made of, whether that is zipped, and a length   *)
(* in pieces that one call of send() may take.                             *)
(***************************************************************************)
EXTENDS Naturals, Sequences, FiniteSets

CONSTANTS
    Workers, Urls,
    Pages,         \* the DynamicPage objects
    At,            \* page -> the url the application adds it at
    Outcomes,      \* page -> what its getPage() may do
    Repos,         \* the kinds of the repositories, in the order they were added
    Precompiled,   \* url -> "plain", "zipped" (known as url.gz) or "none"
    FileUrls,      \* the urls of the files of the local directory
    TextUrls,      \* the urls whose mime type is compressed
    LengthMax,     \* bound: no content is longer
    CompressMin,   \* 2048, the length from which a page is compressed
    KeepAliveMax,  \* KEEPALIVE_MAX_NB_QUERY
    ChangeMax,     \* bound on the changes of a file
    NoPage, NoUrl

Lengths == 0..LengthMax

\* What getPage() does with the response: the content it sets, "null" for
\* noContent(), the page it forwards to, and what it returns.
Outcome == [set : {"unset", "null", "data"}, length : Lengths, zipped : BOOLEAN,
            forward : Urls \cup {NoUrl}, found : BOOLEAN]

\* The response of a request outlives a page that forwards or refuses it, with
\* its zipped flag, its return code and the url it forwards to: such a page is
\* taken to set neither of the first two, and one that refuses not to forward.
\* A page says zipped of what it sets.  And forwards are taken to lead somewhere.
ASSUME PageAssumption ==
    /\ NoPage \notin Pages /\ NoUrl \notin Urls
    /\ LengthMax \in Nat \ {0} /\ CompressMin \in Nat /\ KeepAliveMax \in Nat \ {0} /\ ChangeMax \in Nat
    /\ At \in [Pages -> Urls] /\ FileUrls \subseteq Urls /\ TextUrls \subseteq Urls
    /\ Precompiled \in [Urls -> {"plain", "zipped", "none"}]
    /\ Repos \in Seq({"dynamic", "local", "precompiled"})
    /\ \A p \in Pages : Outcomes[p] \subseteq Outcome
    /\ \A p \in Pages : \A o \in Outcomes[p] :
         ~o.found \/ o.forward # NoUrl
           => ~o.zipped /\ (o.set = "unset" \/ (o.set = "data" /\ o.length > 0))
    /\ \A p \in Pages : \A o \in Outcomes[p] :
         (~o.found => o.forward = NoUrl) /\ (o.zipped => o.set # "unset")
    /\ \E rank \in [Urls -> 0..Cardinality(Urls)] :
         \A p \in Pages : \A o \in Outcomes[p] :
           o.forward # NoUrl => rank[o.forward] < rank[At[p]]

VARIABLES
    indexMap,      \* DynamicRepository: url -> [page, owned]
    deleted,       \* page -> how often it was deleted
    filenamesSet,  \* LocalRepository: the names of the last reload()
    file,          \* the file of a url: [length, version], of length Absent if none
    repository,    \* whether the dynamic repository is alive
    pc,            \* worker -> where it is
    compression,   \* worker -> client->compression
    keepAlive,     \* worker -> the local variables of accept_request()
    nbFileKeepAlive,
    closing,
    urlBuffer,
    mime,          \* worker -> the url its mime type was derived from
    repo,          \* worker -> the iterator
    response,      \* worker -> its HttpResponse
    page,          \* worker -> the page whose getPage() runs
    opened,        \* worker -> the length of the file it has opened
    webpage, gzipWebPage, sizeZip,
    left,          \* worker -> pieces that httpSend() has to send
    buffers,       \* history: worker -> the buffers of this request
    wire,          \* history: worker -> what its client gets for this request
    inTurn,        \* history: worker -> what it got before was whole and kept the connection
    excuse         \* history: worker -> whether a repository may have missed a page

appVars == <<indexMap, deleted, filenamesSet, file, repository>>
requestVars == <<compression, keepAlive, nbFileKeepAlive, closing>>
searchVars == <<urlBuffer, mime, repo, response, page, opened, excuse>>
contentVars == <<webpage, gzipWebPage, sizeZip>>
answerVars == <<left, wire, inTurn>>
vars == <<appVars, pc, requestVars, searchVars, contentVars, answerVars, buffers>>

Absent == LengthMax + 1
NoEntry == [page |-> NoPage, owned |-> FALSE]
OnDisk == {u \in Urls : file[u].length # Absent}

Content(kind, name, version, zipped, length) ==
    [kind |-> kind, name |-> name, version |-> version, zipped |-> zipped, length |-> length]
Buffer(heap, content) == [heap |-> heap, content |-> content, freed |-> 0]
NoResponse == [buffer |-> 0, length |-> 0, zipped |-> FALSE, forward |-> NoUrl, code |-> 0]

NoContent == Content("none", NoUrl, 0, FALSE, 0)
Answer(code, zipped, keep, content) ==
    [code |-> code, zipped |-> zipped, keepAlive |-> keep, content |-> content, sent |-> 0]
NoAnswer == Answer(0, FALSE, FALSE, NoContent)
Whole(answer) == answer.sent = answer.content.length

PCs == {"idle", "search", "page", "read", "found", "header", "body", "free", "closed", "crashed"}
Contents ==
    [kind : {"page", "file", "precompiled"}, name : Pages \cup Urls, version : 0..ChangeMax,
     zipped : BOOLEAN, length : 0..LengthMax]
Responses ==
    [buffer : Nat, length : Lengths, zipped : BOOLEAN, forward : Urls \cup {NoUrl},
     code : {0, 200, 204}]

TypeOK ==
    /\ indexMap \in [Urls -> [page : Pages \cup {NoPage}, owned : BOOLEAN]]
    /\ deleted \in [Pages -> Nat]
    /\ filenamesSet \subseteq Urls
    /\ file \in [Urls -> [length : Lengths \cup {Absent}, version : 0..ChangeMax]]
    /\ repository \in BOOLEAN
    /\ pc \in [Workers -> PCs]
    /\ compression \in [Workers -> {"NONE", "GZIP"}]
    /\ keepAlive \in [Workers -> BOOLEAN] /\ closing \in [Workers -> BOOLEAN]
    /\ nbFileKeepAlive \in [Workers -> 0..KeepAliveMax]
    /\ urlBuffer \in [Workers -> Urls \cup {NoUrl}] /\ mime \in [Workers -> Urls \cup {NoUrl}]
    /\ repo \in [Workers -> 1..(Len(Repos) + 1)]
    /\ response \in [Workers -> Responses]
    /\ page \in [Workers -> Pages \cup {NoPage}]
    /\ opened \in [Workers -> Lengths]
    /\ buffers \in [Workers -> Seq([heap : BOOLEAN, content : Contents, freed : Nat])]
    /\ webpage \in [Workers -> Nat] /\ gzipWebPage \in [Workers -> Nat]
    /\ \A w \in Workers : {response[w].buffer, webpage[w], gzipWebPage[w]} \subseteq 0..Len(buffers[w])
    /\ sizeZip \in [Workers -> 0..(LengthMax + 1)] /\ left \in [Workers -> 0..LengthMax]
    /\ excuse \in [Workers -> BOOLEAN] /\ inTurn \in [Workers -> BOOLEAN]

Init ==
    /\ indexMap = [u \in Urls |-> NoEntry]
    /\ deleted = [p \in Pages |-> 0]
    /\ filenamesSet = FileUrls
    /\ file = [u \in Urls |-> [length |-> IF u \in FileUrls THEN 1 ELSE Absent, version |-> 0]]
    /\ repository = TRUE
    /\ pc = [w \in Workers |-> "idle"]
    /\ compression = [w \in Workers |-> "NONE"]
    /\ keepAlive = [w \in Workers |-> FALSE] /\ closing = [w \in Workers |-> FALSE]
    /\ nbFileKeepAlive = [w \in Workers |-> KeepAliveMax]
    /\ urlBuffer = [w \in Workers |-> NoUrl] /\ mime = [w \in Workers |-> NoUrl]
    /\ repo = [w \in Workers |-> 1]
    /\ response = [w \in Workers |-> NoResponse]
    /\ page = [w \in Workers |-> NoPage]
    /\ opened = [w \in Workers |-> 0]
    /\ webpage = [w \in Workers |-> 0] /\ gzipWebPage = [w \in Workers |-> 0]
    /\ sizeZip = [w \in Workers |-> 0] /\ left = [w \in Workers |-> 0]
    /\ buffers = [w \in Workers |-> <<>>]
    /\ wire = [w \in Workers |-> NoAnswer] /\ inTurn = [w \in Workers |-> TRUE]
    /\ excuse = [w \in Workers |-> FALSE]

(***************************************************************************)
(* The application changes the repositories.                               *)
(***************************************************************************)
\* delete page: the pages in use are not asked.
Delete(p) == deleted' = [deleted EXCEPT ![p] = @ + 1]

Excused == excuse' = [w \in Workers |-> TRUE]

WorkerUnchanged ==
    UNCHANGED <<pc, requestVars, urlBuffer, mime, repo, response, page, opened, contentVars,
                answerVars, buffers>>

InIndex(p) == \E u \in Urls : indexMap[u].page = p

\* add(): the entry a url has is replaced, and its page deleted if it is owned.
Add(p, owned) ==
    /\ repository /\ deleted[p] = 0 /\ ~InIndex(p)
    /\ LET old == indexMap[At[p]] IN IF old.owned THEN Delete(old.page) ELSE UNCHANGED deleted
    /\ indexMap' = [indexMap EXCEPT ![At[p]] = [page |-> p, owned |-> owned]]
    /\ Excused /\ WorkerUnchanged
    /\ UNCHANGED <<filenamesSet, file, repository>>

\* Mutant: the entry keeps the page that was deleted.
EraseBug(u) == indexMap' = [indexMap EXCEPT ![u].owned = FALSE]

Erase(u) == indexMap' = [indexMap EXCEPT ![u] = NoEntry]

Remove(u, deleteDynamicPage) ==
    /\ repository /\ indexMap[u].page # NoPage
    /\ Erase(u)
    /\ IF deleteDynamicPage \/ indexMap[u].owned THEN Delete(indexMap[u].page) ELSE UNCHANGED deleted
    /\ Excused /\ WorkerUnchanged
    /\ UNCHANGED <<filenamesSet, file, repository>>

\* ~DynamicRepository(), once the server serves nobody.
Destroy ==
    /\ repository /\ \A w \in Workers : pc[w] \in {"closed", "crashed"}
    /\ repository' = FALSE
    /\ deleted' = [p \in Pages |-> IF \E u \in Urls : indexMap[u] = [page |-> p, owned |-> TRUE]
                                   THEN deleted[p] + 1 ELSE deleted[p]]
    /\ indexMap' = [u \in Urls |-> NoEntry]
    /\ WorkerUnchanged
    /\ UNCHANGED <<filenamesSet, file, excuse>>

\* A file of the directory is written in place, or removed.
ChangeFile(u, length) ==
    /\ u \in FileUrls /\ file[u].version < ChangeMax /\ (u \in OnDisk \/ length # Absent)
    /\ file' = [file EXCEPT ![u] = [length |-> length, version |-> @.version + 1]]
    /\ Excused /\ WorkerUnchanged
    /\ UNCHANGED <<indexMap, deleted, filenamesSet, repository>>

\* reload(): cleared and filled again under the mutex.
Reload ==
    /\ filenamesSet # OnDisk
    /\ filenamesSet' = OnDisk
    /\ Excused /\ WorkerUnchanged
    /\ UNCHANGED <<indexMap, deleted, file, repository>>

(***************************************************************************)
(* The search for the page.                                                *)
(***************************************************************************)
\* A complete request: the headers said whether the client unzips, and whether
\* it keeps the connection.
Request(w) ==
    /\ pc[w] = "idle"
    /\ \E u \in Urls, zip \in {"NONE", "GZIP"}, keep \in BOOLEAN :
         /\ urlBuffer' = [urlBuffer EXCEPT ![w] = u]
         /\ mime' = [mime EXCEPT ![w] = u]
         /\ compression' = [compression EXCEPT ![w] = zip]
         /\ keepAlive' = [keepAlive EXCEPT ![w] = keep]
    /\ repo' = [repo EXCEPT ![w] = 1]
    /\ response' = [response EXCEPT ![w] = NoResponse]
    /\ webpage' = [webpage EXCEPT ![w] = 0]
    /\ gzipWebPage' = [gzipWebPage EXCEPT ![w] = 0]
    /\ sizeZip' = [sizeZip EXCEPT ![w] = 0]
    /\ buffers' = [buffers EXCEPT ![w] = <<>>]
    /\ excuse' = [excuse EXCEPT ![w] = FALSE]
    /\ inTurn' = [inTurn EXCEPT ![w] = @ /\ (wire[w] # NoAnswer => Whole(wire[w]) /\ wire[w].keepAlive)]
    /\ wire' = [wire EXCEPT ![w] = NoAnswer]
    /\ pc' = [pc EXCEPT ![w] = "search"]
    /\ UNCHANGED <<appVars, nbFileKeepAlive, closing, page, opened, left>>

Searching(w, kind) == pc[w] = "search" /\ repo[w] <= Len(Repos) /\ Repos[repo[w]] = kind

\* Mutant: the search for the page forwarded to goes on from here.
RestartBug(w) == repo[w]

Restart(w) == 1

\* Mutant: a repository that does not have the page is asked again.
AdvanceBug(w, found) == IF found THEN repo[w] + 1 ELSE repo[w]

Advance(w, found) == repo[w] + 1

\* getFile() has returned: a forward starts again with the first repository.
Returned(w, found, r) ==
    LET forward == found /\ r.forward # NoUrl IN
    /\ response' = [response EXCEPT ![w] = IF forward THEN [r EXCEPT !.forward = NoUrl] ELSE r]
    /\ urlBuffer' = [urlBuffer EXCEPT ![w] = IF forward THEN r.forward ELSE @]
    /\ repo' = [repo EXCEPT ![w] = IF forward THEN Restart(w) ELSE Advance(w, found)]
    /\ pc' = [pc EXCEPT ![w] = IF found /\ ~forward THEN "found" ELSE "search"]

SetContent(r, buffer, length) ==
    [r EXCEPT !.buffer = buffer, !.length = length,
              !.code = IF @ # 0 THEN @ ELSE IF length > 0 THEN 200 ELSE 204]

Allocate(w, heap, content) == buffers' = [buffers EXCEPT ![w] = Append(@, Buffer(heap, content))]
NextBuffer(w) == Len(buffers[w]) + 1

\* The url is looked up under the mutex, the page runs without it.
DynamicLookup(w) ==
    /\ Searching(w, "dynamic")
    /\ LET found == indexMap[urlBuffer[w]].page IN
         \/ /\ found = NoPage
            /\ Returned(w, FALSE, response[w])
            /\ UNCHANGED page
         \/ /\ found # NoPage
            /\ page' = [page EXCEPT ![w] = found]
            /\ pc' = [pc EXCEPT ![w] = "page"]
            /\ UNCHANGED <<response, urlBuffer, repo>>
    /\ UNCHANGED <<appVars, requestVars, mime, opened, excuse, contentVars, answerVars, buffers>>

RunPage(w) ==
    /\ pc[w] = "page" /\ deleted[page[w]] = 0
    /\ \E o \in Outcomes[page[w]] :
         LET flagged == [response[w] EXCEPT
                           !.zipped = @ \/ o.zipped,
                           !.forward = IF o.forward = NoUrl THEN @ ELSE o.forward]
         IN
         /\ \/ /\ o.set = "unset"
               /\ Returned(w, o.found, flagged)
               /\ UNCHANGED buffers
            \/ /\ o.set = "null"
               /\ Returned(w, o.found, SetContent(flagged, 0, 0))
               /\ UNCHANGED buffers
            \/ /\ o.set = "data"
               /\ Allocate(w, TRUE, Content("page", page[w], 0, o.zipped, o.length))
               /\ Returned(w, o.found, SetContent(flagged, NextBuffer(w), o.length))
         /\ excuse' = [excuse EXCEPT ![w] = IF o.found THEN o.forward = NoUrl /\ @ ELSE TRUE]
    /\ page' = [page EXCEPT ![w] = NoPage]
    /\ UNCHANGED <<appVars, requestVars, mime, opened, contentVars, answerVars>>

\* The page was deleted after it was looked up: undefined behaviour.
RunDeletedPage(w) ==
    /\ pc[w] = "page" /\ deleted[page[w]] > 0
    /\ pc' = [pc EXCEPT ![w] = "crashed"]
    /\ UNCHANGED <<appVars, requestVars, searchVars, contentVars, answerVars, buffers>>

\* Not listed; or fopen(), malloc() or the limit on the size refuse the file.
LocalMiss(w) ==
    /\ Searching(w, "local")
    /\ LET listed == urlBuffer[w] \in filenamesSet IN
         \/ ~listed /\ UNCHANGED excuse
         \/ listed /\ excuse' = [excuse EXCEPT ![w] = TRUE]
    /\ Returned(w, FALSE, response[w])
    /\ UNCHANGED <<appVars, requestVars, mime, page, opened, contentVars, answerVars, buffers>>

LocalOpen(w) ==
    /\ Searching(w, "local") /\ urlBuffer[w] \in filenamesSet \cap OnDisk
    /\ opened' = [opened EXCEPT ![w] = file[urlBuffer[w]].length]
    /\ pc' = [pc EXCEPT ![w] = "read"]
    /\ UNCHANGED <<appVars, requestVars, urlBuffer, mime, repo, response, page, excuse,
                   contentVars, answerVars, buffers>>

\* fread(), after the length was taken: the file may have been written since.
\* (A file that was removed is still read.)
LocalRead(w) ==
    /\ pc[w] = "read"
    /\ LET u == urlBuffer[w]  short == file[u].length < opened[w] IN
         \/ /\ short
            /\ Returned(w, FALSE, response[w])
            /\ excuse' = [excuse EXCEPT ![w] = TRUE]
            /\ UNCHANGED buffers
         \/ /\ ~short
            /\ Allocate(w, TRUE, Content("file", u, file[u].version, FALSE, opened[w]))
            /\ Returned(w, TRUE, SetContent(response[w], NextBuffer(w), opened[w]))
            /\ UNCHANGED excuse
    /\ UNCHANGED <<appVars, requestVars, mime, page, opened, contentVars, answerVars>>

\* A page of the program itself: the url, then the url with ".gz".
PrecompiledLookup(w) ==
    /\ Searching(w, "precompiled")
    /\ LET u == urlBuffer[w]
           zipped == Precompiled[u] = "zipped"
           flagged == [response[w] EXCEPT !.zipped = @ \/ zipped]
       IN  \/ /\ Precompiled[u] = "none"
              /\ Returned(w, FALSE, response[w])
              /\ UNCHANGED buffers
           \/ /\ Precompiled[u] # "none"
              /\ Allocate(w, FALSE, Content("precompiled", u, 0, zipped, LengthMax))
              /\ Returned(w, TRUE, SetContent(flagged, NextBuffer(w), LengthMax))
    /\ UNCHANGED <<appVars, requestVars, mime, page, opened, excuse, contentVars, answerVars>>

(***************************************************************************)
(* The answer.                                                             *)
(***************************************************************************)
Freed(bs, b) == [bs EXCEPT ![b].freed = @ + 1]

\* (*repo)->freeFile(): free(), and nothing for the pages of the program.
FreeFile(r, bs, b) == IF Repos[r] = "precompiled" THEN bs ELSE Freed(bs, b)

\* A message that ends the connection; whether httpSend() succeeds is not asked.
LastMessage(w, code) ==
    /\ \/ wire' = [wire EXCEPT ![w] = Answer(code, FALSE, FALSE, NoContent)]
       \/ UNCHANGED wire
    /\ pc' = [pc EXCEPT ![w] = "closed"]

\* With the response goes a content that a page set and refused.
NotFound(w) ==
    /\ pc[w] = "search" /\ repo[w] > Len(Repos)
    /\ LastMessage(w, 404)
    /\ response' = [response EXCEPT ![w] = NoResponse]
    /\ UNCHANGED <<appVars, requestVars, urlBuffer, mime, repo, page, opened, excuse, contentVars,
                   buffers, left, inTurn>>

\* repo--: the repository that had the page.
Found(w) == repo[w] - 1

Nothing(w) == response[w].buffer = 0 \/ response[w].length = 0

AnswerNothing(w) ==
    /\ pc[w] = "found" /\ Nothing(w)
    /\ LastMessage(w, IF response[w].code = 0 THEN 204 ELSE response[w].code)
    /\ buffers' = [buffers EXCEPT ![w] =
         IF response[w].buffer = 0 THEN @ ELSE FreeFile(Found(w), @, response[w].buffer)]
    /\ UNCHANGED <<appVars, requestVars, searchVars, contentVars, left, inTurn>>

NeedsUnzip(w) == compression[w] = "NONE" /\ response[w].zipped

NeedsZip(w) ==
    /\ compression[w] = "GZIP" /\ ~response[w].zipped
    /\ response[w].length > CompressMin
    /\ mime[w] \in TextUrls

\* Mutant: the page is not given back.
ZipFailedBug(w) == buffers[w]

ZipFailed(w) == FreeFile(Found(w), buffers[w], response[w].buffer)

\* nvj_gunzip() or nvj_gzip() throws, after it has freed what it allocated.
ZipFails(w) ==
    /\ pc[w] = "found" /\ ~Nothing(w) /\ (NeedsUnzip(w) \/ NeedsZip(w))
    /\ LastMessage(w, 500)
    /\ buffers' = [buffers EXCEPT ![w] = ZipFailed(w)]
    /\ UNCHANGED <<appVars, requestVars, searchVars, contentVars, left, inTurn>>

\* The content to send: as it is, unzipped, zipped, or as it is again when the
\* zipped one is longer.
Prepare(w) ==
    LET own == response[w].buffer
        plain == buffers[w][own].content
        New(zipped, length) == [plain EXCEPT !.zipped = zipped, !.length = length]
        Use(page1, zipped1, size) ==
            /\ webpage' = [webpage EXCEPT ![w] = page1]
            /\ gzipWebPage' = [gzipWebPage EXCEPT ![w] = zipped1]
            /\ sizeZip' = [sizeZip EXCEPT ![w] = size]
    IN
    \/ /\ ~NeedsUnzip(w) /\ ~NeedsZip(w)
       /\ IF response[w].zipped THEN Use(own, own, response[w].length) ELSE Use(own, 0, 0)
       /\ UNCHANGED buffers
    \/ /\ NeedsUnzip(w)
       /\ \E n \in 1..LengthMax : Allocate(w, TRUE, New(FALSE, n))
       /\ Use(NextBuffer(w), own, response[w].length)
    \/ /\ NeedsZip(w)
       /\ \E n \in 1..response[w].length : Allocate(w, TRUE, New(TRUE, n)) /\ Use(own, NextBuffer(w), n)
    \/ /\ NeedsZip(w)
       /\ buffers' = [buffers EXCEPT ![w] =
            Freed(Append(@, Buffer(TRUE, New(TRUE, LengthMax))), NextBuffer(w))]
       /\ Use(own, NextBuffer(w), 0)

\* Mutant: the header offers the connection for one more request.
CountedBug(w) ==
    /\ nbFileKeepAlive' = [nbFileKeepAlive EXCEPT ![w] = IF keepAlive[w] THEN @ - 1 ELSE @]
    /\ closing' = [closing EXCEPT ![w] = keepAlive[w] /\ nbFileKeepAlive[w] <= 1]
    /\ UNCHANGED keepAlive

\* keepAlive && (--nbFileKeepAlive <= 0)
Counted(w) ==
    LET last == keepAlive[w] /\ nbFileKeepAlive[w] <= 1 IN
    /\ nbFileKeepAlive' = [nbFileKeepAlive EXCEPT ![w] = IF keepAlive[w] THEN @ - 1 ELSE @]
    /\ closing' = [closing EXCEPT ![w] = last]
    /\ keepAlive' = [keepAlive EXCEPT ![w] = @ /\ ~last]

StartAnswer(w) ==
    /\ pc[w] = "found" /\ ~Nothing(w)
    /\ Prepare(w) /\ Counted(w)
    /\ pc' = [pc EXCEPT ![w] = "header"]
    /\ UNCHANGED <<appVars, compression, searchVars, answerVars>>

\* Mutant: a zipped page goes to a client that does not unzip.
SendsZippedBug(w) == sizeZip[w] > 0

SendsZipped(w) == sizeZip[w] > 0 /\ compression[w] = "GZIP"

ToSend(w) == IF SendsZipped(w) THEN gzipWebPage[w] ELSE webpage[w]

\* httpSend2(): the header, and the body if the header left; wire has what may
\* have left when the header did not.
SendHeader(w) ==
    /\ pc[w] = "header"
    /\ LET content == buffers[w][ToSend(w)].content IN
         /\ left' = [left EXCEPT ![w] = content.length]
         /\ wire' = [wire EXCEPT ![w] =
              Answer(response[w].code, SendsZipped(w), keepAlive[w], content)]
    /\ pc' = [pc EXCEPT ![w] = "body"]
    /\ UNCHANGED <<appVars, requestVars, searchVars, contentVars, inTurn, buffers>>

\* httpSend(): send() takes what it can, at once or after the select().
SendBody(w) ==
    /\ pc[w] = "body"
    /\ \E n \in 1..left[w] :
         /\ left' = [left EXCEPT ![w] = @ - n]
         /\ wire' = [wire EXCEPT ![w].sent = @ + n]
         /\ pc' = [pc EXCEPT ![w] = IF n = left[w] THEN "free" ELSE "body"]
    /\ UNCHANGED <<appVars, requestVars, searchVars, contentVars, inTurn, buffers>>

\* Mutant: an interrupted send() counts as done.
SendFailedBug(w) == closing[w]

SendFailed(w) == TRUE

\* An error; a second EAGAIN, or 10 s of select(); or a signal: `continue' jumps
\* to the condition of the loop, where sent < 0 ends it.
SendFails(w) ==
    /\ pc[w] = "body"
    /\ closing' = [closing EXCEPT ![w] = SendFailed(w)]
    /\ left' = [left EXCEPT ![w] = 0]
    /\ pc' = [pc EXCEPT ![w] = "free"]
    /\ UNCHANGED <<appVars, compression, keepAlive, nbFileKeepAlive, searchVars, contentVars, wire, inTurn, buffers>>

\* Mutant: the zipped content is given back and the page forgotten.
ReleasedBug(w) ==
    IF sizeZip[w] > 0 /\ ~response[w].zipped THEN Freed(buffers[w], gzipWebPage[w])
    ELSE IF NeedsUnzip(w) THEN FreeFile(Found(w), Freed(buffers[w], webpage[w]), gzipWebPage[w])
    ELSE FreeFile(Found(w), buffers[w], webpage[w])

\* What was compressed, or uncompressed, are two buffers.
Released(w) ==
    IF sizeZip[w] > 0 /\ ~response[w].zipped
      THEN FreeFile(Found(w), Freed(buffers[w], gzipWebPage[w]), webpage[w])
    ELSE IF NeedsUnzip(w) THEN FreeFile(Found(w), Freed(buffers[w], webpage[w]), gzipWebPage[w])
    ELSE FreeFile(Found(w), buffers[w], webpage[w])

EndAnswer(w) ==
    /\ pc[w] = "free"
    /\ buffers' = [buffers EXCEPT ![w] = Released(w)]
    /\ pc' = [pc EXCEPT ![w] = IF keepAlive[w] /\ ~closing[w] THEN "idle" ELSE "closed"]
    /\ UNCHANGED <<appVars, requestVars, searchVars, contentVars, answerVars>>

WorkerStep(w) ==
    \/ DynamicLookup(w) \/ RunPage(w) \/ RunDeletedPage(w)
    \/ LocalMiss(w) \/ LocalOpen(w) \/ LocalRead(w) \/ PrecompiledLookup(w)
    \/ NotFound(w) \/ AnswerNothing(w) \/ ZipFails(w) \/ StartAnswer(w)
    \/ SendHeader(w) \/ SendBody(w) \/ SendFails(w) \/ EndAnswer(w)

AppStep ==
    \/ \E p \in Pages, owned \in BOOLEAN : Add(p, owned)
    \/ \E u \in Urls, deleteDynamicPage \in BOOLEAN : Remove(u, deleteDynamicPage)
    \/ \E u \in Urls, n \in Lengths \cup {Absent} : ChangeFile(u, n)
    \/ Reload
    \/ Destroy

Next == AppStep \/ \E w \in Workers : Request(w) \/ WorkerStep(w)

Spec == Init /\ [][Next]_vars

\* A worker runs; getPage() returns.
FairSpec == Spec /\ \A w \in Workers : WF_vars(WorkerStep(w))

(***************************************************************************)
(* Properties                                                              *)
(***************************************************************************)
Holds(kind, u) ==
    CASE kind = "dynamic" -> indexMap[u].page # NoPage
      [] kind = "local" -> u \in filenamesSet
      [] kind = "precompiled" -> Precompiled[u] # "none"

\* The first repository that holds a page answers for it, also after a forward,
\* and 404 means that none does: those passed over do not hold the url, unless
\* a page refused, a file could not be read, or the application changed a
\* repository meanwhile (the loop over webRepositories).
FirstRepository ==
    \A w \in Workers : pc[w] = "search" /\ ~excuse[w] =>
        \A r \in 1..(repo[w] - 1) : ~Holds(Repos[r], urlBuffer[w])

\* The header describes the body: Content-Encoding says whether it is zipped,
\* and it is only for a client that said it unzips; and a body is
\* never announced as 204, which has none (getContent(), nvj_gzip(), nvj_gunzip(), the header).
HeaderMatchesBody ==
    \A w \in Workers :
        /\ wire[w].zipped = wire[w].content.zipped
        /\ wire[w].zipped => compression[w] = "GZIP"
        /\ wire[w].content.length > 0 => wire[w].code = 200

\* Answers do not run into each other: another one follows only what was sent
\* whole under a header that offered to keep the connection; and a header does
\* not offer what ends here, unless sending failed (httpSend(), closing).
AnswersInTurn ==
    \A w \in Workers :
        /\ inTurn[w]
        /\ pc[w] = "closed" /\ Whole(wire[w]) => ~wire[w].keepAlive

\* Every buffer of a request is freed once and not before it was sent, on every
\* way out, and the pages of the program never are; what a page set before it
\* forwarded or refused is the exception, nobody frees that (the releases
\* before each `goto FREE_RETURN_TRUE' and after httpSend2()).
BuffersFreed ==
    \A w \in Workers :
        /\ \A b \in 1..Len(buffers[w]) :
             /\ buffers[w][b].freed <= (IF buffers[w][b].heap THEN 1 ELSE 0)
             /\ pc[w] \in {"idle", "closed"} /\ buffers[w][b].heap /\ response[w].buffer \in 1..b
                  => buffers[w][b].freed = 1
        /\ pc[w] \in {"header", "body"} => buffers[w][ToSend(w)].freed = 0

\* A page is deleted once, and a deleted page is no longer found: add(),
\* remove(), getFile() and the destructor agree on who owns what.
PagesDeletedOnce ==
    /\ \A p \in Pages : deleted[p] <= 1
    /\ \A u \in Urls : indexMap[u].page # NoPage => deleted[indexMap[u].page] = 0

\* Every request is answered or its connection closed, through forwards, failed
\* reads and failed sends, while the application changes the repositories.
AnswerEnds ==
    \A w \in Workers : pc[w] = "search" ~> pc[w] \in {"idle", "closed", "crashed"}
=============================================================================
