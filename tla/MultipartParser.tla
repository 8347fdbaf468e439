--------------------------- MODULE MultipartParser ---------------------------
(***************************************************************************)
(* MPFD::Parser and MPFD::Field: the body of a multipart/form-data request *)
(* arrives in chunks, the parser cuts it into fields, and the content of a *)
(* file goes to a temporary file.  Every request has a parser of its own;  *)
(* the names of the files and the mutex that chooses them are shared.      *)
(*                                                                         *)
(* A byte is a string; the whole text of a part's headers is one byte, a   *)
(* member of DOMAIN HeaderOf, which says what _ParseHeaders() finds in it. *)
(***************************************************************************)
EXTENDS Naturals, Sequences, FiniteSets, SequencesExt

CONSTANTS
    Parsers,       \* one per request that is worked on
    NoParser,
    Bytes,         \* all that a body or a file consists of
    Delimiter,     \* "--" and the name of the boundary, as in the body
    Quoted,        \* what Boundary becomes when the name is given in quotes
    HeaderOf,      \* text of headers -> [name, file, closed]
    Forms,         \* parser -> the requests its client may send
    ChunkMax,      \* BUFSIZE: what one AcceptSomeData() is given at most
    MaxDataCollectorLength,
    TempMax,       \* bound on the numbers i of MPFD_Temp_i
    StaleTemps,    \* numbers a crashed process may have left files of
    Absent         \* no file of that name

Headers == DOMAIN HeaderOf
Names == {HeaderOf[h].name : h \in Headers}
Temps == 1..TempMax
CRLF == <<"cr", "lf">>

\* A form: what its Content-Type declares, its parts, and what follows them.
ContentTypes == {"bare", "quoted", "none"}

AllForms == UNION {Forms[p] : p \in Parsers}

PartBytes(part) == Delimiter \o CRLF \o <<part.header>> \o CRLF \o CRLF \o part.content \o CRLF
\* The bytes of part k and of all that follows it.
BodyFrom(form) ==
    LET N == Len(form.parts)
        from[k \in 1..(N + 1)] ==
          IF k > N THEN Delimiter \o <<"-", "-">> \o CRLF \o form.epilogue
                   ELSE PartBytes(form.parts[k]) \o from[k + 1]
    IN  from
Body(form) == BodyFrom(form)[1]

\* The positions at which s occurs in t.
Occurrences(s, t) == {i \in 1..(Len(t) + 1 - Len(s)) : SubSeq(t, i, i + Len(s) - 1) = s}

ASSUME MultipartAssumption ==
    /\ NoParser \notin Parsers
    /\ ChunkMax \in Nat \ {0} /\ MaxDataCollectorLength \in Nat
    /\ TempMax \in Nat \ {0} /\ StaleTemps \subseteq Temps
    /\ Absent \notin Seq(Bytes) /\ "stale" \in Bytes
    /\ Delimiter \in Seq(Bytes) /\ Quoted \in Seq(Bytes)
    /\ \A h \in Headers : HeaderOf[h].file \in BOOLEAN
    /\ \A f \in AllForms : Body(f) \in Seq(Bytes)
    \* Every parser finds a free number.
    /\ TempMax > Cardinality(StaleTemps)
                 + Cardinality(Parsers) * Max({Len(f.parts) : f \in AllForms})
    /\ \A f \in AllForms :
         /\ f.type \in ContentTypes
         /\ f.parts \in Seq([header : Headers, content : Seq(Bytes)])

\* What a client takes care of: its boundary has no line end in it and is not
\* in what it sends, in quotes neither if it declares it so; no headers of a
\* part follow the last one.
ASSUME ClientAssumption ==
    /\ Delimiter # <<>> /\ \A k \in 1..Len(Delimiter) : Delimiter[k] \notin {"cr", "lf"}
    /\ Headers \cup {"cr", "lf", "-"} \subseteq Bytes /\ Headers \cap {"cr", "lf", "-"} = {}
    /\ \A f \in AllForms :
         /\ \A k \in 1..Len(f.parts) : Occurrences(Delimiter, f.parts[k].content) = {}
         /\ f.type = "quoted" => Occurrences(Quoted, Body(f)) = {}
         /\ f.epilogue \in Seq(Bytes \ Headers)

VARIABLES
    form,                 \* parser -> the request
    net,                  \* parser -> the bytes of the body not yet accepted
    pc,                   \* parser -> where it is
    CurrentStatus,        \* parser -> what it looks for
    DataCollector,        \* parser -> bytes accepted and not processed
    ProcessingFieldName,  \* parser -> the number of the field it fills
    Fields,               \* parser -> name -> the number of a field, or 0
    object,               \* parser -> the Field objects it has created
    i,                    \* parser -> the number of the name it tests or removes
    files,                \* number -> the content of MPFD_Temp_i, or Absent
    fileCreation_mutex,   \* its holder
    refused               \* parser -> why it has thrown

parseVars == <<CurrentStatus, DataCollector, ProcessingFieldName>>
fieldVars == <<Fields, object>>
fileVars == <<i, files, fileCreation_mutex>>
vars == <<form, net, pc, parseVars, fieldVars, fileVars, refused>>

PCs == {"new", "await", "process", "choose", "open", "page", "delete", "remove", "gone"}
Statuses == {"LookingForStartingBoundary", "ProcessingHeaders", "ProcessingContentOfTheField"}
Causes == {"no", "length", "headers", "open"}

Field ==
    [name : Names, file : BOOLEAN, content : Seq(Bytes), TempFile : Temps \cup {0}, is_open : BOOLEAN]

TypeOK ==
    /\ form \in [Parsers -> AllForms] /\ \A p \in Parsers : form[p] \in Forms[p]
    /\ net \in [Parsers -> Seq(Bytes)]
    /\ \A p \in Parsers : \E n \in 0..Len(Body(form[p])) :
         net[p] = SubSeq(Body(form[p]), n + 1, Len(Body(form[p])))
    /\ pc \in [Parsers -> PCs]
    /\ CurrentStatus \in [Parsers -> Statuses]
    /\ DataCollector \in [Parsers -> Seq(Bytes)]
    /\ \A p \in Parsers : refused[p] = "no" => Len(DataCollector[p]) <= MaxDataCollectorLength
    /\ object \in [Parsers -> Seq(Field)]
    /\ \A p \in Parsers : \A k \in 1..Len(object[p]) :
         object[p][k].is_open => object[p][k].file /\ object[p][k].TempFile # 0
    /\ ProcessingFieldName = [p \in Parsers |-> Len(object[p])]
    /\ Fields \in [Parsers -> [Names -> Nat]]
    /\ \A p \in Parsers : \A n \in Names : Fields[p][n] \in 0..Len(object[p])
    /\ i \in [Parsers -> Temps]
    /\ files \in [Temps -> Seq(Bytes) \cup {Absent}]
    /\ fileCreation_mutex \in Parsers \cup {NoParser}
    /\ \A p \in Parsers : pc[p] \in {"choose", "open"} <=> fileCreation_mutex = p
    /\ refused \in [Parsers -> Causes]

Init ==
    /\ form \in {f \in [Parsers -> AllForms] : \A p \in Parsers : f[p] \in Forms[p]}
    /\ net = [p \in Parsers |-> Body(form[p])]
    /\ pc = [p \in Parsers |-> "new"]
    /\ CurrentStatus = [p \in Parsers |-> "LookingForStartingBoundary"]
    /\ DataCollector = [p \in Parsers |-> <<>>]
    /\ ProcessingFieldName = [p \in Parsers |-> 0]
    /\ Fields = [p \in Parsers |-> [n \in Names |-> 0]]
    /\ object = [p \in Parsers |-> <<>>]
    /\ i = [p \in Parsers |-> 1]
    /\ \E stale \in SUBSET StaleTemps :
         files = [t \in Temps |-> IF t \in stale THEN <<"stale">> ELSE Absent]
    /\ fileCreation_mutex = NoParser
    /\ refused = [p \in Parsers |-> "no"]

At(p, label) == pc[p] = label
Goto(p, label) == pc' = [pc EXCEPT ![p] = label]
\* An exception: accept_request() leaves its loop and goes on to the page.
Throw(p, cause) == Goto(p, "page") /\ refused' = [refused EXCEPT ![p] = cause]

\* What SetContentType() makes of the boundary: all that follows "boundary=".
Boundary(p) == IF form[p].type = "quoted" THEN Quoted ELSE Delimiter

\* The first of the positions where s occurs in what is collected, 0 if none.
FirstOf(S) == IF S = {} THEN 0 ELSE CHOOSE n \in S : \A m \in S : n <= m
BoundaryPositionInDataCollector(p) == FirstOf(Occurrences(Boundary(p), DataCollector[p]))
HeadersEnd(p) == FirstOf(Occurrences(CRLF \o CRLF, DataCollector[p]))

TruncateDataCollectorFromTheBeginning(p, n) ==
    DataCollector' = [DataCollector EXCEPT ![p] = SubSeq(@, n + 1, Len(@))]

-----------------------------------------------------------------------------
(* accept_request() and the parser                                         *)

\* SetContentType(): without a boundary the parser is deleted at once.
SetContentType(p) ==
    /\ At(p, "new")
    /\ Goto(p, IF form[p].type = "none" THEN "gone" ELSE "await")
    /\ UNCHANGED <<form, net, parseVars, fieldVars, fileVars, refused>>

\* Mutant: the new data replaces what was kept.
AcceptSomeDataBug(p) ==
    /\ At(p, "await") /\ net[p] # <<>>
    /\ \E n \in 1..ChunkMax :
         /\ n <= Len(net[p])
         /\ DataCollector' = [DataCollector EXCEPT ![p] = SubSeq(net[p], 1, n)]
         /\ net' = [net EXCEPT ![p] = SubSeq(@, n + 1, Len(@))]
    /\ IF Len(DataCollector'[p]) > MaxDataCollectorLength
       THEN Throw(p, "length")
       ELSE Goto(p, "process") /\ UNCHANGED refused
    /\ UNCHANGED <<form, CurrentStatus, ProcessingFieldName, fieldVars, fileVars>>

\* A chunk of any length is appended to what is kept of the earlier ones.
AcceptSomeData(p) ==
    /\ At(p, "await") /\ net[p] # <<>>
    /\ \E n \in 1..ChunkMax :
         /\ n <= Len(net[p])
         /\ DataCollector' = [DataCollector EXCEPT ![p] = @ \o SubSeq(net[p], 1, n)]
         /\ net' = [net EXCEPT ![p] = SubSeq(@, n + 1, Len(@))]
    /\ IF Len(DataCollector'[p]) > MaxDataCollectorLength
       THEN Throw(p, "length")
       ELSE Goto(p, "process") /\ UNCHANGED refused
    /\ UNCHANGED <<form, CurrentStatus, ProcessingFieldName, fieldVars, fileVars>>

\* The whole body has been accepted; or recvBytes() returns nothing, and the
\* parser is deleted.
EndOfBody(p) ==
    /\ At(p, "await")
    /\ Goto(p, IF net[p] = <<>> THEN "page" ELSE "delete")
    /\ UNCHANGED <<form, net, parseVars, fieldVars, fileVars, refused>>

Processing(p, status) == At(p, "process") /\ CurrentStatus[p] = status

FindStartingBoundary(p) ==
    /\ Processing(p, "LookingForStartingBoundary")
    /\ LET n == BoundaryPositionInDataCollector(p) IN
       IF n = 0
       THEN Goto(p, "await") /\ UNCHANGED parseVars
       ELSE /\ TruncateDataCollectorFromTheBeginning(p, n - 1 + Len(Boundary(p)))
            /\ CurrentStatus' = [CurrentStatus EXCEPT ![p] = "ProcessingHeaders"]
            /\ UNCHANGED <<pc, ProcessingFieldName>>
    /\ UNCHANGED <<form, net, fieldVars, fileVars, refused>>

WaitForHeadersEnd(p) ==
    /\ Processing(p, "ProcessingHeaders")
    /\ HeadersEnd(p) = 0
    /\ Goto(p, "await")
    /\ UNCHANGED <<form, net, parseVars, fieldVars, fileVars, refused>>

\* The headers among the bytes before the empty line.
HeadersIn(p) == {h \in Headers : Contains(SubSeq(DataCollector[p], 1, HeadersEnd(p) - 1), h)}

\* new Field(): it takes the place of an earlier one of that name, which is
\* forgotten.  A file name without its closing quote is found out only then.
ParseHeaders(p) ==
    /\ Processing(p, "ProcessingHeaders")
    /\ HeadersEnd(p) # 0
    /\ \E h \in HeadersIn(p) :
         /\ object' = [object EXCEPT ![p] = Append(@,
                [name |-> HeaderOf[h].name, file |-> HeaderOf[h].file,
                 content |-> <<>>, TempFile |-> 0, is_open |-> FALSE])]
         /\ ProcessingFieldName' = [ProcessingFieldName EXCEPT ![p] = Len(object'[p])]
         /\ Fields' = [Fields EXCEPT ![p][HeaderOf[h].name] = Len(object'[p])]
         /\ IF HeaderOf[h].closed
            THEN /\ TruncateDataCollectorFromTheBeginning(p, HeadersEnd(p) + 3)
                 /\ CurrentStatus' = [CurrentStatus EXCEPT ![p] = "ProcessingContentOfTheField"]
                 /\ UNCHANGED <<pc, refused>>
            ELSE Throw(p, "headers") /\ UNCHANGED <<CurrentStatus, DataCollector>>
    /\ UNCHANGED <<form, net, fileVars>>

\* No "Content-Disposition: form-data;" in the headers.
RejectHeaders(p) ==
    /\ Processing(p, "ProcessingHeaders")
    /\ HeadersEnd(p) # 0 /\ HeadersIn(p) = {}
    /\ Throw(p, "headers")
    /\ UNCHANGED <<form, net, parseVars, fieldVars, fileVars>>

-----------------------------------------------------------------------------
(* The content of a field                                                  *)

Current(p) == object[p][ProcessingFieldName[p]]

\* Mutant: what may be the line end before the boundary is not kept.
DataLengthToSendToFieldBug(p) ==
    LET b == BoundaryPositionInDataCollector(p) IN
    IF b # 0 THEN (b - 1) - 2 ELSE Len(DataCollector[p]) - Len(Boundary(p))

\* What is certain to belong to the field: all before the line end of the
\* boundary, or all but what may become a line end and a boundary.
DataLengthToSendToField(p) ==
    LET b == BoundaryPositionInDataCollector(p) IN
    IF b # 0 THEN (b - 1) - 2 ELSE Len(DataCollector[p]) - (Len(Boundary(p)) + 2)

Data(p) == SubSeq(DataCollector[p], 1, DataLengthToSendToField(p))

\* The end of ProcessContentOfTheField().
ContentProcessed(p) ==
    /\ IF DataLengthToSendToField(p) > 0
       THEN TruncateDataCollectorFromTheBeginning(p, DataLengthToSendToField(p))
       ELSE UNCHANGED DataCollector
    /\ IF BoundaryPositionInDataCollector(p) # 0
       THEN /\ CurrentStatus' = [CurrentStatus EXCEPT ![p] = "LookingForStartingBoundary"]
            /\ UNCHANGED pc
       ELSE Goto(p, "await") /\ UNCHANGED CurrentStatus
    /\ UNCHANGED <<form, net, ProcessingFieldName, Fields, refused>>

NoContent(p) ==
    /\ Processing(p, "ProcessingContentOfTheField")
    /\ DataLengthToSendToField(p) <= 0
    /\ ContentProcessed(p)
    /\ UNCHANGED <<object, fileVars>>

HasContent(p, file) ==
    /\ Processing(p, "ProcessingContentOfTheField")
    /\ DataLengthToSendToField(p) > 0
    /\ Current(p).file = file

TextContent(p) ==
    /\ HasContent(p, FALSE)
    /\ object' = [object EXCEPT ![p][ProcessingFieldName[p]].content = @ \o Data(p)]
    /\ ContentProcessed(p)
    /\ UNCHANGED fileVars

\* Mutant: names are chosen without the mutex.
LockFileCreationBug(p) ==
    /\ HasContent(p, TRUE) /\ ~Current(p).is_open
    /\ fileCreation_mutex' = p
    /\ i' = [i EXCEPT ![p] = 1]
    /\ Goto(p, "choose")
    /\ UNCHANGED <<form, net, parseVars, fieldVars, files, refused>>

\* The first content of a file: a name is chosen under fileCreation_mutex.
LockFileCreation(p) ==
    /\ HasContent(p, TRUE) /\ ~Current(p).is_open
    /\ fileCreation_mutex = NoParser
    /\ fileCreation_mutex' = p
    /\ i' = [i EXCEPT ![p] = 1]
    /\ Goto(p, "choose")
    /\ UNCHANGED <<form, net, parseVars, fieldVars, files, refused>>

\* testfile.open(): a file that can be opened is somebody's.  The numbers end
\* at TempMax, which MultipartAssumption puts out of reach.
TestName(p) ==
    /\ At(p, "choose")
    /\ IF files[i[p]] # Absent
       THEN i[p] < TempMax /\ i' = [i EXCEPT ![p] = @ + 1] /\ UNCHANGED pc
       ELSE Goto(p, "open") /\ UNCHANGED i
    /\ UNCHANGED <<form, net, parseVars, fieldVars, files, fileCreation_mutex, refused>>

\* Mutant: the exception leaves the mutex locked.
OpenFileBug(p) ==
    /\ At(p, "open")
    /\ \/ /\ files' = [files EXCEPT ![i[p]] = <<>>]
          /\ object' = [object EXCEPT ![p][ProcessingFieldName[p]].TempFile = i[p],
                                      ![p][ProcessingFieldName[p]].is_open = TRUE]
          /\ Goto(p, "process")
          /\ fileCreation_mutex' = NoParser
          /\ UNCHANGED refused
       \/ /\ object' = [object EXCEPT ![p][ProcessingFieldName[p]].TempFile = i[p]]
          /\ Throw(p, "open")
          /\ UNCHANGED <<files, fileCreation_mutex>>
    /\ UNCHANGED <<form, net, parseVars, Fields, i>>

\* The file is created, or cannot be; the mutex is released.
OpenFile(p) ==
    /\ At(p, "open")
    /\ \/ /\ files' = [files EXCEPT ![i[p]] = <<>>]
          /\ object' = [object EXCEPT ![p][ProcessingFieldName[p]].TempFile = i[p],
                                      ![p][ProcessingFieldName[p]].is_open = TRUE]
          /\ Goto(p, "process")
          /\ UNCHANGED refused
       \/ /\ object' = [object EXCEPT ![p][ProcessingFieldName[p]].TempFile = i[p]]
          /\ Throw(p, "open")
          /\ UNCHANGED files
    /\ fileCreation_mutex' = NoParser
    /\ UNCHANGED <<form, net, parseVars, Fields, i>>

\* A write goes to the file, if it still has its name.
WriteFile(p) ==
    /\ HasContent(p, TRUE) /\ Current(p).is_open
    /\ files' = [files EXCEPT ![Current(p).TempFile] = IF @ = Absent THEN Absent ELSE @ \o Data(p)]
    /\ ContentProcessed(p)
    /\ UNCHANGED <<object, i, fileCreation_mutex>>

-----------------------------------------------------------------------------
(* The page has used the fields; ~Parser()                                 *)

PageDone(p) ==
    /\ At(p, "page")
    /\ Goto(p, "delete")
    /\ UNCHANGED <<form, net, parseVars, fieldVars, fileVars, refused>>

\* Mutant: the file of a field is left where it is.
DeleteFieldBug(p, n) ==
    /\ At(p, "delete") /\ Fields[p][n] # 0
    /\ Fields' = [Fields EXCEPT ![p][n] = 0]
    /\ object' = [object EXCEPT ![p][Fields[p][n]].is_open = FALSE]
    /\ UNCHANGED <<form, net, pc, parseVars, fileVars, refused>>

\* ~Field(): close() and remove(), without the mutex.
DeleteField(p, n) ==
    /\ At(p, "delete") /\ Fields[p][n] # 0
    /\ Fields' = [Fields EXCEPT ![p][n] = 0]
    /\ object' = [object EXCEPT ![p][Fields[p][n]].is_open = FALSE]
    /\ LET f == object[p][Fields[p][n]] IN
       IF f.is_open
       THEN Goto(p, "remove") /\ i' = [i EXCEPT ![p] = f.TempFile]
       ELSE UNCHANGED <<pc, i>>
    /\ UNCHANGED <<form, net, parseVars, files, fileCreation_mutex, refused>>

RemoveFile(p) ==
    /\ At(p, "remove")
    /\ files' = [files EXCEPT ![i[p]] = Absent]
    /\ Goto(p, "delete")
    /\ UNCHANGED <<form, net, parseVars, fieldVars, i, fileCreation_mutex, refused>>

ParserDeleted(p) ==
    /\ At(p, "delete") /\ \A n \in Names : Fields[p][n] = 0
    /\ Goto(p, "gone")
    /\ UNCHANGED <<form, net, parseVars, fieldVars, fileVars, refused>>

Step(p) ==
    \/ SetContentType(p) \/ AcceptSomeData(p) \/ EndOfBody(p)
    \/ FindStartingBoundary(p) \/ WaitForHeadersEnd(p) \/ ParseHeaders(p) \/ RejectHeaders(p)
    \/ NoContent(p) \/ TextContent(p)
    \/ LockFileCreation(p) \/ TestName(p) \/ OpenFile(p) \/ WriteFile(p)
    \/ PageDone(p) \/ (\E n \in Names : DeleteField(p, n)) \/ RemoveFile(p) \/ ParserDeleted(p)

Next == \E p \in Parsers : Step(p)

Spec == Init /\ [][Next]_vars

\* A worker goes on, and gets the mutex when it is given back again and again.
FairSpec == Spec /\ \A p \in Parsers : SF_vars(Step(p))

-----------------------------------------------------------------------------
(* Properties                                                              *)

\* What field k of a parser holds: in memory, or in its file.
Received(p, k) ==
    LET f == object[p][k] IN
    IF f.file THEN (IF f.is_open THEN files[f.TempFile] ELSE <<>>) ELSE f.content
InUse(p) == pc[p] \in {"await", "process", "choose", "open", "page"}
Complete(p, k) ==
    \/ k < Len(object[p])
    \/ CurrentStatus[p] = "LookingForStartingBoundary"
    \/ CurrentStatus[p] = "ProcessingHeaders" /\ refused[p] # "headers"

\* AcceptSomeData() may be called with the body cut anywhere, in the middle of
\* a boundary or of the headers too, and other requests choose and remove
\* temporary files at the same time: a field holds a beginning of the content
\* of its part, and all of it once the next boundary was found; nothing of the
\* boundary, of another part or of another request.
FieldsFaithful ==
    \A p \in Parsers : InUse(p) =>
        LET parts == form[p].parts IN
        /\ Len(object[p]) <= Len(parts)
        /\ form[p].type = "quoted" => object[p] = <<>>
        /\ \A k \in 1..Len(object[p]) :
             /\ object[p][k].name = HeaderOf[parts[k].header].name
             /\ IsPrefix(Received(p, k), parts[k].content)
             /\ Complete(p, k) => Received(p, k) = parts[k].content

\* When the page is answered after a body that was not refused, every part has
\* its field, and a name has the last part of that name.
FormComplete ==
    \A p \in Parsers : At(p, "page") /\ refused[p] = "no" /\ form[p].type = "bare" =>
        /\ Len(object[p]) = Len(form[p].parts)
        /\ \A n \in Names : \A k \in 1..Len(object[p]) :
             object[p][k].name = n => Fields[p][n] >= k /\ object[p][Fields[p][n]].name = n

\* No two fields, of any request, have the same temporary file: a name that
\* testfile could not open is taken before another thread looks for one.
TempFilesDistinct ==
    \A p, q \in Parsers :
        \A j \in 1..Len(object[p]), k \in 1..Len(object[q]) :
            object[p][j].is_open /\ object[q][k].is_open /\ <<p, j>> # <<q, k>> =>
                object[p][j].TempFile # object[q][k].TempFile

\* When a parser is gone so are its files, but for the one of a field that
\* another of its name replaced: the map has forgotten it.
FilesRemoved ==
    \A t \in Temps :
        files[t] \in {Absent, <<"stale">>}
        \/ \E p \in Parsers : \E k \in 1..Len(object[p]) :
             /\ object[p][k].TempFile = t
             /\ object[p][k].is_open \/ (At(p, "remove") /\ i[p] = t)
             /\ At(p, "gone") => \E l \in (k + 1)..Len(object[p]) :
                                    object[p][l].name = object[p][k].name

\* A parser always comes to its end, whoever else chooses a file.
ParserEnds == \A p \in Parsers : <>At(p, "gone")
=============================================================================
