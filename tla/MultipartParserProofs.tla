------------------------ MODULE MultipartParserProofs ------------------------
(***************************************************************************)
(* The temporary files and the forms of MultipartParser, for any forms,    *)
(* chunks, names and number of requests: every open field has a file of    *)
(* its own, a parser that is gone leaves none behind but those its map has *)
(* forgotten, and a page finds in the fields what the body brought.        *)
(***************************************************************************)
EXTENDS MultipartParser, SequenceTheorems, WellFoundedInduction, TLAPS

(***************************************************************************)
(* The inductive invariant                                                 *)
(***************************************************************************)
\* A parser has a field where its code uses one, and the field whose file it
\* creates has none yet.
PhaseInv ==
    \A p \in Parsers :
        /\ At(p, "new") => object[p] = <<>>
        /\ CurrentStatus[p] = "ProcessingContentOfTheField" => Len(object[p]) > 0
        /\ pc[p] \in {"choose", "open"} =>
             Len(object[p]) > 0 /\ Current(p).file /\ ~Current(p).is_open

Opened(p, k) == k \in 1..Len(object[p]) /\ object[p][k].is_open

\* The file of an open field exists.
OpenInv ==
    \A p \in Parsers : \A k \in 1..Len(object[p]) :
        Opened(p, k) => files[object[p][k].TempFile] # Absent

\* The name that a parser is about to create is still free.
NameInv == \A p \in Parsers : At(p, "open") => files[i[p]] = Absent

\* The file that a parser is about to remove exists, and is nobody else's.
RemoveInv ==
    \A p \in Parsers : At(p, "remove") =>
        /\ files[i[p]] # Absent
        /\ \A q \in Parsers : \A k \in 1..Len(object[q]) :
             Opened(q, k) => object[q][k].TempFile # i[p]
        /\ \A q \in Parsers : At(q, "remove") /\ i[q] = i[p] => q = p

\* Until ~Parser(), the map has every field, and then the open ones, but for
\* those of a name used again.
Ending(p) == pc[p] \in {"delete", "remove", "gone"}
MapInv ==
    \A p \in Parsers : \A k \in 1..Len(object[p]) : Opened(p, k) \/ ~Ending(p) =>
        \/ Fields[p][object[p][k].name] = k
        \/ \E l \in (k + 1)..Len(object[p]) : object[p][l].name = object[p][k].name

FileInv == OpenInv /\ NameInv /\ RemoveInv /\ MapInv /\ TempFilesDistinct /\ FilesRemoved

IInv == TypeOK /\ PhaseInv /\ FileInv
(***************************************************************************)
(* The positions that are looked for                                       *)
(***************************************************************************)
\* Every set of numbers but the empty one has a smallest.
LEMMA Smallest ==
    ASSUME NEW S \in SUBSET Nat, S # {}
    PROVE  \E n \in S : \A m \in S : n <= m
<1> DEFINE R == OpToRel(<, Nat)
<1>1. IsWellFoundedOn(R, Nat)
  BY ZenonT(60), NatLessThanWellFounded
<1>2. \A x, y \in Nat : y < x => <<y, x>> \in R
  BY DEF OpToRel
<1> HIDE DEF R
<1>3. PICK x \in S : \A y \in S : ~(<<y, x>> \in R)
  BY <1>1, WFMin
<1>4. x \in Nat /\ \A y \in S : y \in Nat /\ ~(y < x)
  BY <1>2, <1>3
<1> QED
  BY <1>4

LEMMA FirstIsOne ==
    ASSUME NEW S \in SUBSET (Nat \ {0})
    PROVE  FirstOf(S) \in Nat /\ (FirstOf(S) # 0 => FirstOf(S) \in S) /\ (S # {} => FirstOf(S) # 0)
BY Smallest DEF FirstOf

LEMMA OccurrenceBounds ==
    ASSUME NEW B, NEW s \in Seq(B), NEW t \in Seq(B)
    PROVE  /\ FirstOf(Occurrences(s, t)) \in Nat
           /\ FirstOf(Occurrences(s, t)) # 0 => FirstOf(Occurrences(s, t)) + Len(s) <= Len(t) + 1
<1>1. Occurrences(s, t) \in SUBSET (Nat \ {0}) /\ \A n \in Occurrences(s, t) : n + Len(s) <= Len(t) + 1
  BY DEF Occurrences
<1> QED
  BY <1>1, FirstIsOne

\* The end of a sequence, and its beginning.
LEMMA EndTyped ==
    ASSUME NEW s \in Seq(Bytes), NEW n \in Nat
    PROVE  /\ SubSeq(s, n + 1, Len(s)) \in Seq(Bytes)
           /\ Len(SubSeq(s, n + 1, Len(s))) = IF n <= Len(s) THEN Len(s) - n ELSE 0
OBVIOUS

LEMMA BeginningTyped ==
    ASSUME NEW s \in Seq(Bytes), NEW n \in Int, n <= Len(s)
    PROVE  SubSeq(s, 1, n) \in Seq(Bytes) /\ Len(SubSeq(s, 1, n)) = IF 0 <= n THEN n ELSE 0
OBVIOUS

LEMMA EndOfEnd ==
    ASSUME NEW s \in Seq(Bytes), NEW n \in 0..Len(s), NEW m \in 0..(Len(s) - n)
    PROVE  LET e == SubSeq(s, n + 1, Len(s))
           IN  SubSeq(e, m + 1, Len(e)) = SubSeq(s, n + m + 1, Len(s))
OBVIOUS
(***************************************************************************)
(* Types                                                                   *)
(***************************************************************************)
LEMMA BoundaryTyped ==
    ASSUME TypeOK, NEW p \in Parsers
    PROVE  Boundary(p) \in Seq(Bytes)
BY MultipartAssumption DEF Boundary

\* Where a boundary, or the end of the headers, is found, it is all there.
LEMMA PositionsTyped ==
    ASSUME TypeOK, NEW p \in Parsers
    PROVE  /\ BoundaryPositionInDataCollector(p) \in Nat
           /\ BoundaryPositionInDataCollector(p) # 0 =>
                BoundaryPositionInDataCollector(p) + Len(Boundary(p)) <= Len(DataCollector[p]) + 1
           /\ HeadersEnd(p) \in Nat
           /\ HeadersEnd(p) # 0 => HeadersEnd(p) + 3 <= Len(DataCollector[p])
<1>1. DataCollector[p] \in Seq(Bytes)
  BY DEF TypeOK
<1>2. CRLF \o CRLF \in Seq(Bytes \cup {"cr", "lf"}) /\ Len(CRLF \o CRLF) = 4
  BY DEF CRLF
<1>3. DataCollector[p] \in Seq(Bytes \cup {"cr", "lf"})
  BY <1>1
<1>4. /\ BoundaryPositionInDataCollector(p) \in Nat
      /\ BoundaryPositionInDataCollector(p) # 0 =>
           BoundaryPositionInDataCollector(p) + Len(Boundary(p)) <= Len(DataCollector[p]) + 1
  BY <1>1, BoundaryTyped, OccurrenceBounds DEF BoundaryPositionInDataCollector
<1>5. /\ HeadersEnd(p) \in Nat
      /\ HeadersEnd(p) # 0 => HeadersEnd(p) + 4 <= Len(DataCollector[p]) + 1
  BY <1>2, <1>3, OccurrenceBounds DEF HeadersEnd
<1> QED
  BY <1>1, <1>4, <1>5

\* What goes to the field is of the collector.
LEMMA DataTyped ==
    ASSUME TypeOK, NEW p \in Parsers
    PROVE  /\ DataLengthToSendToField(p) \in Int
           /\ DataLengthToSendToField(p) <= Len(DataCollector[p])
           /\ Data(p) \in Seq(Bytes)
<1>1. DataCollector[p] \in Seq(Bytes) /\ Boundary(p) \in Seq(Bytes)
  BY BoundaryTyped DEF TypeOK
<1>2. /\ DataLengthToSendToField(p) \in Int
      /\ DataLengthToSendToField(p) <= Len(DataCollector[p])
  BY SMTT(60), <1>1, PositionsTyped DEF DataLengthToSendToField
<1> QED
  BY <1>1, <1>2, BeginningTyped DEF Data

\* A parser moves on, and may throw, outside the choice of a name.
LEMMA MoveTyped ==
    ASSUME TypeOK, NEW p \in Parsers, pc[p] \notin {"choose", "open"},
           NEW label \in PCs \ {"choose", "open"}, Goto(p, label),
           \/ UNCHANGED refused
           \/ refused' \in [Parsers -> Causes] /\ \A q \in Parsers : refused'[q] = "no" => refused[q] = "no",
           UNCHANGED <<form, net, parseVars, fieldVars, fileVars>>
    PROVE  TypeOK'
<1>1. pc' \in [Parsers -> PCs] /\ \A q \in Parsers : pc'[q] \in {"choose", "open"} <=> pc[q] \in {"choose", "open"}
  BY DEF TypeOK, Goto
<1>2. refused' \in [Parsers -> Causes] /\ \A q \in Parsers : refused'[q] = "no" => refused[q] = "no"
  BY DEF TypeOK
<1>3. /\ form' = form /\ net' = net /\ CurrentStatus' = CurrentStatus /\ DataCollector' = DataCollector
      /\ ProcessingFieldName' = ProcessingFieldName /\ Fields' = Fields /\ object' = object
      /\ i' = i /\ files' = files /\ fileCreation_mutex' = fileCreation_mutex
  BY DEF parseVars, fieldVars, fileVars
<1>4. \A q \in Parsers : refused'[q] = "no" => Len(DataCollector'[q]) <= MaxDataCollectorLength
  BY <1>2, <1>3 DEF TypeOK
<1>5. \A q \in Parsers : pc'[q] \in {"choose", "open"} <=> fileCreation_mutex' = q
  BY <1>1, <1>3 DEF TypeOK
<1> QED
  BY SMTT(60), <1>1, <1>2, <1>3, <1>4, <1>5 DEF TypeOK

LEMMA ThrowTyped ==
    ASSUME TypeOK, NEW p \in Parsers, NEW cause \in Causes \ {"no"}, Throw(p, cause)
    PROVE  /\ refused' \in [Parsers -> Causes]
           /\ \A q \in Parsers : refused'[q] = "no" => refused[q] = "no" /\ q # p
           /\ Goto(p, "page")
BY DEF TypeOK, Throw

LEMMA QuietTypes ==
    ASSUME TypeOK, NEW p \in Parsers,
           \/ SetContentType(p) \/ EndOfBody(p) \/ WaitForHeadersEnd(p) \/ RejectHeaders(p)
           \/ PageDone(p) \/ ParserDeleted(p)
    PROVE  TypeOK'
<1>1. ASSUME NEW label \in {"gone", "await", "page", "delete"}, Goto(p, label),
             pc[p] \notin {"choose", "open"}, UNCHANGED <<form, net, parseVars, fieldVars, fileVars, refused>>
      PROVE  TypeOK'
  BY <1>1, MoveTyped DEF PCs
<1>2. CASE SetContentType(p)
  BY <1>1, <1>2 DEF SetContentType, At
<1>3. CASE EndOfBody(p)
  BY <1>1, <1>3 DEF EndOfBody, At
<1>4. CASE WaitForHeadersEnd(p)
  BY <1>1, <1>4 DEF WaitForHeadersEnd, Processing, At
<1>5. CASE RejectHeaders(p)
  <2>1. /\ Throw(p, "headers") /\ pc[p] = "process"
        /\ UNCHANGED <<form, net, parseVars, fieldVars, fileVars>>
    BY <1>5 DEF RejectHeaders, Processing, At
  <2> QED
    BY <2>1, ThrowTyped, MoveTyped DEF PCs, Causes
<1>6. CASE PageDone(p)
  BY <1>1, <1>6 DEF PageDone, At
<1>7. CASE ParserDeleted(p)
  BY <1>1, <1>7 DEF ParserDeleted, At
<1> QED
  BY <1>2, <1>3, <1>4, <1>5, <1>6, <1>7

LEMMA AcceptTypes ==
    ASSUME TypeOK, NEW p \in Parsers, AcceptSomeData(p)
    PROVE  TypeOK'
<1>1. PICK n \in 1..ChunkMax :
        /\ n <= Len(net[p])
        /\ DataCollector' = [DataCollector EXCEPT ![p] = @ \o SubSeq(net[p], 1, n)]
        /\ net' = [net EXCEPT ![p] = SubSeq(@, n + 1, Len(@))]
  BY DEF AcceptSomeData
<1>2. /\ form[p] \in AllForms /\ Body(form[p]) \in Seq(Bytes)
      /\ net[p] \in Seq(Bytes) /\ DataCollector[p] \in Seq(Bytes)
  BY MultipartAssumption DEF TypeOK
<1> DEFINE rest == SubSeq(net[p], n + 1, Len(net[p]))
           all == DataCollector[p] \o SubSeq(net[p], 1, n)
<1>3. n \in 0..Len(net[p]) /\ n \in Nat
  BY <1>1, <1>2, MultipartAssumption
<1>4. rest \in Seq(Bytes) /\ all \in Seq(Bytes)
  <2>1. rest \in Seq(Bytes)
    BY <1>2, <1>3, EndTyped
  <2>2. SubSeq(net[p], 1, n) \in Seq(Bytes)
    BY <1>2, <1>3, BeginningTyped
  <2> QED
    BY <1>2, <2>1, <2>2
<1>5. \E m \in 0..Len(Body(form[p])) : rest = SubSeq(Body(form[p]), m + 1, Len(Body(form[p])))
  <2>1. PICK m \in 0..Len(Body(form[p])) : net[p] = SubSeq(Body(form[p]), m + 1, Len(Body(form[p])))
    BY DEF TypeOK
  <2>2. Len(net[p]) = Len(Body(form[p])) - m
    <3>1. m \in Nat /\ m <= Len(Body(form[p]))
      BY <1>2
    <3> QED
      BY <1>2, <2>1, <3>1, EndTyped
  <2>3. rest = SubSeq(Body(form[p]), m + n + 1, Len(Body(form[p])))
    BY SMTT(60), <1>2, <1>3, <2>1, <2>2, EndOfEnd
  <2>4. m + n \in 0..Len(Body(form[p]))
    BY <1>2, <1>3, <2>2
  <2> QED
    BY <2>3, <2>4
<1>6. net' = [net EXCEPT ![p] = rest] /\ DataCollector' = [DataCollector EXCEPT ![p] = all]
  BY <1>1
<1> HIDE DEF rest, all
<1>7. net' \in [Parsers -> Seq(Bytes)] /\ DataCollector' \in [Parsers -> Seq(Bytes)]
  BY <1>4, <1>6 DEF TypeOK
<1>8. UNCHANGED <<form, CurrentStatus, ProcessingFieldName, fieldVars, fileVars>> /\ pc[p] = "await"
  BY DEF AcceptSomeData, At
<1>9. \A q \in Parsers : \E m \in 0..Len(Body(form'[q])) :
         net'[q] = SubSeq(Body(form'[q]), m + 1, Len(Body(form'[q])))
  BY <1>5, <1>6, <1>8 DEF TypeOK
<1>10. /\ pc' \in [Parsers -> PCs] /\ refused' \in [Parsers -> Causes]
       /\ \A q \in Parsers : pc'[q] \in {"choose", "open"} <=> pc[q] \in {"choose", "open"}
       /\ \A q \in Parsers : refused'[q] = "no" => Len(DataCollector'[q]) <= MaxDataCollectorLength
  <2>1. Len(all) \in Nat /\ DataCollector'[p] = all /\ \A q \in Parsers \ {p} : DataCollector'[q] = DataCollector[q]
    BY <1>4, <1>6 DEF TypeOK
  <2>2. CASE Len(DataCollector'[p]) > MaxDataCollectorLength
    <3>1. Throw(p, "length")
      BY <2>2 DEF AcceptSomeData
    <3>2. /\ refused' \in [Parsers -> Causes] /\ pc' = [pc EXCEPT ![p] = "page"]
          /\ \A q \in Parsers : refused'[q] = "no" => refused[q] = "no" /\ q # p
      BY <3>1, ThrowTyped DEF Causes, Goto
    <3>3. \A q \in Parsers : refused'[q] = "no" => Len(DataCollector'[q]) <= MaxDataCollectorLength
      BY <2>1, <3>2 DEF TypeOK
    <3> QED
      BY <1>8, <3>2, <3>3 DEF TypeOK, PCs
  <2>3. CASE ~(Len(DataCollector'[p]) > MaxDataCollectorLength)
    <3>1. Goto(p, "process") /\ UNCHANGED refused
      BY <2>3 DEF AcceptSomeData
    <3>2. Len(DataCollector'[p]) <= MaxDataCollectorLength
      BY <2>1, <2>3, MultipartAssumption
    <3> QED
      BY <1>8, <2>1, <3>1, <3>2 DEF TypeOK, Goto, PCs
  <2> QED
    BY <2>2, <2>3
<1>11. /\ form' = form /\ CurrentStatus' = CurrentStatus
       /\ ProcessingFieldName' = ProcessingFieldName /\ Fields' = Fields /\ object' = object
       /\ i' = i /\ files' = files /\ fileCreation_mutex' = fileCreation_mutex
  BY <1>8 DEF fieldVars, fileVars
<1> QED
  BY ZenonT(60), <1>7, <1>9, <1>10, <1>11 DEF TypeOK

LEMMA TruncateTyped ==
    ASSUME TypeOK, NEW p \in Parsers, NEW n \in Nat, TruncateDataCollectorFromTheBeginning(p, n)
    PROVE  /\ DataCollector' \in [Parsers -> Seq(Bytes)]
           /\ \A q \in Parsers : Len(DataCollector'[q]) <= Len(DataCollector[q])
<1> DEFINE rest == SubSeq(DataCollector[p], n + 1, Len(DataCollector[p]))
<1>1. DataCollector \in [Parsers -> Seq(Bytes)] /\ DataCollector[p] \in Seq(Bytes)
  BY DEF TypeOK
<1>2. rest \in Seq(Bytes) /\ Len(rest) <= Len(DataCollector[p])
  <2>1. rest \in Seq(Bytes) /\ Len(rest) = IF n <= Len(DataCollector[p]) THEN Len(DataCollector[p]) - n ELSE 0
    BY <1>1, EndTyped
  <2> QED
    BY <1>1, <2>1
<1>3. DataCollector' = [DataCollector EXCEPT ![p] = rest]
  BY DEF TruncateDataCollectorFromTheBeginning
<1> HIDE DEF rest
<1> QED
  BY <1>1, <1>2, <1>3

\* A field keeps its name and its file.
FieldKept(q, k) ==
    /\ object'[q][k].name = object[q][k].name /\ object'[q][k].file = object[q][k].file
    /\ object'[q][k].TempFile = object[q][k].TempFile /\ object'[q][k].is_open = object[q][k].is_open
FieldsKept(q) == Len(object'[q]) = Len(object[q]) /\ \A k \in 1..Len(object[q]) : FieldKept(q, k)

\* The bytes of the collector are looked at, and some of them used.
LEMMA ProcessTyped ==
    ASSUME TypeOK, NEW p \in Parsers, pc[p] = "process",
           NEW label \in {"process", "await"}, Goto(p, label),
           UNCHANGED <<form, net, ProcessingFieldName, Fields, refused, i, fileCreation_mutex>>,
           DataCollector' \in [Parsers -> Seq(Bytes)],
           \A q \in Parsers : Len(DataCollector'[q]) <= Len(DataCollector[q]),
           CurrentStatus' \in [Parsers -> Statuses],
           object' \in [Parsers -> Seq(Field)], \A q \in Parsers : FieldsKept(q),
           files' \in [Temps -> Seq(Bytes) \cup {Absent}]
    PROVE  TypeOK'
<1>1. /\ form' = form /\ net' = net /\ ProcessingFieldName' = ProcessingFieldName /\ Fields' = Fields
      /\ refused' = refused /\ i' = i /\ fileCreation_mutex' = fileCreation_mutex
  OBVIOUS
<1>2. /\ pc' \in [Parsers -> PCs]
      /\ \A q \in Parsers : pc'[q] \in {"choose", "open"} <=> fileCreation_mutex' = q
  BY <1>1 DEF TypeOK, Goto, PCs
<1>3. \A q \in Parsers : refused'[q] = "no" => Len(DataCollector'[q]) <= MaxDataCollectorLength
  <2>1. DataCollector \in [Parsers -> Seq(Bytes)]
        /\ \A q \in Parsers : refused[q] = "no" => Len(DataCollector[q]) <= MaxDataCollectorLength
    BY DEF TypeOK
  <2>2. \A q \in Parsers : DataCollector[q] \in Seq(Bytes) /\ DataCollector'[q] \in Seq(Bytes)
    BY <2>1
  <2>3. \A q \in Parsers : Len(DataCollector'[q]) \in Nat /\ Len(DataCollector[q]) \in Nat
    BY <2>2
  <2> QED
    BY <1>1, <2>1, <2>3, MultipartAssumption
<1>4. \A q \in Parsers : \A k \in 1..Len(object'[q]) :
        object'[q][k].is_open => object'[q][k].file /\ object'[q][k].TempFile # 0
  <2>1. \A q \in Parsers : \A k \in 1..Len(object[q]) :
          object[q][k].is_open => object[q][k].file /\ object[q][k].TempFile # 0
    BY DEF TypeOK
  <2> SUFFICES ASSUME NEW q \in Parsers, NEW k \in 1..Len(object'[q]), object'[q][k].is_open
               PROVE  object'[q][k].file /\ object'[q][k].TempFile # 0
    OBVIOUS
  <2>2. k \in 1..Len(object[q]) /\ FieldKept(q, k)
    BY DEF FieldsKept
  <2>3. object[q][k].is_open
    BY <2>2 DEF FieldKept
  <2>4. object[q][k].file /\ object[q][k].TempFile # 0
    BY <2>1, <2>2, <2>3
  <2>5. object'[q][k].file
    BY <2>2, <2>4 DEF FieldKept
  <2> QED
    BY <2>2, <2>4, <2>5 DEF FieldKept
<1>5. ProcessingFieldName' = [q \in Parsers |-> Len(object'[q])]
  BY SMTT(60), <1>1 DEF TypeOK, FieldsKept
<1>6. \A q \in Parsers : \A n \in Names : Fields'[q][n] \in 0..Len(object'[q])
  BY <1>1 DEF TypeOK, FieldsKept
<1> QED
  BY ZenonT(60), <1>1, <1>2, <1>3, <1>4, <1>5, <1>6 DEF TypeOK

LEMMA FindTypes ==
    ASSUME TypeOK, NEW p \in Parsers, FindStartingBoundary(p)
    PROVE  TypeOK'
<1> DEFINE n == BoundaryPositionInDataCollector(p)
<1>1. /\ pc[p] = "process" /\ object' = object /\ files' = files
      /\ UNCHANGED <<form, net, Fields, refused, i, fileCreation_mutex>>
  BY DEF FindStartingBoundary, Processing, At, fieldVars, fileVars
<1>2. object' \in [Parsers -> Seq(Field)] /\ \A q \in Parsers : FieldsKept(q)
  BY <1>1 DEF TypeOK, FieldsKept, FieldKept
<1>3. files' \in [Temps -> Seq(Bytes) \cup {Absent}]
  BY <1>1 DEF TypeOK
<1>4. CASE n = 0
  <2>1. Goto(p, "await") /\ UNCHANGED <<CurrentStatus, DataCollector, ProcessingFieldName>>
    BY <1>4 DEF FindStartingBoundary, parseVars
  <2>2. DataCollector' \in [Parsers -> Seq(Bytes)] /\ \A q \in Parsers : Len(DataCollector'[q]) <= Len(DataCollector[q])
    BY <2>1 DEF TypeOK
  <2>3. CurrentStatus' \in [Parsers -> Statuses]
    BY <2>1 DEF TypeOK
  <2> QED
    BY <1>1, <1>2, <1>3, <2>1, <2>2, <2>3, ProcessTyped
<1>5. CASE n # 0
  <2>1. /\ TruncateDataCollectorFromTheBeginning(p, n - 1 + Len(Boundary(p)))
        /\ CurrentStatus' = [CurrentStatus EXCEPT ![p] = "ProcessingHeaders"]
        /\ UNCHANGED <<pc, ProcessingFieldName>>
    BY <1>5 DEF FindStartingBoundary
  <2>2. n \in Nat /\ Len(Boundary(p)) \in Nat
    BY BoundaryTyped, PositionsTyped
  <2> HIDE DEF n
  <2>3. n - 1 + Len(Boundary(p)) \in Nat
    BY <1>5, <2>2
  <2>4. DataCollector' \in [Parsers -> Seq(Bytes)] /\ \A q \in Parsers : Len(DataCollector'[q]) <= Len(DataCollector[q])
    BY <2>1, <2>3, TruncateTyped
  <2>5. CurrentStatus' \in [Parsers -> Statuses]
    BY <2>1 DEF TypeOK, Statuses
  <2>6. Goto(p, "process")
    BY <1>1, <2>1 DEF TypeOK, Goto
  <2> QED
    BY <1>1, <1>2, <1>3, <2>1, <2>4, <2>5, <2>6, ProcessTyped
<1> QED
  BY <1>4, <1>5

LEMMA ContentProcessedTyped ==
    ASSUME TypeOK, NEW p \in Parsers, pc[p] = "process", ContentProcessed(p)
    PROVE  /\ UNCHANGED <<form, net, ProcessingFieldName, Fields, refused>>
           /\ DataCollector' \in [Parsers -> Seq(Bytes)]
           /\ \A q \in Parsers : Len(DataCollector'[q]) <= Len(DataCollector[q])
           /\ CurrentStatus' \in [Parsers -> Statuses]
           /\ \E label \in {"process", "await"} : Goto(p, label)
           /\ \A q \in Parsers : CurrentStatus'[q] = "ProcessingContentOfTheField"
                                   => CurrentStatus[q] = "ProcessingContentOfTheField"
<1> DEFINE n == DataLengthToSendToField(p)
<1>1. UNCHANGED <<form, net, ProcessingFieldName, Fields, refused>>
  BY DEF ContentProcessed
<1>2. /\ DataCollector' \in [Parsers -> Seq(Bytes)]
      /\ \A q \in Parsers : Len(DataCollector'[q]) <= Len(DataCollector[q])
  <2>1. n \in Int
    BY DataTyped
  <2>2. CASE n > 0
    <3>1. TruncateDataCollectorFromTheBeginning(p, n)
      BY <2>2 DEF ContentProcessed
    <3> HIDE DEF n
    <3>2. n \in Nat
      BY <2>1, <2>2
    <3> QED
      BY <3>1, <3>2, TruncateTyped
  <2>3. CASE ~(n > 0)
    <3>1. DataCollector' = DataCollector
      BY <2>3 DEF ContentProcessed
    <3>2. DataCollector \in [Parsers -> Seq(Bytes)]
      BY DEF TypeOK
    <3>3. \A q \in Parsers : DataCollector[q] \in Seq(Bytes)
      BY <3>2
    <3>4. \A q \in Parsers : Len(DataCollector[q]) \in Nat
      BY <3>3
    <3> QED
      BY <3>1, <3>2, <3>4
  <2> QED
    BY <2>2, <2>3
<1>3. /\ CurrentStatus' \in [Parsers -> Statuses]
      /\ \A q \in Parsers : CurrentStatus'[q] = "ProcessingContentOfTheField"
                              => CurrentStatus[q] = "ProcessingContentOfTheField"
  BY ZenonT(60) DEF ContentProcessed, TypeOK, Statuses
<1>4. \E label \in {"process", "await"} : Goto(p, label)
  <2>1. pc' = pc => Goto(p, "process")
    BY DEF TypeOK, Goto
  <2> QED
    BY <2>1 DEF ContentProcessed
<1> QED
  BY <1>1, <1>2, <1>3, <1>4

\* The field that is being filled.
LEMMA CurrentTyped ==
    ASSUME TypeOK, PhaseInv, NEW p \in Parsers,
           \/ CurrentStatus[p] = "ProcessingContentOfTheField"
           \/ pc[p] \in {"choose", "open"}
    PROVE  /\ ProcessingFieldName[p] = Len(object[p]) /\ Len(object[p]) \in 1..Len(object[p])
           /\ object[p] \in Seq(Field) /\ Current(p) \in Field
           /\ Current(p) = object[p][Len(object[p])]
<1>1. /\ ProcessingFieldName[p] = Len(object[p]) /\ object[p] \in Seq(Field)
      /\ Len(object[p]) \in Nat
  BY DEF TypeOK
<1>2. Len(object[p]) > 0
  BY DEF PhaseInv
<1> QED
  BY <1>1, <1>2 DEF Current

\* A field that is filled keeps its name and its file.
LEMMA FilledKept ==
    ASSUME TypeOK, PhaseInv, NEW p \in Parsers, NoContent(p) \/ TextContent(p) \/ WriteFile(p)
    PROVE  object' \in [Parsers -> Seq(Field)] /\ \A q \in Parsers : FieldsKept(q)
<1>1. CurrentStatus[p] = "ProcessingContentOfTheField"
  BY DEF NoContent, TextContent, WriteFile, HasContent, Processing
<1>2. CASE object' = object
  BY <1>2 DEF TypeOK, FieldsKept, FieldKept
<1>3. CASE TextContent(p)
  <2> DEFINE n == Len(object[p])
             f == [object[p][n] EXCEPT !.content = @ \o Data(p)]
             s == [object[p] EXCEPT ![n] = f]
  <2>1. /\ ProcessingFieldName[p] = n /\ n \in 1..Len(object[p])
        /\ object[p] \in Seq(Field) /\ object[p][n] \in Field
    BY <1>1, CurrentTyped
  <2>2. /\ f \in Field /\ f.name = object[p][n].name /\ f.file = object[p][n].file
        /\ f.TempFile = object[p][n].TempFile /\ f.is_open = object[p][n].is_open
    <3>1. object[p][n].content \o Data(p) \in Seq(Bytes)
      BY <2>1, DataTyped DEF Field
    <3> QED
      BY <2>1, <3>1 DEF Field
  <2>3. object' = [object EXCEPT ![p] = s]
    BY <1>3, <2>1 DEF TextContent
  <2> HIDE DEF f
  <2>4. s \in Seq(Field) /\ Len(s) = Len(object[p]) /\ s[n] = f /\ \A k \in 1..Len(object[p]) : k # n => s[k] = object[p][k]
    BY <2>1, <2>2
  <2> HIDE DEF s, n
  <2>5. object' \in [Parsers -> Seq(Field)] /\ object'[p] = s /\ \A q \in Parsers \ {p} : object'[q] = object[q]
    BY <2>3, <2>4 DEF TypeOK
  <2> QED
    BY ZenonT(60), <2>2, <2>4, <2>5 DEF FieldsKept, FieldKept
<1> QED
  BY <1>2, <1>3 DEF NoContent, WriteFile

LEMMA FillTypes ==
    ASSUME TypeOK, PhaseInv, NEW p \in Parsers, NoContent(p) \/ TextContent(p) \/ WriteFile(p)
    PROVE  TypeOK'
<1>1. /\ pc[p] = "process" /\ CurrentStatus[p] = "ProcessingContentOfTheField"
      /\ ContentProcessed(p) /\ i' = i /\ fileCreation_mutex' = fileCreation_mutex
  BY DEF NoContent, TextContent, WriteFile, HasContent, Processing, At, fileVars
<1>2. files' \in [Temps -> Seq(Bytes) \cup {Absent}]
  <2>1. CASE NoContent(p) \/ TextContent(p)
    BY <2>1 DEF NoContent, TextContent, fileVars, TypeOK
  <2>2. CASE WriteFile(p)
    <3> DEFINE t == Current(p).TempFile
               new == IF files[t] = Absent THEN Absent ELSE files[t] \o Data(p)
    <3>1. files' = [files EXCEPT ![t] = new]
      BY <2>2 DEF WriteFile
    <3>2. CASE t \in Temps
      <4>1. files[t] \in Seq(Bytes) \cup {Absent}
        BY <3>2 DEF TypeOK
      <4>2. new \in Seq(Bytes) \cup {Absent}
        BY <4>1, DataTyped
      <4> HIDE DEF new, t
      <4> QED
        BY <3>1, <4>2 DEF TypeOK
    <3>3. CASE t \notin Temps
      BY <3>1, <3>3 DEF TypeOK
    <3> QED
      BY <3>2, <3>3
  <2> QED
    BY <2>1, <2>2
<1>3. object' \in [Parsers -> Seq(Field)] /\ \A q \in Parsers : FieldsKept(q)
  BY FilledKept
<1> QED
  BY <1>1, <1>2, <1>3, ContentProcessedTyped, ProcessTyped

\* One field of one parser is replaced, or one is added.
PutField(p, n, f) == object' = [object EXCEPT ![p] = [object[p] EXCEPT ![n] = f]]

LEMMA Replaced ==
    ASSUME TypeOK, NEW p \in Parsers, NEW n \in 1..Len(object[p]), NEW f \in Field,
           PutField(p, n, f)
    PROVE  /\ object' \in [Parsers -> Seq(Field)]
           /\ \A q \in Parsers : Len(object'[q]) = Len(object[q])
           /\ object'[p][n] = f
           /\ \A q \in Parsers : \A k \in 1..Len(object[q]) :
                q # p \/ k # n => object'[q][k] = object[q][k]
<1> DEFINE s == [object[p] EXCEPT ![n] = f]
<1>1. object \in [Parsers -> Seq(Field)] /\ object[p] \in Seq(Field)
  BY DEF TypeOK
<1>2. /\ s \in Seq(Field) /\ Len(s) = Len(object[p]) /\ s[n] = f
      /\ \A k \in 1..Len(object[p]) : k # n => s[k] = object[p][k]
  BY <1>1
<1>3. object' = [object EXCEPT ![p] = s]
  BY DEF PutField
<1> HIDE DEF s
<1> QED
  BY <1>1, <1>2, <1>3

LEMMA Added ==
    ASSUME TypeOK, NEW p \in Parsers, NEW f \in Field,
           object' = [object EXCEPT ![p] = Append(object[p], f)]
    PROVE  /\ object' \in [Parsers -> Seq(Field)]
           /\ Len(object[p]) \in Nat /\ Len(object'[p]) = Len(object[p]) + 1
           /\ object'[p][Len(object[p]) + 1] = f
           /\ \A k \in 1..Len(object[p]) : object'[p][k] = object[p][k]
           /\ \A q \in Parsers \ {p} : object'[q] = object[q]
<1> DEFINE s == Append(object[p], f)
<1>1. object \in [Parsers -> Seq(Field)] /\ object[p] \in Seq(Field)
  BY DEF TypeOK
<1>2. /\ s \in Seq(Field) /\ Len(s) = Len(object[p]) + 1 /\ s[Len(object[p]) + 1] = f
      /\ \A k \in 1..Len(object[p]) : s[k] = object[p][k]
      /\ Len(object[p]) \in Nat
  BY <1>1
<1>3. object' = [object EXCEPT ![p] = s]
  OBVIOUS
<1> HIDE DEF s
<1> QED
  BY <1>1, <1>2, <1>3

\* The field that ParseHeaders() makes.
NewField(h) ==
    [name |-> HeaderOf[h].name, file |-> HeaderOf[h].file,
     content |-> <<>>, TempFile |-> 0, is_open |-> FALSE]

LEMMA NewFieldTyped ==
    ASSUME NEW h \in Headers
    PROVE  /\ NewField(h) \in Field /\ NewField(h).name = HeaderOf[h].name
           /\ ~NewField(h).is_open /\ NewField(h).is_open = FALSE
BY MultipartAssumption DEF NewField, Field, Names

LEMMA Parsed ==
    ASSUME TypeOK, NEW p \in Parsers, ParseHeaders(p)
    PROVE  \E h \in Headers :
             /\ object' = [object EXCEPT ![p] = Append(object[p], NewField(h))]
             /\ ProcessingFieldName' = [ProcessingFieldName EXCEPT ![p] = Len(object'[p])]
             /\ Fields' = [Fields EXCEPT ![p][HeaderOf[h].name] = Len(object'[p])]
             /\ \/ /\ TruncateDataCollectorFromTheBeginning(p, HeadersEnd(p) + 3)
                   /\ CurrentStatus' = [CurrentStatus EXCEPT ![p] = "ProcessingContentOfTheField"]
                   /\ UNCHANGED <<pc, refused>>
                \/ Throw(p, "headers") /\ UNCHANGED <<CurrentStatus, DataCollector>>
<1>1. HeadersIn(p) \subseteq Headers
  BY DEF HeadersIn
<1> QED
  BY <1>1 DEF ParseHeaders, NewField

LEMMA ParseTypes ==
    ASSUME TypeOK, NEW p \in Parsers, ParseHeaders(p)
    PROVE  TypeOK'
<1>1. PICK h \in Headers :
             /\ object' = [object EXCEPT ![p] = Append(object[p], NewField(h))]
             /\ ProcessingFieldName' = [ProcessingFieldName EXCEPT ![p] = Len(object'[p])]
             /\ Fields' = [Fields EXCEPT ![p][HeaderOf[h].name] = Len(object'[p])]
             /\ \/ /\ TruncateDataCollectorFromTheBeginning(p, HeadersEnd(p) + 3)
                   /\ CurrentStatus' = [CurrentStatus EXCEPT ![p] = "ProcessingContentOfTheField"]
                   /\ UNCHANGED <<pc, refused>>
                \/ Throw(p, "headers") /\ UNCHANGED <<CurrentStatus, DataCollector>>
  BY Parsed
<1>2. /\ form' = form /\ net' = net /\ i' = i /\ files' = files
      /\ fileCreation_mutex' = fileCreation_mutex /\ pc[p] = "process"
  BY DEF ParseHeaders, fileVars, Processing, At
<1>3. /\ object' \in [Parsers -> Seq(Field)]
      /\ Len(object[p]) \in Nat /\ Len(object'[p]) = Len(object[p]) + 1
      /\ object'[p][Len(object[p]) + 1] = NewField(h)
      /\ \A k \in 1..Len(object[p]) : object'[p][k] = object[p][k]
      /\ \A q \in Parsers \ {p} : object'[q] = object[q]
  BY <1>1, Added, NewFieldTyped
<1>4. \A q \in Parsers : \A k \in 1..Len(object'[q]) :
        object'[q][k].is_open => object'[q][k].file /\ object'[q][k].TempFile # 0
  <2>1. \A q \in Parsers : \A k \in 1..Len(object[q]) :
          object[q][k].is_open => object[q][k].file /\ object[q][k].TempFile # 0
    BY DEF TypeOK
  <2>2. \A k \in 1..Len(object'[p]) : k \in 1..Len(object[p]) \/ k = Len(object[p]) + 1
    BY <1>3
  <2>3. ~object'[p][Len(object[p]) + 1].is_open
    BY <1>3, NewFieldTyped
  <2> QED
    BY SMTT(60), <1>3, <2>1, <2>2, <2>3
<1>5. ProcessingFieldName' = [q \in Parsers |-> Len(object'[q])]
  BY <1>1, <1>3 DEF TypeOK
<1>6. Fields' \in [Parsers -> [Names -> Nat]] /\ \A q \in Parsers : \A n \in Names : Fields'[q][n] \in 0..Len(object'[q])
  <2>1. HeaderOf[h].name \in Names /\ Len(object'[p]) \in Nat
    BY <1>3 DEF Names
  <2>2. /\ Fields \in [Parsers -> [Names -> Nat]]
        /\ \A q \in Parsers : \A n \in Names : Fields[q][n] \in 0..Len(object[q])
    BY DEF TypeOK
  <2> QED
    BY <1>1, <1>3, <2>1, <2>2
<1>7. /\ DataCollector' \in [Parsers -> Seq(Bytes)] /\ CurrentStatus' \in [Parsers -> Statuses]
      /\ pc' \in [Parsers -> PCs] /\ refused' \in [Parsers -> Causes]
      /\ \A q \in Parsers : pc'[q] \in {"choose", "open"} <=> fileCreation_mutex' = q
      /\ \A q \in Parsers : refused'[q] = "no" => Len(DataCollector'[q]) <= MaxDataCollectorLength
  <2>1. CASE /\ TruncateDataCollectorFromTheBeginning(p, HeadersEnd(p) + 3)
             /\ CurrentStatus' = [CurrentStatus EXCEPT ![p] = "ProcessingContentOfTheField"]
             /\ UNCHANGED <<pc, refused>>
    <3>1. HeadersEnd(p) + 3 \in Nat
      BY PositionsTyped
    <3>2. /\ DataCollector' \in [Parsers -> Seq(Bytes)]
          /\ \A q \in Parsers : Len(DataCollector'[q]) <= Len(DataCollector[q])
      BY <2>1, <3>1, TruncateTyped
    <3>3. /\ DataCollector \in [Parsers -> Seq(Bytes)]
          /\ \A q \in Parsers : refused[q] = "no" => Len(DataCollector[q]) <= MaxDataCollectorLength
      BY DEF TypeOK
    <3>4. \A q \in Parsers : DataCollector[q] \in Seq(Bytes) /\ DataCollector'[q] \in Seq(Bytes)
      BY <3>2, <3>3
    <3>5. \A q \in Parsers : Len(DataCollector'[q]) \in Nat /\ Len(DataCollector[q]) \in Nat
      BY <3>4
    <3>6. \A q \in Parsers : refused'[q] = "no" => Len(DataCollector'[q]) <= MaxDataCollectorLength
      BY <2>1, <3>2, <3>3, <3>5, MultipartAssumption
    <3> QED
      BY <1>2, <2>1, <3>2, <3>6 DEF TypeOK, Statuses
  <2>2. CASE Throw(p, "headers") /\ UNCHANGED <<CurrentStatus, DataCollector>>
    <3>1. /\ refused' \in [Parsers -> Causes] /\ pc' = [pc EXCEPT ![p] = "page"]
          /\ \A q \in Parsers : refused'[q] = "no" => refused[q] = "no"
      BY <2>2, ThrowTyped DEF Causes, Goto
    <3> QED
      BY <1>2, <2>2, <3>1 DEF TypeOK, PCs
  <2> QED
    BY <1>1, <2>1, <2>2
<1> QED
  BY ZenonT(60), <1>2, <1>3, <1>4, <1>5, <1>6, <1>7 DEF TypeOK

LEMMA ChooseTypes ==
    ASSUME TypeOK, NEW p \in Parsers, LockFileCreation(p) \/ TestName(p)
    PROVE  TypeOK'
<1>1. /\ form' = form /\ net' = net /\ CurrentStatus' = CurrentStatus /\ DataCollector' = DataCollector
      /\ ProcessingFieldName' = ProcessingFieldName /\ Fields' = Fields /\ object' = object
      /\ files' = files /\ refused' = refused
  BY DEF LockFileCreation, TestName, parseVars, fieldVars
<1>2. i' \in [Parsers -> Temps]
  <2>1. i \in [Parsers -> Temps] /\ 1 \in Nat /\ TempMax \in Nat
    BY MultipartAssumption DEF TypeOK
  <2>2. CASE LockFileCreation(p)
    <3>1. 1 \in Temps
      BY <2>1 DEF Temps
    <3> QED
      BY <2>1, <2>2, <3>1 DEF LockFileCreation
  <2>3. CASE TestName(p)
    BY <2>1, <2>3 DEF TestName, Temps
  <2> QED
    BY <2>2, <2>3
<1>3. /\ pc' \in [Parsers -> PCs] /\ fileCreation_mutex' \in Parsers \cup {NoParser}
      /\ \A q \in Parsers : pc'[q] \in {"choose", "open"} <=> fileCreation_mutex' = q
  <2>1. CASE LockFileCreation(p)
    BY SMTT(60), <2>1, MultipartAssumption DEF LockFileCreation, TypeOK, Goto, PCs
  <2>2. CASE TestName(p)
    BY ZenonT(60), <2>2 DEF TestName, TypeOK, Goto, At, PCs
  <2> QED
    BY <2>1, <2>2
<1>4. \A q \in Parsers : refused'[q] = "no" => Len(DataCollector'[q]) <= MaxDataCollectorLength
  BY <1>1 DEF TypeOK
<1> QED
  BY <1>1, <1>2, <1>3, <1>4 DEF TypeOK

\* What OpenFile() makes of the current field, and ~Field() of a field.
Named(f, t, open) == [f EXCEPT !.TempFile = t, !.is_open = open]

LEMMA NamedTyped ==
    ASSUME NEW f \in Field, NEW t \in Temps \cup {0}, NEW open \in BOOLEAN
    PROVE  /\ Named(f, t, open) \in Field
           /\ Named(f, t, open).name = f.name /\ Named(f, t, open).file = f.file
           /\ Named(f, t, open).TempFile = t /\ Named(f, t, open).is_open = open
BY DEF Named, Field

LEMMA Opening ==
    ASSUME TypeOK, PhaseInv, NEW p \in Parsers, OpenFile(p)
    PROVE  LET n == Len(object[p]) IN
           /\ n \in 1..Len(object[p]) /\ object[p][n] \in Field
           /\ object[p][n].file /\ ~object[p][n].is_open /\ i[p] \in Temps
           /\ pc[p] = "open" /\ fileCreation_mutex = p
           /\ \E open \in BOOLEAN :
                /\ PutField(p, n, Named(object[p][n], i[p], open))
                /\ IF open THEN /\ files' = [files EXCEPT ![i[p]] = <<>>]
                                /\ Goto(p, "process") /\ UNCHANGED refused
                           ELSE Throw(p, "open") /\ UNCHANGED files
<1> DEFINE n == Len(object[p])
<1>1. pc[p] = "open" /\ fileCreation_mutex = p /\ i[p] \in Temps
  BY DEF OpenFile, At, TypeOK
<1>2. /\ n \in 1..Len(object[p]) /\ ProcessingFieldName[p] = n /\ object[p] \in Seq(Field)
      /\ object[p][n] \in Field /\ Current(p) = object[p][n]
  BY <1>1, CurrentTyped
<1>3. object[p][n].file /\ ~object[p][n].is_open
  BY <1>1, <1>2 DEF PhaseInv
<1> DEFINE step(open) ==
                /\ PutField(p, n, Named(object[p][n], i[p], open))
                /\ IF open THEN /\ files' = [files EXCEPT ![i[p]] = <<>>]
                                /\ Goto(p, "process") /\ UNCHANGED refused
                           ELSE Throw(p, "open") /\ UNCHANGED files
<1>4. object[p][n].is_open = FALSE
  BY <1>2, <1>3 DEF Field
<1>5. step(TRUE) \/ step(FALSE)
  <2>1. CASE /\ files' = [files EXCEPT ![i[p]] = <<>>]
             /\ object' = [object EXCEPT ![p][ProcessingFieldName[p]].TempFile = i[p],
                                         ![p][ProcessingFieldName[p]].is_open = TRUE]
             /\ Goto(p, "process") /\ UNCHANGED refused
    <3>1. PutField(p, n, Named(object[p][n], i[p], TRUE))
      <4> DEFINE f == [object[p][n] EXCEPT !.TempFile = i[p]]
                 s == [object[p] EXCEPT ![n] = f]
                 o == [object EXCEPT ![p] = s]
                 g == [f EXCEPT !.is_open = TRUE]
      <4>1. object' = [o EXCEPT ![p] = [o[p] EXCEPT ![n] = [o[p][n] EXCEPT !.is_open = TRUE]]]
        BY <1>2, <2>1
      <4>2. g = Named(object[p][n], i[p], TRUE)
        BY <1>2 DEF Named, Field
      <4>3. object \in [Parsers -> Seq(Field)]
        BY DEF TypeOK
      <4>4. f \in Field
        BY <1>1, <1>2 DEF Field
      <4> HIDE DEF f
      <4>5. s \in Seq(Field) /\ s[n] = f
        BY <1>2, <4>4
      <4>6. [s EXCEPT ![n] = g] = [object[p] EXCEPT ![n] = g]
        <5> HIDE DEF g
        <5> QED
          BY <1>2
      <4> HIDE DEF s
      <4>7. o[p] = s /\ o[p][n] = f
        BY <4>3, <4>5
      <4>8. object' = [o EXCEPT ![p] = [s EXCEPT ![n] = g]]
        BY <4>1, <4>7
      <4> HIDE DEF g
      <4>9. [o EXCEPT ![p] = [s EXCEPT ![n] = g]] = [object EXCEPT ![p] = [s EXCEPT ![n] = g]]
        BY <4>3
      <4> QED
        BY <4>2, <4>6, <4>8, <4>9 DEF PutField
    <3> QED
      BY <2>1, <3>1
  <2>2. CASE /\ object' = [object EXCEPT ![p][ProcessingFieldName[p]].TempFile = i[p]]
             /\ Throw(p, "open") /\ UNCHANGED files
    <3>1. [object[p][n] EXCEPT !.TempFile = i[p]] = Named(object[p][n], i[p], FALSE)
      BY <1>1, <1>2, <1>4 DEF Named, Field
    <3>2. PutField(p, n, Named(object[p][n], i[p], FALSE))
      BY <1>2, <2>2, <3>1 DEF PutField
    <3> QED
      BY <2>2, <3>2
  <2> QED
    BY <2>1, <2>2 DEF OpenFile
<1> HIDE DEF step
<1>6. \E open \in BOOLEAN : step(open)
  BY <1>5
<1> QED
  BY <1>1, <1>2, <1>3, <1>6 DEF step

LEMMA Deleting ==
    ASSUME TypeOK, NEW p \in Parsers, NEW n \in Names, DeleteField(p, n)
    PROVE  LET k == Fields[p][n]
               f == object[p][k] IN
           /\ k \in 1..Len(object[p]) /\ f \in Field /\ pc[p] = "delete"
           /\ PutField(p, k, Named(f, f.TempFile, FALSE))
           /\ Fields' = [Fields EXCEPT ![p] = [Fields[p] EXCEPT ![n] = 0]]
           /\ IF f.is_open THEN Goto(p, "remove") /\ i' = [i EXCEPT ![p] = f.TempFile]
                           ELSE UNCHANGED <<pc, i>>
           /\ UNCHANGED <<form, net, parseVars, files, fileCreation_mutex, refused>>
<1> DEFINE k == Fields[p][n]
           f == object[p][k]
<1>1. Fields[p][n] \in 0..Len(object[p]) /\ Fields[p][n] # 0 /\ object[p] \in Seq(Field) /\ pc[p] = "delete"
  BY DEF TypeOK, DeleteField, At
<1>2. k \in 1..Len(object[p]) /\ f \in Field
  BY <1>1
<1>3. [f EXCEPT !.is_open = FALSE] = Named(f, f.TempFile, FALSE)
  BY <1>2 DEF Named, Field
<1>4. PutField(p, k, [f EXCEPT !.is_open = FALSE])
  BY DEF DeleteField, PutField
<1>5. Fields' = [Fields EXCEPT ![p] = [Fields[p] EXCEPT ![n] = 0]]
  BY DEF DeleteField
<1>6. IF f.is_open THEN Goto(p, "remove") /\ i' = [i EXCEPT ![p] = f.TempFile]
                   ELSE UNCHANGED <<pc, i>>
  BY DEF DeleteField
<1>7. UNCHANGED <<form, net, parseVars, files, fileCreation_mutex, refused>>
  BY DEF DeleteField
<1> QED
  BY <1>1, <1>2, <1>3, <1>4, <1>5, <1>6, <1>7

\* A field may be open only if it is a file's and has a number.
Numbered(f) == f.is_open => f.file /\ f.TempFile # 0

LEMMA FilesNumbered ==
    ASSUME TypeOK, NEW p \in Parsers, NEW n \in 1..Len(object[p]), NEW f \in Field,
           Numbered(f),
           PutField(p, n, f)
    PROVE  \A q \in Parsers : \A k \in 1..Len(object'[q]) :
             object'[q][k].is_open => object'[q][k].file /\ object'[q][k].TempFile # 0
<1>1. \A q \in Parsers : \A k \in 1..Len(object[q]) :
        object[q][k].is_open => object[q][k].file /\ object[q][k].TempFile # 0
  BY DEF TypeOK
<1>2. /\ object' \in [Parsers -> Seq(Field)]
      /\ \A q \in Parsers : Len(object'[q]) = Len(object[q])
      /\ object'[p][n] = f
      /\ \A q \in Parsers : \A k \in 1..Len(object[q]) :
           q # p \/ k # n => object'[q][k] = object[q][k]
  BY Replaced
<1> SUFFICES ASSUME NEW q \in Parsers, NEW k \in 1..Len(object'[q]), object'[q][k].is_open
             PROVE  object'[q][k].file /\ object'[q][k].TempFile # 0
  OBVIOUS
<1>3. k \in 1..Len(object[q])
  BY <1>2
<1>4. CASE q = p /\ k = n
  <2>1. object'[q][k] = f
    BY <1>2, <1>4
  <2> QED
    BY <2>1 DEF Numbered
<1>5. CASE q # p \/ k # n
  <2>1. object'[q][k] = object[q][k]
    BY <1>2, <1>3, <1>5
  <2> QED
    BY <1>1, <1>3, <2>1
<1> QED
  BY <1>4, <1>5

LEMMA OpenTypes ==
    ASSUME TypeOK, PhaseInv, NEW p \in Parsers, OpenFile(p)
    PROVE  TypeOK'
<1> DEFINE n == Len(object[p])
<1>1. /\ n \in 1..Len(object[p]) /\ object[p][n] \in Field /\ object[p][n].file
      /\ i[p] \in Temps /\ pc[p] = "open" /\ fileCreation_mutex = p
  BY Opening
<1>2. PICK open \in BOOLEAN :
        /\ PutField(p, n, Named(object[p][n], i[p], open))
        /\ IF open THEN /\ files' = [files EXCEPT ![i[p]] = <<>>]
                        /\ Goto(p, "process") /\ UNCHANGED refused
                   ELSE Throw(p, "open") /\ UNCHANGED files
  BY Opening
<1>3. /\ form' = form /\ net' = net /\ CurrentStatus' = CurrentStatus /\ DataCollector' = DataCollector
      /\ ProcessingFieldName' = ProcessingFieldName /\ Fields' = Fields /\ i' = i
      /\ fileCreation_mutex' = NoParser
  BY DEF OpenFile, parseVars
<1> DEFINE f == Named(object[p][n], i[p], open)
<1>4. f \in Field /\ f.file /\ f.TempFile # 0
  <2>1. f \in Field /\ f.file = object[p][n].file /\ f.TempFile = i[p]
    BY ZenonT(60), <1>1, <1>2, NamedTyped
  <2> HIDE DEF f
  <2>2. f.file
    BY <1>1, <2>1
  <2> QED
    BY <1>1, <2>1, <2>2, MultipartAssumption DEF Temps
<1>5. PutField(p, n, f)
  BY <1>2
<1> HIDE DEF f, n
<1>6. /\ object' \in [Parsers -> Seq(Field)] /\ \A q \in Parsers : Len(object'[q]) = Len(object[q])
  BY <1>1, <1>4, <1>5, Replaced
<1>7. \A q \in Parsers : \A k \in 1..Len(object'[q]) :
        object'[q][k].is_open => object'[q][k].file /\ object'[q][k].TempFile # 0
  BY <1>1, <1>4, <1>5, FilesNumbered DEF Numbered
<1>8. files' \in [Temps -> Seq(Bytes) \cup {Absent}]
  <2>1. <<>> \in Seq(Bytes) /\ files \in [Temps -> Seq(Bytes) \cup {Absent}]
    BY DEF TypeOK
  <2>2. files' = [files EXCEPT ![i[p]] = <<>>] \/ files' = files
    BY <1>2
  <2> QED
    BY <2>1, <2>2
<1>9. /\ refused' \in [Parsers -> Causes] /\ \A q \in Parsers : refused'[q] = "no" => refused[q] = "no"
      /\ (pc' = [pc EXCEPT ![p] = "process"] \/ pc' = [pc EXCEPT ![p] = "page"])
  <2>1. CASE Throw(p, "open")
    BY <2>1, ThrowTyped DEF Causes, Goto
  <2> QED
    BY <1>2, <2>1 DEF TypeOK, Goto
<1>10. /\ pc' \in [Parsers -> PCs]
       /\ \A q \in Parsers : pc'[q] \in {"choose", "open"} <=> fileCreation_mutex' = q
  <2>1. /\ pc \in [Parsers -> PCs]
        /\ \A q \in Parsers : pc[q] \in {"choose", "open"} <=> q = p
    BY <1>1 DEF TypeOK
  <2>2. NoParser \notin Parsers
    BY MultipartAssumption
  <2>3. pc' \in [Parsers -> PCs] /\ \A q \in Parsers : pc'[q] \notin {"choose", "open"}
    BY <1>9, <2>1 DEF PCs
  <2> QED
    BY <1>3, <2>2, <2>3
<1>11. \A q \in Parsers : refused'[q] = "no" => Len(DataCollector'[q]) <= MaxDataCollectorLength
  BY <1>3, <1>9 DEF TypeOK
<1>12. /\ ProcessingFieldName' = [q \in Parsers |-> Len(object'[q])]
       /\ \A q \in Parsers : \A m \in Names : Fields'[q][m] \in 0..Len(object'[q])
  BY <1>3, <1>6 DEF TypeOK
<1> QED
  BY ZenonT(60), <1>3, <1>6, <1>7, <1>8, <1>9, <1>10, <1>11, <1>12 DEF TypeOK

LEMMA DeleteTypes ==
    ASSUME TypeOK, NEW p \in Parsers, NEW n \in Names, DeleteField(p, n)
    PROVE  TypeOK'
<1> DEFINE k == Fields[p][n]
           f == object[p][k]
           g == Named(f, f.TempFile, FALSE)
<1>1. /\ k \in 1..Len(object[p]) /\ f \in Field /\ pc[p] = "delete"
      /\ PutField(p, k, g)
      /\ Fields' = [Fields EXCEPT ![p] = [Fields[p] EXCEPT ![n] = 0]]
      /\ IF f.is_open THEN Goto(p, "remove") /\ i' = [i EXCEPT ![p] = f.TempFile]
                      ELSE UNCHANGED <<pc, i>>
      /\ UNCHANGED <<form, net, parseVars, files, fileCreation_mutex, refused>>
  BY Deleting
<1>2. g \in Field /\ g.is_open = FALSE
  BY <1>1, NamedTyped DEF Field
<1>3. f.TempFile \in Temps \cup {0} /\ (f.is_open => f.TempFile # 0)
  <2>1. f.TempFile \in Temps \cup {0}
    BY <1>1 DEF Field
  <2> QED
    BY SMTT(60), <1>1, <2>1 DEF TypeOK
<1> HIDE DEF f, g, k
<1>4. /\ object' \in [Parsers -> Seq(Field)] /\ \A q \in Parsers : Len(object'[q]) = Len(object[q])
  BY <1>1, <1>2, Replaced
<1>5. \A q \in Parsers : \A m \in 1..Len(object'[q]) :
        object'[q][m].is_open => object'[q][m].file /\ object'[q][m].TempFile # 0
  BY <1>1, <1>2, FilesNumbered DEF Numbered
<1>6. /\ form' = form /\ net' = net /\ CurrentStatus' = CurrentStatus /\ DataCollector' = DataCollector
      /\ ProcessingFieldName' = ProcessingFieldName /\ files' = files
      /\ fileCreation_mutex' = fileCreation_mutex /\ refused' = refused
  BY <1>1 DEF parseVars
<1>7. i' \in [Parsers -> Temps]
  BY <1>1, <1>3 DEF TypeOK
<1>8. /\ pc' \in [Parsers -> PCs]
      /\ \A q \in Parsers : pc'[q] \in {"choose", "open"} <=> fileCreation_mutex' = q
  BY ZenonT(60), <1>1, <1>6 DEF TypeOK, Goto, PCs
<1>9. /\ ProcessingFieldName' = [q \in Parsers |-> Len(object'[q])]
      /\ Fields' \in [Parsers -> [Names -> Nat]]
      /\ \A q \in Parsers : \A m \in Names : Fields'[q][m] \in 0..Len(object'[q])
  <2>1. /\ ProcessingFieldName = [q \in Parsers |-> Len(object[q])]
        /\ Fields \in [Parsers -> [Names -> Nat]] /\ object \in [Parsers -> Seq(Field)]
        /\ \A q \in Parsers : \A m \in Names : Fields[q][m] \in 0..Len(object[q])
    BY DEF TypeOK
  <2>2. \A q \in Parsers : object[q] \in Seq(Field)
    BY <2>1
  <2>3. \A q \in Parsers : Len(object[q]) \in Nat
    BY <2>2
  <2> QED
    BY <1>1, <1>4, <1>6, <2>1, <2>3
<1>10. \A q \in Parsers : refused'[q] = "no" => Len(DataCollector'[q]) <= MaxDataCollectorLength
  BY <1>6 DEF TypeOK
<1> QED
  BY <1>4, <1>5, <1>6, <1>7, <1>8, <1>9, <1>10 DEF TypeOK

LEMMA RemoveTypes ==
    ASSUME TypeOK, NEW p \in Parsers, RemoveFile(p)
    PROVE  TypeOK'
<1>1. /\ form' = form /\ net' = net /\ CurrentStatus' = CurrentStatus /\ DataCollector' = DataCollector
      /\ ProcessingFieldName' = ProcessingFieldName /\ Fields' = Fields /\ object' = object
      /\ i' = i /\ fileCreation_mutex' = fileCreation_mutex /\ refused' = refused
  BY DEF RemoveFile, parseVars, fieldVars
<1>2. files' \in [Temps -> Seq(Bytes) \cup {Absent}]
  BY DEF RemoveFile, TypeOK
<1>3. /\ pc' \in [Parsers -> PCs]
      /\ \A q \in Parsers : pc'[q] \in {"choose", "open"} <=> fileCreation_mutex' = q
  BY <1>1 DEF RemoveFile, TypeOK, Goto, At, PCs
<1>4. \A q \in Parsers : refused'[q] = "no" => Len(DataCollector'[q]) <= MaxDataCollectorLength
  BY <1>1 DEF TypeOK
<1> QED
  BY ZenonT(60), <1>1, <1>2, <1>3, <1>4 DEF TypeOK

LEMMA StepTypes ==
    ASSUME TypeOK, PhaseInv, NEW p \in Parsers, Step(p)
    PROVE  TypeOK'
BY QuietTypes, AcceptTypes, FindTypes, FillTypes, ParseTypes, ChooseTypes, OpenTypes,
   DeleteTypes, RemoveTypes DEF Step
(***************************************************************************)
(* Where a parser has a field                                              *)
(***************************************************************************)
\* A step of one parser leaves all that is another's.
Same(q) ==
    /\ pc'[q] = pc[q] /\ CurrentStatus'[q] = CurrentStatus[q] /\ Fields'[q] = Fields[q]
    /\ object'[q] = object[q] /\ ProcessingFieldName'[q] = ProcessingFieldName[q] /\ i'[q] = i[q]

LEMMA OthersSame ==
    ASSUME TypeOK, NEW p \in Parsers, Step(p), NEW q \in Parsers, q # p
    PROVE  Same(q)
<1> USE DEF Same, Goto, Throw, parseVars, fieldVars, fileVars
<1>1. CASE SetContentType(p) \/ EndOfBody(p) \/ WaitForHeadersEnd(p) \/ RejectHeaders(p)
           \/ PageDone(p) \/ ParserDeleted(p)
  BY <1>1 DEF TypeOK, SetContentType, EndOfBody, WaitForHeadersEnd, RejectHeaders, PageDone, ParserDeleted
<1>2. CASE AcceptSomeData(p)
  BY ZenonT(60), <1>2 DEF TypeOK, AcceptSomeData
<1>3. CASE FindStartingBoundary(p)
  BY <1>3 DEF TypeOK, FindStartingBoundary
<1>4. CASE NoContent(p) \/ WriteFile(p)
  BY <1>4 DEF TypeOK, NoContent, WriteFile, ContentProcessed
<1>5. CASE TextContent(p)
  BY <1>5 DEF TypeOK, TextContent, ContentProcessed
<1>6. CASE ParseHeaders(p)
  BY SMTT(60), <1>6 DEF TypeOK, ParseHeaders
<1>7. CASE LockFileCreation(p) \/ TestName(p)
  BY <1>7 DEF TypeOK, LockFileCreation, TestName
<1>8. CASE OpenFile(p)
  BY <1>8 DEF TypeOK, OpenFile
<1>9. CASE \E n \in Names : DeleteField(p, n)
  BY SMTT(60), <1>9 DEF TypeOK, DeleteField
<1>10. CASE RemoveFile(p)
  BY <1>10 DEF TypeOK, RemoveFile
<1> QED
  BY <1>1, <1>2, <1>3, <1>4, <1>5, <1>6, <1>7, <1>8, <1>9, <1>10 DEF Step

\* A step that does not end in the choice of a name.
LEMMA PhaseFrame ==
    ASSUME PhaseInv, NEW p \in Parsers, pc'[p] \notin {"new", "choose", "open"},
           CurrentStatus'[p] = "ProcessingContentOfTheField" =>
             CurrentStatus[p] = "ProcessingContentOfTheField" \/ Len(object'[p]) > 0,
           Len(object'[p]) = Len(object[p]) \/ Len(object'[p]) > 0,
           \A q \in Parsers \ {p} : Same(q)
    PROVE  PhaseInv'
<1> SUFFICES ASSUME NEW q \in Parsers
             PROVE  /\ pc'[q] = "new" => object'[q] = <<>>
                    /\ CurrentStatus'[q] = "ProcessingContentOfTheField" => Len(object'[q]) > 0
                    /\ pc'[q] \in {"choose", "open"} =>
                         Len(object'[q]) > 0 /\ Current(q)'.file /\ ~Current(q)'.is_open
  BY DEF PhaseInv, At
<1>1. CASE q = p
  BY <1>1 DEF PhaseInv
<1>2. CASE q # p
  <2>1. Same(q)
    BY <1>2
  <2>2. Current(q)' = Current(q)
    BY <2>1 DEF Same, Current
  <2> QED
    BY <2>1, <2>2 DEF PhaseInv, Same, At
<1> QED
  BY <1>1, <1>2

LEMMA StepPhase ==
    ASSUME TypeOK, PhaseInv, NEW p \in Parsers, Step(p)
    PROVE  PhaseInv'
<1>1. \A q \in Parsers \ {p} : Same(q)
  BY OthersSame
<1> USE DEF parseVars, fieldVars, fileVars
<1>2. ASSUME pc'[p] \notin {"new", "choose", "open"}, object' = object,
             CurrentStatus'[p] = "ProcessingContentOfTheField" =>
               CurrentStatus[p] = "ProcessingContentOfTheField"
      PROVE  PhaseInv'
  BY <1>1, <1>2, PhaseFrame
<1>3. CASE SetContentType(p) \/ EndOfBody(p) \/ WaitForHeadersEnd(p) \/ RejectHeaders(p)
           \/ PageDone(p) \/ ParserDeleted(p)
  <2>1. object' = object /\ CurrentStatus' = CurrentStatus
    BY <1>3 DEF SetContentType, EndOfBody, WaitForHeadersEnd, RejectHeaders, PageDone, ParserDeleted
  <2>2. pc'[p] \in {"gone", "await", "page", "delete"}
    BY <1>3 DEF TypeOK, Goto, Throw, SetContentType, EndOfBody, WaitForHeadersEnd, RejectHeaders, PageDone, ParserDeleted
  <2> QED
    BY <1>2, <2>1, <2>2
<1>4. CASE AcceptSomeData(p)
  <2>1. object' = object /\ CurrentStatus' = CurrentStatus
    BY <1>4 DEF AcceptSomeData
  <2>2. pc'[p] \in {"page", "process"}
    BY SMTT(60), <1>4 DEF TypeOK, Goto, Throw, AcceptSomeData
  <2> QED
    BY <1>2, <2>1, <2>2
<1>5. CASE FindStartingBoundary(p)
  <2>1. object' = object /\ (CurrentStatus' = CurrentStatus \/ CurrentStatus'[p] = "ProcessingHeaders")
    BY <1>5 DEF FindStartingBoundary, TypeOK
  <2>2. pc'[p] \in {"await", "process"}
    BY <1>5 DEF TypeOK, Goto, FindStartingBoundary, Processing, At
  <2> QED
    BY <1>2, <2>1, <2>2
<1>6. CASE NoContent(p) \/ TextContent(p) \/ WriteFile(p)
  <2>1. /\ pc[p] = "process" /\ CurrentStatus[p] = "ProcessingContentOfTheField" /\ ContentProcessed(p)
    BY <1>6 DEF NoContent, TextContent, WriteFile, HasContent, Processing, At
  <2>2. pc'[p] \in {"await", "process"}
    BY <2>1, ContentProcessedTyped DEF TypeOK, Goto
  <2>3. Len(object'[p]) = Len(object[p])
    BY <1>6, FilledKept DEF FieldsKept
  <2> QED
    BY <1>1, <2>1, <2>2, <2>3, PhaseFrame
<1>7. CASE ParseHeaders(p)
  <2>1. PICK h \in Headers :
             /\ object' = [object EXCEPT ![p] = Append(object[p], NewField(h))]
             /\ UNCHANGED <<pc, refused>> \/ Throw(p, "headers")
    BY <1>7, Parsed
  <2>2. Len(object[p]) \in Nat /\ Len(object'[p]) = Len(object[p]) + 1
    BY <2>1, Added, NewFieldTyped
  <2>3. pc'[p] \in {"process", "page"}
    BY <1>7, <2>1 DEF TypeOK, Throw, Goto, ParseHeaders, Processing, At
  <2> QED
    BY <1>1, <2>2, <2>3, PhaseFrame
<1>8. CASE LockFileCreation(p) \/ TestName(p)
  <2>1. /\ object' = object /\ CurrentStatus' = CurrentStatus /\ ProcessingFieldName' = ProcessingFieldName
        /\ pc'[p] \in {"choose", "open"}
    BY <1>8 DEF LockFileCreation, TestName, Goto, At, TypeOK
  <2>2. Current(p)' = Current(p)
    BY <2>1 DEF Current
  <2>3. Len(object[p]) > 0 /\ Current(p).file /\ ~Current(p).is_open
    <3>1. CASE LockFileCreation(p)
      <4>1. /\ CurrentStatus[p] = "ProcessingContentOfTheField"
            /\ Current(p).file = TRUE /\ ~Current(p).is_open
        BY <3>1 DEF LockFileCreation, HasContent, Processing
      <4> QED
        BY <4>1 DEF PhaseInv
    <3>2. CASE TestName(p)
      BY <3>2 DEF TestName, At, PhaseInv
    <3> QED
      BY <1>8, <3>1, <3>2
  <2> SUFFICES ASSUME NEW q \in Parsers
               PROVE  /\ pc'[q] = "new" => object'[q] = <<>>
                      /\ CurrentStatus'[q] = "ProcessingContentOfTheField" => Len(object'[q]) > 0
                      /\ pc'[q] \in {"choose", "open"} =>
                           Len(object'[q]) > 0 /\ Current(q)'.file /\ ~Current(q)'.is_open
    BY DEF PhaseInv, At
  <2>4. CASE q = p
    BY <2>1, <2>2, <2>3, <2>4 DEF PhaseInv
  <2>5. CASE q # p
    <3>1. Same(q)
      BY <1>1, <2>5
    <3>2. Current(q)' = Current(q)
      BY <3>1 DEF Same, Current
    <3> QED
      BY <3>1, <3>2 DEF PhaseInv, Same, At
  <2> QED
    BY <2>4, <2>5
<1>9. CASE OpenFile(p)
  <2> DEFINE n == Len(object[p])
  <2>1. n \in 1..Len(object[p]) /\ object[p][n] \in Field /\ i[p] \in Temps
    BY <1>9, Opening
  <2>2. PICK open \in BOOLEAN :
          /\ PutField(p, n, Named(object[p][n], i[p], open))
          /\ Goto(p, "process") \/ Throw(p, "open")
    BY <1>9, Opening
  <2>3. Named(object[p][n], i[p], open) \in Field
    BY <2>1, <2>2, NamedTyped
  <2>4. Len(object'[p]) = n
    BY <2>1, <2>2, <2>3, Replaced
  <2>5. pc'[p] \in {"process", "page"} /\ CurrentStatus' = CurrentStatus
    BY <1>9, <2>2 DEF TypeOK, Goto, Throw, OpenFile
  <2> QED
    BY <1>1, <2>4, <2>5, PhaseFrame
<1>10. CASE \E n \in Names : DeleteField(p, n)
  <2>1. PICK n \in Names : DeleteField(p, n)
    BY <1>10
  <2> DEFINE k == Fields[p][n]
             f == object[p][k]
  <2>2. /\ k \in 1..Len(object[p]) /\ f \in Field /\ pc[p] = "delete"
        /\ PutField(p, k, Named(f, f.TempFile, FALSE))
        /\ pc' = pc \/ Goto(p, "remove")
        /\ CurrentStatus' = CurrentStatus
    BY <2>1, Deleting
  <2>3. Named(f, f.TempFile, FALSE) \in Field
    BY <2>2, NamedTyped DEF Field
  <2>4. Len(object'[p]) = Len(object[p])
    BY <2>2, <2>3, Replaced
  <2>5. pc'[p] \in {"delete", "remove"}
    BY <2>2 DEF TypeOK, Goto
  <2> QED
    BY <1>1, <2>2, <2>4, <2>5, PhaseFrame
<1>11. CASE RemoveFile(p)
  <2>1. object' = object /\ CurrentStatus' = CurrentStatus /\ pc'[p] = "delete"
    BY <1>11 DEF RemoveFile, Goto, TypeOK
  <2> QED
    BY <1>2, <2>1
<1> QED
  BY <1>3, <1>4, <1>5, <1>6, <1>7, <1>8, <1>9, <1>10, <1>11 DEF Step
(***************************************************************************)
(* The files                                                               *)
(***************************************************************************)
\* Field k of q answers for the file t.
Accounted(t, q, k) ==
    /\ object[q][k].TempFile = t
    /\ object[q][k].is_open \/ (pc[q] = "remove" /\ i[q] = t)
    /\ pc[q] = "gone" => \E l \in (k + 1)..Len(object[q]) : object[q][l].name = object[q][k].name

LEMMA RemovedMeans ==
    FilesRemoved <=>
      \A t \in Temps : files[t] \in {Absent, <<"stale">>}
                       \/ \E q \in Parsers : \E k \in 1..Len(object[q]) : Accounted(t, q, k)
BY DEF FilesRemoved, Accounted, At

\* The same of the next state.
LEMMA RemovedNext ==
    ASSUME \A t \in Temps : files'[t] \in {Absent, <<"stale">>}
                            \/ \E q \in Parsers : \E k \in 1..Len(object'[q]) : Accounted(t, q, k)'
    PROVE  FilesRemoved'
BY DEF FilesRemoved, Accounted, At

LEMMA SameAccounts ==
    ASSUME NEW t \in Temps, NEW q \in Parsers, Same(q), NEW k \in 1..Len(object[q]), Accounted(t, q, k)
    PROVE  k \in 1..Len(object'[q]) /\ Accounted(t, q, k)'
BY DEF Same, Accounted

\* A step of p that opens and removes nothing, and writes to its files only.
LEMMA FileFrame ==
    ASSUME TypeOK, FileInv, NEW p \in Parsers,
           \A q \in Parsers \ {p} : Same(q),
           pc[p] # "remove", pc'[p] \notin {"open", "remove", "gone"}, ~Ending(p) \/ Ending(p)',
           FieldsKept(p), Fields'[p] = Fields[p],
           \A t \in Temps : \/ files'[t] = files[t]
                            \/ /\ files[t] # Absent /\ files'[t] # Absent
                               /\ \E k \in 1..Len(object[p]) : Opened(p, k) /\ object[p][k].TempFile = t
    PROVE  FileInv'
<1>1. \A q \in Parsers : /\ Len(object'[q]) = Len(object[q]) /\ Fields'[q] = Fields[q]
                         /\ \A k \in 1..Len(object[q]) :
                              /\ object'[q][k].name = object[q][k].name
                              /\ object'[q][k].TempFile = object[q][k].TempFile
                              /\ object'[q][k].is_open = object[q][k].is_open
  BY DEF Same, FieldsKept, FieldKept
<1>2. \A q \in Parsers : \A k : Opened(q, k)' => Opened(q, k)
  BY <1>1 DEF Opened
<1>3. \A q \in Parsers : \A k : Opened(q, k) => k \in 1..Len(object[q]) /\ object[q][k].TempFile \in Temps
  <2> SUFFICES ASSUME NEW q \in Parsers, NEW k, Opened(q, k)
               PROVE  k \in 1..Len(object[q]) /\ object[q][k].TempFile \in Temps
    OBVIOUS
  <2>1. k \in 1..Len(object[q]) /\ object[q][k].is_open
    BY DEF Opened
  <2>2. object[q] \in Seq(Field) /\ object[q][k].TempFile # 0
    BY SMTT(60), <2>1 DEF TypeOK
  <2>3. object[q][k] \in Field
    BY <2>1, <2>2
  <2> QED
    BY <2>1, <2>2, <2>3 DEF Field
<1>4. \A t \in Temps : files[t] # Absent => files'[t] # Absent
  OBVIOUS
<1>5. OpenInv'
  BY <1>1, <1>2, <1>3, <1>4 DEF OpenInv, FileInv
<1>6. \A q \in Parsers : pc'[q] = "open" =>
        q # p /\ pc[q] = "open" /\ i'[q] = i[q] /\ i[q] \in Temps /\ files[i[q]] = Absent
  BY SMTT(60) DEF Same, FileInv, NameInv, At, TypeOK
<1>7. NameInv'
  BY <1>6 DEF NameInv, At
<1>8. \A q \in Parsers : pc'[q] = "remove" => pc[q] = "remove" /\ i'[q] = i[q] /\ i[q] \in Temps
  BY ZenonT(60) DEF Same, TypeOK
<1>9. RemoveInv'
  <2> SUFFICES ASSUME NEW q \in Parsers, pc'[q] = "remove"
               PROVE  /\ files'[i'[q]] # Absent
                      /\ \A r \in Parsers : \A k \in 1..Len(object'[r]) :
                           Opened(r, k)' => object'[r][k].TempFile # i'[q]
                      /\ \A r \in Parsers : pc'[r] = "remove" /\ i'[r] = i'[q] => r = q
    BY DEF RemoveInv, At
  <2>1. /\ files[i[q]] # Absent
        /\ \A r \in Parsers : \A k \in 1..Len(object[r]) : Opened(r, k) => object[r][k].TempFile # i[q]
        /\ \A r \in Parsers : pc[r] = "remove" /\ i[r] = i[q] => r = q
    BY <1>8 DEF FileInv, RemoveInv, At
  <2> QED
    BY <1>1, <1>2, <1>4, <1>8, <2>1
<1>10. MapInv'
  <2> SUFFICES ASSUME NEW q \in Parsers, NEW k \in 1..Len(object'[q]), Opened(q, k)' \/ ~Ending(q)'
               PROVE  \/ Fields'[q][object'[q][k].name] = k
                      \/ \E l \in (k + 1)..Len(object'[q]) : object'[q][l].name = object'[q][k].name
    BY DEF MapInv
  <2>1. k \in 1..Len(object[q]) /\ (Opened(q, k) \/ ~Ending(q))
    <3>1. Ending(q) => Ending(q)'
      BY DEF Same, Ending
    <3> QED
      BY <1>1, <1>2, <3>1
  <2>2. CASE Fields[q][object[q][k].name] = k
    BY <1>1, <2>1, <2>2
  <2>3. CASE \E l \in (k + 1)..Len(object[q]) : object[q][l].name = object[q][k].name
    <3>1. PICK l \in (k + 1)..Len(object[q]) : object[q][l].name = object[q][k].name
      BY <2>3
    <3>2. l \in 1..Len(object[q])
      BY <2>1
    <3> QED
      BY <1>1, <2>1, <3>1, <3>2
  <2> QED
    BY <2>1, <2>2, <2>3 DEF FileInv, MapInv
<1>11. TempFilesDistinct'
  <2> SUFFICES ASSUME NEW q \in Parsers, NEW r \in Parsers,
                      NEW j \in 1..Len(object'[q]), NEW k \in 1..Len(object'[r]),
                      Opened(q, j)', Opened(r, k)', <<q, j>> # <<r, k>>
               PROVE  object'[q][j].TempFile # object'[r][k].TempFile
    BY DEF TempFilesDistinct, Opened
  <2>1. /\ j \in 1..Len(object[q]) /\ k \in 1..Len(object[r])
        /\ object[q][j].is_open /\ object[r][k].is_open
    BY SMTT(60), <1>2 DEF Opened
  <2>2. object[q][j].TempFile # object[r][k].TempFile
    BY <2>1 DEF FileInv, TempFilesDistinct
  <2> QED
    BY ZenonT(60), <1>1, <2>1, <2>2
<1>12. FilesRemoved'
  <2> SUFFICES ASSUME NEW t \in Temps
               PROVE  files'[t] \in {Absent, <<"stale">>}
                      \/ \E q \in Parsers : \E k \in 1..Len(object'[q]) : Accounted(t, q, k)'
    BY RemovedNext
  <2>1. ASSUME NEW k \in 1..Len(object[p]), Opened(p, k), object[p][k].TempFile = t
        PROVE  k \in 1..Len(object'[p]) /\ Accounted(t, p, k)'
    <3>1. object[p][k].is_open
      BY <2>1 DEF Opened
    <3>2. object'[p][k].is_open
      BY <1>1, <2>1, <3>1
    <3> QED
      BY <1>1, <2>1, <3>2 DEF Accounted
  <2>2. CASE files'[t] # files[t]
    BY <2>1, <2>2
  <2>3. CASE files'[t] = files[t] /\ files[t] \notin {Absent, <<"stale">>}
    <3>1. PICK q \in Parsers : \E k \in 1..Len(object[q]) : Accounted(t, q, k)
      BY <2>3, RemovedMeans DEF FileInv
    <3>2. PICK k \in 1..Len(object[q]) : Accounted(t, q, k)
      BY <3>1
    <3>3. CASE q = p
      BY <2>1, <3>2, <3>3 DEF Accounted, Opened
    <3>4. CASE q # p
      BY <3>2, <3>4, SameAccounts
    <3> QED
      BY <3>3, <3>4
  <2> QED
    BY <2>2, <2>3
<1> QED
  BY <1>5, <1>7, <1>9, <1>10, <1>11, <1>12 DEF FileInv
\* The last step of a parser, with its open fields forgotten by the map.
LEMMA GoneFiles ==
    ASSUME TypeOK, FileInv, NEW p \in Parsers, pc[p] # "remove", Goto(p, "gone"),
           UNCHANGED <<object, Fields, files, i>>,
           \A k \in 1..Len(object[p]) : Opened(p, k) =>
             \E l \in (k + 1)..Len(object[p]) : object[p][l].name = object[p][k].name
    PROVE  FileInv'
<1>1. \A q \in Parsers : pc'[q] = IF q = p THEN "gone" ELSE pc[q]
  BY DEF TypeOK, Goto
<1>2. object' = object /\ Fields' = Fields /\ files' = files /\ i' = i
  OBVIOUS
<1>3. OpenInv' /\ MapInv' /\ TempFilesDistinct'
  <2>1. OpenInv' /\ TempFilesDistinct'
    BY <1>2 DEF FileInv, OpenInv, TempFilesDistinct, Opened
  <2>2. MapInv'
    BY SMTT(60), <1>1, <1>2 DEF FileInv, MapInv, Opened, Ending
  <2> QED
    BY <2>1, <2>2
<1>4. NameInv' /\ RemoveInv'
  BY <1>1, <1>2 DEF FileInv, NameInv, RemoveInv, Opened, At
<1>5. FilesRemoved'
  <2> SUFFICES ASSUME NEW t \in Temps, files[t] \notin {Absent, <<"stale">>}
               PROVE  \E q \in Parsers : \E k \in 1..Len(object'[q]) : Accounted(t, q, k)'
    BY <1>2, RemovedNext
  <2>1. PICK q \in Parsers : \E k \in 1..Len(object[q]) : Accounted(t, q, k)
    BY RemovedMeans DEF FileInv
  <2>2. PICK k \in 1..Len(object[q]) : Accounted(t, q, k)
    BY <2>1
  <2>3. CASE q = p
    <3>1. Opened(p, k)
      BY <2>2, <2>3 DEF Accounted, Opened
    <3> QED
      BY <1>2, <2>2, <2>3, <3>1 DEF Accounted, Opened
  <2>4. CASE q # p
    BY <1>1, <1>2, <2>2, <2>4 DEF Accounted
  <2> QED
    BY <2>3, <2>4
<1> QED
  BY <1>3, <1>4, <1>5 DEF FileInv

\* Steps that leave every field as it is.
LEMMA QuietFiles ==
    ASSUME IInv, NEW p \in Parsers,
           \/ SetContentType(p) \/ EndOfBody(p) \/ WaitForHeadersEnd(p) \/ RejectHeaders(p)
           \/ PageDone(p) \/ ParserDeleted(p) \/ AcceptSomeData(p) \/ FindStartingBoundary(p)
           \/ LockFileCreation(p)
    PROVE  FileInv'
<1> USE DEF parseVars, fieldVars, fileVars
<1>1. TypeOK /\ PhaseInv /\ FileInv /\ \A q \in Parsers \ {p} : Same(q)
  BY OthersSame DEF IInv, Step
<1>2. object' = object /\ Fields' = Fields /\ files' = files
  BY DEF SetContentType, EndOfBody, WaitForHeadersEnd, RejectHeaders, PageDone, ParserDeleted,
         AcceptSomeData, FindStartingBoundary, LockFileCreation
<1>3. FieldsKept(p)
  BY <1>2 DEF FieldsKept, FieldKept
<1>4. pc[p] \in {"new", "await", "process", "page"} \/ (pc[p] = "delete" /\ ParserDeleted(p))
  BY DEF SetContentType, EndOfBody, WaitForHeadersEnd, RejectHeaders, PageDone, ParserDeleted,
         AcceptSomeData, FindStartingBoundary, LockFileCreation, HasContent, Processing, At
<1>5. CASE pc'[p] \notin {"open", "remove", "gone"} /\ ~ParserDeleted(p)
  <2>1. ~Ending(p) /\ pc[p] # "remove"
    BY <1>4, <1>5 DEF Ending
  <2> QED
    BY <1>1, <1>2, <1>3, <1>5, <2>1, FileFrame
<1>6. CASE pc'[p] = "gone" /\ SetContentType(p)
  <2>1. object[p] = <<>> /\ Goto(p, "gone") /\ i' = i
    BY <1>1, <1>6 DEF SetContentType, PhaseInv, Goto, At, TypeOK
  <2>2. \A k \in 1..Len(object[p]) : FALSE
    BY <2>1
  <2> QED
    BY <1>1, <1>2, <1>4, <2>1, <2>2, GoneFiles
<1>7. CASE pc'[p] = "gone" /\ ParserDeleted(p)
  <2>1. Goto(p, "gone") /\ i' = i /\ \A n \in Names : Fields[p][n] = 0
    BY <1>7 DEF ParserDeleted
  <2>2. ASSUME NEW k \in 1..Len(object[p]), Opened(p, k)
        PROVE  \E l \in (k + 1)..Len(object[p]) : object[p][l].name = object[p][k].name
    <3>1. object[p] \in Seq(Field)
      BY <1>1 DEF TypeOK
    <3>2. object[p][k] \in Field /\ k # 0
      BY <3>1
    <3>3. object[p][k].name \in Names
      BY <3>2 DEF Field
    <3> QED
      BY <1>1, <2>1, <2>2, <3>2, <3>3 DEF FileInv, MapInv
  <2> QED
    BY <1>1, <1>2, <1>4, <2>1, <2>2, GoneFiles
<1>8. SetContentType(p) \/ ParserDeleted(p) \/ pc'[p] \in {"await", "page", "delete", "process", "choose"}
  BY ZenonT(60), <1>1, <1>4 DEF TypeOK, Goto, Throw, EndOfBody, WaitForHeadersEnd, RejectHeaders, PageDone,
         AcceptSomeData, FindStartingBoundary, LockFileCreation, Processing, At
<1>9. /\ SetContentType(p) => pc'[p] \in {"await", "gone"}
      /\ ParserDeleted(p) => pc'[p] = "gone"
  BY <1>1 DEF TypeOK, Goto, SetContentType, ParserDeleted
<1> QED
  BY <1>5, <1>6, <1>7, <1>8, <1>9

\* The bytes of a field go to memory, or to its file.
LEMMA FillFiles ==
    ASSUME IInv, NEW p \in Parsers, NoContent(p) \/ TextContent(p) \/ WriteFile(p)
    PROVE  FileInv'
<1> USE DEF parseVars, fieldVars, fileVars
<1>1. TypeOK /\ PhaseInv /\ FileInv /\ \A q \in Parsers \ {p} : Same(q)
  BY OthersSame DEF IInv, Step
<1>2. /\ pc[p] = "process" /\ CurrentStatus[p] = "ProcessingContentOfTheField"
      /\ ContentProcessed(p)
  BY DEF NoContent, TextContent, WriteFile, HasContent, Processing, At
<1>3. Fields' = Fields /\ pc'[p] \in {"process", "await"}
  BY <1>1, <1>2, ContentProcessedTyped DEF TypeOK, Goto
<1>4. CASE NoContent(p) \/ TextContent(p)
  <2>1. files' = files
    BY <1>4 DEF NoContent, TextContent
  <2>2. FieldsKept(p)
    BY <1>1, <1>4, FilledKept
  <2> QED
    BY <1>1, <1>2, <1>3, <2>1, <2>2, FileFrame DEF Ending
<1>5. CASE WriteFile(p)
  <2> DEFINE n == Len(object[p])
             t == object[p][n].TempFile
  <2>1. n \in 1..Len(object[p]) /\ Current(p) = object[p][n]
    BY <1>1, <1>2, CurrentTyped
  <2>2. Current(p).is_open /\ files' = [files EXCEPT ![t] = IF @ = Absent THEN Absent ELSE @ \o Data(p)]
    BY <1>5, <2>1 DEF WriteFile
  <2>3. Opened(p, n) /\ files[t] # Absent
    BY SMTT(60), <1>1, <2>1, <2>2 DEF Opened, FileInv, OpenInv
  <2>4. t \in Temps /\ files'[t] = files[t] \o Data(p) /\ \A u \in Temps : u # t => files'[u] = files[u]
    <3>1. object[p] \in Seq(Field) /\ t # 0
      BY <1>1, <2>1, <2>3 DEF TypeOK, Opened
    <3>2. object[p][n] \in Field
      BY <2>1, <3>1
    <3>3. t \in Temps
      BY <3>1, <3>2 DEF Field
    <3> QED
      BY <1>1, <2>2, <2>3, <3>3 DEF TypeOK
  <2>5. files[t] \o Data(p) # Absent
    <3>1. files[t] \in Seq(Bytes) /\ Data(p) \in Seq(Bytes)
      BY SMTT(60), <1>1, <2>3, <2>4, DataTyped DEF TypeOK
    <3>2. files[t] \o Data(p) \in Seq(Bytes)
      BY <3>1
    <3> QED
      BY <3>2, MultipartAssumption
  <2>6. FieldsKept(p)
    BY <1>5 DEF WriteFile, FieldsKept, FieldKept
  <2>7. \A u \in Temps : \/ files'[u] = files[u]
                         \/ /\ files[u] # Absent /\ files'[u] # Absent
                            /\ \E k \in 1..Len(object[p]) : Opened(p, k) /\ object[p][k].TempFile = u
    BY <2>1, <2>3, <2>4, <2>5
  <2> QED
    BY <1>1, <1>2, <1>3, <2>6, <2>7, FileFrame DEF Ending
<1> QED
  BY <1>4, <1>5
LEMMA ParseFiles ==
    ASSUME IInv, NEW p \in Parsers, ParseHeaders(p)
    PROVE  FileInv'
<1> USE DEF fileVars
<1>1. TypeOK /\ FileInv /\ \A q \in Parsers \ {p} : Same(q)
  BY OthersSame DEF IInv, Step
<1> DEFINE L == Len(object[p])
<1>2. PICK h \in Headers :
        /\ object' = [object EXCEPT ![p] = Append(object[p], NewField(h))]
        /\ Fields' = [Fields EXCEPT ![p][HeaderOf[h].name] = Len(object'[p])]
        /\ UNCHANGED <<pc, refused>> \/ Throw(p, "headers")
  BY <1>1, Parsed
<1>3. /\ files' = files /\ i' = i /\ pc[p] = "process" /\ pc'[p] \in {"process", "page"}
  BY <1>1, <1>2 DEF ParseHeaders, Processing, At, Throw, Goto, TypeOK
<1>4. /\ L \in Nat /\ Len(object'[p]) = L + 1 /\ object'[p][L + 1] = NewField(h)
      /\ \A k \in 1..L : object'[p][k] = object[p][k]
      /\ \A q \in Parsers \ {p} : object'[q] = object[q]
  BY <1>1, <1>2, Added, NewFieldTyped
<1>5. ~object'[p][L + 1].is_open /\ object'[p][L + 1].name = HeaderOf[h].name
  BY <1>4, NewFieldTyped
<1>6. \A n \in Names : Fields'[p][n] = IF n = HeaderOf[h].name THEN L + 1 ELSE Fields[p][n]
  BY <1>1, <1>2, <1>4 DEF TypeOK
<1> HIDE DEF L
<1>7. \A k \in 1..Len(object'[p]) : k \in 1..L \/ k = L + 1
  BY <1>4
<1>8. \A q \in Parsers : \A k : Opened(q, k)' =>
        Opened(q, k) /\ k \in 1..Len(object[q]) /\ object'[q][k] = object[q][k]
  <2> SUFFICES ASSUME NEW q \in Parsers, NEW k, Opened(q, k)'
               PROVE  Opened(q, k) /\ k \in 1..Len(object[q]) /\ object'[q][k] = object[q][k]
    OBVIOUS
  <2>1. k \in 1..Len(object'[q]) /\ object'[q][k].is_open
    BY DEF Opened
  <2>2. CASE q = p
    <3>1. k \in 1..L
      BY <1>5, <1>7, <2>1, <2>2
    <3> QED
      BY <1>4, <2>1, <2>2, <3>1 DEF Opened, L
  <2>3. CASE q # p
    BY <1>4, <2>1, <2>3 DEF Opened
  <2> QED
    BY <2>2, <2>3
<1>9. OpenInv'
  BY <1>1, <1>3, <1>8 DEF FileInv, OpenInv
<1>10. NameInv'
  BY <1>1, <1>3 DEF FileInv, NameInv, Same, At
<1>11. \A q \in Parsers : pc'[q] = "remove" => pc[q] = "remove"
  BY <1>1, <1>3 DEF Same
<1>12. RemoveInv'
  BY <1>1, <1>3, <1>8, <1>11 DEF FileInv, RemoveInv, At
<1>13. TempFilesDistinct'
  <2> SUFFICES ASSUME NEW q \in Parsers, NEW r \in Parsers,
                      NEW j \in 1..Len(object'[q]), NEW k \in 1..Len(object'[r]),
                      Opened(q, j)', Opened(r, k)', <<q, j>> # <<r, k>>
               PROVE  object'[q][j].TempFile # object'[r][k].TempFile
    BY DEF TempFilesDistinct, Opened
  <2>1. /\ Opened(q, j) /\ Opened(r, k) /\ j \in 1..Len(object[q]) /\ k \in 1..Len(object[r])
        /\ object'[q][j] = object[q][j] /\ object'[r][k] = object[r][k]
    BY <1>8
  <2>2. object[q][j].TempFile # object[r][k].TempFile
    BY <1>1, <2>1 DEF FileInv, TempFilesDistinct, Opened
  <2> QED
    BY <2>1, <2>2
<1>14. MapInv'
  <2> SUFFICES ASSUME NEW q \in Parsers, NEW k \in 1..Len(object'[q]), Opened(q, k)' \/ ~Ending(q)'
               PROVE  \/ Fields'[q][object'[q][k].name] = k
                      \/ \E l \in (k + 1)..Len(object'[q]) : object'[q][l].name = object'[q][k].name
    BY DEF MapInv
  <2>1. CASE q # p
    <3>1. Same(q) /\ object'[q] = object[q]
      BY <1>1, <2>1 DEF Same
    <3>2. Opened(q, k) \/ ~Ending(q)
      BY <3>1 DEF Same, Opened, Ending
    <3> QED
      BY <1>1, <3>1, <3>2 DEF FileInv, MapInv, Same
  <2>2. CASE q = p /\ k = L + 1
    <3>1. object'[p][k].name \in Names /\ object'[p][k].name = HeaderOf[h].name
      BY <1>5, <2>2 DEF Names
    <3> QED
      BY <1>6, <2>2, <3>1
  <2>3. CASE q = p /\ k \in 1..L
    <3>1. object'[p][k] = object[p][k] /\ k \in 1..Len(object[p]) /\ ~Ending(p)
      BY <1>3, <1>4, <2>3 DEF L, Ending
    <3>2. object[p][k].name \in Names
      <4>1. object[p] \in Seq(Field)
        BY <1>1 DEF TypeOK
      <4>2. object[p][k] \in Field
        BY <3>1, <4>1
      <4> QED
        BY <4>2 DEF Field
    <3>3. CASE object[p][k].name = HeaderOf[h].name
      <4>1. L + 1 \in (k + 1)..Len(object'[p])
        BY <1>4, <2>3
      <4>2. object'[p][L + 1].name = object'[p][k].name
        BY <1>5, <3>1, <3>3
      <4> QED
        BY <2>3, <4>1, <4>2
    <3>4. CASE object[p][k].name # HeaderOf[h].name
      <4>1. Fields'[p][object'[p][k].name] = Fields[p][object[p][k].name]
        BY <1>6, <3>1, <3>2, <3>4
      <4>2. CASE \E l \in (k + 1)..Len(object[p]) : object[p][l].name = object[p][k].name
        <5>1. PICK l \in (k + 1)..Len(object[p]) : object[p][l].name = object[p][k].name
          BY <4>2
        <5>2. l \in 1..L /\ l \in (k + 1)..Len(object'[p])
          BY <1>4, <2>3, <5>1 DEF L
        <5>3. object'[p][l] = object[p][l]
          BY <1>4, <5>2
        <5> QED
          BY <2>3, <3>1, <5>1, <5>2, <5>3
      <4> QED
        BY <1>1, <2>3, <3>1, <4>1, <4>2 DEF FileInv, MapInv
    <3> QED
      BY <3>3, <3>4
  <2> QED
    BY <1>7, <2>1, <2>2, <2>3
<1>15. FilesRemoved'
  <2> SUFFICES ASSUME NEW t \in Temps, files[t] \notin {Absent, <<"stale">>}
               PROVE  \E q \in Parsers : \E k \in 1..Len(object'[q]) : Accounted(t, q, k)'
    BY <1>3, RemovedNext
  <2>1. PICK q \in Parsers : \E k \in 1..Len(object[q]) : Accounted(t, q, k)
    BY <1>1, RemovedMeans DEF FileInv
  <2>2. PICK k \in 1..Len(object[q]) : Accounted(t, q, k)
    BY <2>1
  <2>3. CASE q = p
    <3>1. k \in 1..Len(object'[p]) /\ object'[p][k] = object[p][k]
      BY <1>4, <2>2, <2>3 DEF L
    <3> QED
      BY <1>3, <2>2, <2>3, <3>1 DEF Accounted
  <2>4. CASE q # p
    BY <1>1, <2>2, <2>4, SameAccounts
  <2> QED
    BY <2>3, <2>4
<1> QED
  BY <1>9, <1>10, <1>12, <1>13, <1>14, <1>15 DEF FileInv

LEMMA TestFiles ==
    ASSUME IInv, NEW p \in Parsers, TestName(p)
    PROVE  FileInv'
<1> USE DEF parseVars, fieldVars
<1>1. TypeOK /\ FileInv /\ \A q \in Parsers \ {p} : Same(q)
  BY OthersSame DEF IInv, Step
<1>2. object' = object /\ Fields' = Fields /\ files' = files /\ pc[p] = "choose"
  BY DEF TestName, At
<1>3. CASE pc' = pc
  <2>1. FieldsKept(p)
    BY <1>2 DEF FieldsKept, FieldKept
  <2> QED
    BY <1>1, <1>2, <1>3, <2>1, FileFrame DEF Ending
<1>4. CASE i' = i /\ Goto(p, "open") /\ files[i[p]] = Absent
  <2>1. \A q \in Parsers : pc'[q] = IF q = p THEN "open" ELSE pc[q]
    BY <1>1, <1>4 DEF Goto, TypeOK
  <2>2. OpenInv' /\ TempFilesDistinct'
    BY <1>1, <1>2 DEF FileInv, OpenInv, TempFilesDistinct, Opened
  <2>3. NameInv' /\ RemoveInv'
    BY <1>1, <1>2, <1>4, <2>1 DEF FileInv, NameInv, RemoveInv, Opened, At
  <2>4. MapInv'
    BY SMTT(60), <1>1, <1>2, <2>1 DEF FileInv, MapInv, Opened, Ending
  <2>5. FilesRemoved'
    <3> SUFFICES ASSUME NEW t \in Temps, files[t] \notin {Absent, <<"stale">>}
                 PROVE  \E q \in Parsers : \E k \in 1..Len(object'[q]) : Accounted(t, q, k)'
      BY <1>2, RemovedNext
    <3>1. PICK q \in Parsers : \E k \in 1..Len(object[q]) : Accounted(t, q, k)
      BY <1>1, RemovedMeans DEF FileInv
    <3>2. PICK k \in 1..Len(object[q]) : Accounted(t, q, k)
      BY <3>1
    <3> QED
      BY <1>2, <1>4, <2>1, <3>2 DEF Accounted
  <2> QED
    BY <2>2, <2>3, <2>4, <2>5 DEF FileInv
<1> QED
  BY <1>3, <1>4 DEF TestName

LEMMA RemoveFiles ==
    ASSUME IInv, NEW p \in Parsers, RemoveFile(p)
    PROVE  FileInv'
<1> USE DEF parseVars, fieldVars
<1>1. TypeOK /\ FileInv
  BY DEF IInv
<1>2. /\ object' = object /\ Fields' = Fields /\ i' = i /\ pc[p] = "remove"
      /\ files' = [files EXCEPT ![i[p]] = Absent]
      /\ \A q \in Parsers : pc'[q] = IF q = p THEN "delete" ELSE pc[q]
  BY <1>1 DEF RemoveFile, At, Goto, TypeOK
<1>3. \A t \in Temps : files'[t] = IF t = i[p] THEN Absent ELSE files[t]
  BY <1>1, <1>2 DEF TypeOK
<1>4. /\ \A q \in Parsers : \A k \in 1..Len(object[q]) : Opened(q, k) => object[q][k].TempFile # i[p]
      /\ \A q \in Parsers : pc[q] = "remove" /\ i[q] = i[p] => q = p
  BY <1>1, <1>2 DEF FileInv, RemoveInv, At
<1>5. \A q \in Parsers : i[q] \in Temps
                         /\ \A k \in 1..Len(object[q]) : Opened(q, k) => object[q][k].TempFile \in Temps
  <2> SUFFICES ASSUME NEW q \in Parsers, NEW k \in 1..Len(object[q]), Opened(q, k)
               PROVE  object[q][k].TempFile \in Temps
    BY <1>1 DEF TypeOK
  <2>1. object[q] \in Seq(Field) /\ object[q][k].TempFile # 0
    BY <1>1 DEF TypeOK, Opened
  <2>2. object[q][k] \in Field
    BY <2>1
  <2> QED
    BY <2>1, <2>2 DEF Field
<1>6. OpenInv'
  BY <1>1, <1>2, <1>3, <1>4, <1>5 DEF FileInv, OpenInv, Opened
<1>7. NameInv'
  BY <1>1, <1>2, <1>3, <1>5 DEF FileInv, NameInv, At
<1>8. RemoveInv'
  BY <1>1, <1>2, <1>3, <1>4, <1>5 DEF FileInv, RemoveInv, Opened, At
<1>9. MapInv'
  BY <1>1, <1>2 DEF FileInv, MapInv, Opened, Ending
<1>10. TempFilesDistinct'
  BY <1>1, <1>2 DEF FileInv, TempFilesDistinct
<1>11. FilesRemoved'
  <2> SUFFICES ASSUME NEW t \in Temps, files'[t] \notin {Absent, <<"stale">>}
               PROVE  \E q \in Parsers : \E k \in 1..Len(object'[q]) : Accounted(t, q, k)'
    BY RemovedNext
  <2>1. t # i[p] /\ files[t] \notin {Absent, <<"stale">>}
    BY <1>3
  <2>2. PICK q \in Parsers : \E k \in 1..Len(object[q]) : Accounted(t, q, k)
    BY <1>1, <2>1, RemovedMeans DEF FileInv
  <2>3. PICK k \in 1..Len(object[q]) : Accounted(t, q, k)
    BY <2>2
  <2> QED
    BY <1>2, <2>1, <2>3 DEF Accounted
<1> QED
  BY <1>6, <1>7, <1>8, <1>9, <1>10, <1>11 DEF FileInv

LEMMA OpenTemps ==
    ASSUME TypeOK, NEW q \in Parsers, NEW k \in 1..Len(object[q]), Opened(q, k)
    PROVE  object[q][k].TempFile \in Temps
<1>1. object[q] \in Seq(Field) /\ object[q][k].TempFile # 0
  BY DEF TypeOK, Opened
<1>2. object[q][k] \in Field
  BY <1>1
<1> QED
  BY <1>1, <1>2 DEF Field

\* The file is created: its name was free, and only this parser could take it.
LEMMA OpenFiles ==
    ASSUME IInv, NEW p \in Parsers, OpenFile(p)
    PROVE  FileInv'
<1>1. TypeOK /\ PhaseInv /\ FileInv /\ \A q \in Parsers \ {p} : Same(q)
  BY OthersSame DEF IInv, Step
<1> DEFINE n == Len(object[p])
<1>2. /\ n \in 1..Len(object[p]) /\ object[p][n] \in Field /\ ~object[p][n].is_open
      /\ i[p] \in Temps /\ pc[p] = "open" /\ fileCreation_mutex = p
  BY <1>1, Opening
<1>3. PICK open \in BOOLEAN :
        /\ PutField(p, n, Named(object[p][n], i[p], open))
        /\ IF open THEN /\ files' = [files EXCEPT ![i[p]] = <<>>]
                        /\ Goto(p, "process") /\ UNCHANGED refused
                   ELSE Throw(p, "open") /\ UNCHANGED files
  BY <1>1, Opening
<1>4. Fields' = Fields /\ i' = i
  BY DEF OpenFile
<1> DEFINE f == Named(object[p][n], i[p], open)
<1>5. /\ f \in Field /\ f.name = object[p][n].name /\ f.TempFile = i[p] /\ f.is_open = open
      /\ PutField(p, n, f)
  BY <1>2, <1>3, NamedTyped
<1> HIDE DEF f
<1>6. /\ \A q \in Parsers : Len(object'[q]) = Len(object[q])
      /\ object'[p][n] = f
      /\ \A q \in Parsers : \A k \in 1..Len(object[q]) : q # p \/ k # n => object'[q][k] = object[q][k]
  BY <1>1, <1>2, <1>5, Replaced
<1>7. \A q \in Parsers : \A k \in 1..Len(object[q]) : object'[q][k].name = object[q][k].name
  <2> SUFFICES ASSUME NEW q \in Parsers, NEW k \in 1..Len(object[q])
               PROVE  object'[q][k].name = object[q][k].name
    OBVIOUS
  <2>1. CASE q = p /\ k = n
    BY <1>5, <1>6, <2>1
  <2>2. CASE q # p \/ k # n
    BY <1>6, <2>2
  <2> QED
    BY <2>1, <2>2
<1> DEFINE isNew(q, k) == q = p /\ k = n /\ open /\ object'[q][k].TempFile = i[p]
           isOld(q, k) == Opened(q, k) /\ object'[q][k] = object[q][k]
<1>8. \A q \in Parsers : \A k : Opened(q, k)' =>
        k \in 1..Len(object[q]) /\ (isNew(q, k) \/ isOld(q, k))
  <2> SUFFICES ASSUME NEW q \in Parsers, NEW k, Opened(q, k)'
               PROVE  k \in 1..Len(object[q]) /\ (isNew(q, k) \/ isOld(q, k))
    OBVIOUS
  <2>1. k \in 1..Len(object[q]) /\ object'[q][k].is_open
    BY <1>6 DEF Opened
  <2>2. CASE q = p /\ k = n
    BY <1>5, <1>6, <2>1, <2>2
  <2>3. CASE q # p \/ k # n
    <3>1. object'[q][k] = object[q][k]
      BY <1>6, <2>1, <2>3
    <3> QED
      BY <2>1, <3>1 DEF Opened
  <2> QED
    BY <2>1, <2>2, <2>3
<1>9. pc'[p] \in {"process", "page"} /\ \A q \in Parsers \ {p} : pc'[q] = pc[q]
  BY <1>1, <1>3 DEF TypeOK, Goto, Throw, Same
<1>10. files[i[p]] = Absent /\ \A q \in Parsers : pc[q] = "open" => q = p
  BY <1>1, <1>2 DEF FileInv, NameInv, At, TypeOK
<1>11. /\ \A t \in Temps : t # i[p] => files'[t] = files[t]
       /\ files'[i[p]] = IF open THEN <<>> ELSE files[i[p]]
  BY <1>1, <1>2, <1>3 DEF TypeOK
<1>12. /\ \A t \in Temps : files[t] # Absent => t # i[p] /\ files'[t] # Absent
       /\ open => files'[i[p]] # Absent
  <2>1. <<>> \in Seq(Bytes)
    OBVIOUS
  <2>2. <<>> # Absent
    BY <2>1, MultipartAssumption
  <2> QED
    BY <1>10, <1>11, <2>2
<1>13. \A q \in Parsers : \A k : isOld(q, k) =>
         /\ k \in 1..Len(object[q]) /\ object[q][k].is_open /\ object[q][k].TempFile \in Temps
         /\ files[object[q][k].TempFile] # Absent /\ object[q][k].TempFile # i[p]
  <2> SUFFICES ASSUME NEW q \in Parsers, NEW k, isOld(q, k)
               PROVE  /\ k \in 1..Len(object[q]) /\ object[q][k].is_open
                      /\ object[q][k].TempFile \in Temps /\ files[object[q][k].TempFile] # Absent
                      /\ object[q][k].TempFile # i[p]
    OBVIOUS
  <2>1. k \in 1..Len(object[q]) /\ object[q][k].is_open
    BY DEF Opened
  <2>2. object[q][k].TempFile \in Temps
    BY <1>1, <2>1, OpenTemps
  <2>3. files[object[q][k].TempFile] # Absent
    BY <1>1, <2>1 DEF FileInv, OpenInv
  <2> QED
    BY <1>10, <2>1, <2>2, <2>3
<1> HIDE DEF n
<1>14. OpenInv'
  <2> SUFFICES ASSUME NEW q \in Parsers, NEW k \in 1..Len(object'[q]), Opened(q, k)'
               PROVE  files'[object'[q][k].TempFile] # Absent
    BY DEF OpenInv
  <2>1. CASE isNew(q, k)
    BY <1>12, <2>1
  <2>2. CASE isOld(q, k)
    BY <1>12, <1>13, <2>2
  <2> QED
    BY <1>8, <2>1, <2>2
<1>15. NameInv'
  BY <1>9, <1>10 DEF NameInv, At
<1>16. RemoveInv'
  <2> SUFFICES ASSUME NEW q \in Parsers, pc'[q] = "remove"
               PROVE  /\ files'[i[q]] # Absent
                      /\ \A r \in Parsers : \A k \in 1..Len(object'[r]) :
                           Opened(r, k)' => object'[r][k].TempFile # i[q]
                      /\ \A r \in Parsers : pc'[r] = "remove" /\ i[r] = i[q] => r = q
    BY <1>4 DEF RemoveInv, At
  <2>1. q # p /\ pc[q] = "remove" /\ i[q] \in Temps
    BY <1>1, <1>9 DEF TypeOK
  <2>2. /\ files[i[q]] # Absent
        /\ \A r \in Parsers : \A k \in 1..Len(object[r]) : Opened(r, k) => object[r][k].TempFile # i[q]
        /\ \A r \in Parsers : pc[r] = "remove" /\ i[r] = i[q] => r = q
    BY <1>1, <2>1 DEF FileInv, RemoveInv, At
  <2>3. files'[i[q]] # Absent /\ i[q] # i[p]
    BY <1>12, <2>1, <2>2
  <2>4. ASSUME NEW r \in Parsers, NEW k \in 1..Len(object'[r]), Opened(r, k)'
        PROVE  object'[r][k].TempFile # i[q]
    BY <1>8, <2>2, <2>3, <2>4
  <2>5. \A r \in Parsers : pc'[r] = "remove" => pc[r] = "remove"
    BY <1>9
  <2> QED
    BY <2>2, <2>3, <2>4, <2>5
<1>17. MapInv'
  <2> SUFFICES ASSUME NEW q \in Parsers, NEW k \in 1..Len(object'[q]), Opened(q, k)' \/ ~Ending(q)'
               PROVE  \/ Fields'[q][object'[q][k].name] = k
                      \/ \E l \in (k + 1)..Len(object'[q]) : object'[q][l].name = object'[q][k].name
    BY DEF MapInv
  <2>1. k \in 1..Len(object[q]) /\ (Opened(q, k) \/ ~Ending(q))
    <3>1. CASE q = p
      BY <1>2, <1>6, <3>1 DEF Ending
    <3>2. CASE q # p
      BY <1>6, <1>8, <1>9, <3>2 DEF Ending
    <3> QED
      BY <3>1, <3>2
  <2>2. CASE Fields[q][object[q][k].name] = k
    BY <1>4, <1>7, <2>1, <2>2
  <2>3. CASE \E l \in (k + 1)..Len(object[q]) : object[q][l].name = object[q][k].name
    <3>1. PICK l \in (k + 1)..Len(object[q]) : object[q][l].name = object[q][k].name
      BY <2>3
    <3>2. l \in 1..Len(object[q])
      BY <2>1
    <3> QED
      BY <1>6, <1>7, <2>1, <3>1, <3>2
  <2> QED
    BY <1>1, <2>1, <2>2, <2>3 DEF FileInv, MapInv
<1>18. TempFilesDistinct'
  <2> SUFFICES ASSUME NEW q \in Parsers, NEW r \in Parsers,
                      NEW j \in 1..Len(object'[q]), NEW k \in 1..Len(object'[r]),
                      Opened(q, j)', Opened(r, k)', <<q, j>> # <<r, k>>
               PROVE  object'[q][j].TempFile # object'[r][k].TempFile
    BY DEF TempFilesDistinct, Opened
  <2>1. (isNew(q, j) \/ isOld(q, j)) /\ (isNew(r, k) \/ isOld(r, k))
    BY <1>8
  <2>2. CASE isNew(q, j)
    BY <1>13, <2>1, <2>2
  <2>3. CASE isNew(r, k)
    BY <1>13, <2>1, <2>3
  <2>4. CASE isOld(q, j) /\ isOld(r, k)
    <3>1. /\ j \in 1..Len(object[q]) /\ k \in 1..Len(object[r])
          /\ object[q][j].is_open /\ object[r][k].is_open
      BY <1>13, <2>4
    <3>2. object[q][j].TempFile # object[r][k].TempFile
      BY <1>1, <3>1 DEF FileInv, TempFilesDistinct
    <3> QED
      BY <2>4, <3>2
  <2> QED
    BY <2>1, <2>2, <2>3, <2>4
<1>19. FilesRemoved'
  <2> SUFFICES ASSUME NEW t \in Temps, files'[t] \notin {Absent, <<"stale">>}
               PROVE  \E q \in Parsers : \E k \in 1..Len(object'[q]) : Accounted(t, q, k)'
    BY RemovedNext
  <2>1. CASE t = i[p]
    <3>1. open
      BY <1>10, <1>11, <2>1
    <3>2. object'[p][n].is_open /\ object'[p][n].TempFile = t
      BY <1>5, <1>6, <2>1, <3>1
    <3>3. PICK k \in 1..Len(object'[p]) : k = n
      BY <1>2, <1>6 DEF n
    <3>4. Accounted(t, p, k)'
      BY <1>9, <3>2, <3>3 DEF Accounted
    <3> QED
      BY <3>4
  <2>2. CASE t # i[p]
    <3>1. files[t] \notin {Absent, <<"stale">>}
      BY <1>11, <2>2
    <3>2. PICK q \in Parsers : \E k \in 1..Len(object[q]) : Accounted(t, q, k)
      BY <1>1, <3>1, RemovedMeans DEF FileInv
    <3>3. PICK k \in 1..Len(object[q]) : Accounted(t, q, k)
      BY <3>2
    <3>4. CASE q = p
      <4>1. object[p][k].is_open /\ object[p][k].TempFile = t
        BY <1>2, <3>3, <3>4 DEF Accounted
      <4>2. k # n /\ object'[p][k] = object[p][k]
        BY <1>2, <1>6, <3>4, <4>1
      <4>3. Accounted(t, p, k)'
        BY <1>9, <4>1, <4>2 DEF Accounted
      <4> QED
        BY <1>6, <3>4, <4>3
    <3>5. CASE q # p
      BY <1>1, <3>3, <3>5, SameAccounts
    <3> QED
      BY <3>4, <3>5
  <2> QED
    BY <2>1, <2>2
<1> QED
  BY <1>14, <1>15, <1>16, <1>17, <1>18, <1>19 DEF FileInv
\* ~Field(): its file stays until the next step of this parser, as nobody's.
LEMMA DeleteFiles ==
    ASSUME IInv, NEW p \in Parsers, NEW m \in Names, DeleteField(p, m)
    PROVE  FileInv'
<1>1. TypeOK /\ FileInv /\ \A q \in Parsers \ {p} : Same(q)
  BY OthersSame DEF IInv, Step
<1> DEFINE n == Fields[p][m]
           f == object[p][n]
           g == Named(f, f.TempFile, FALSE)
<1>2. /\ n \in 1..Len(object[p]) /\ f \in Field /\ pc[p] = "delete"
      /\ PutField(p, n, g)
      /\ Fields' = [Fields EXCEPT ![p] = [Fields[p] EXCEPT ![m] = 0]]
      /\ IF f.is_open THEN Goto(p, "remove") /\ i' = [i EXCEPT ![p] = f.TempFile]
                      ELSE UNCHANGED <<pc, i>>
      /\ files' = files
  BY <1>1, Deleting
<1>3. g \in Field /\ g.name = f.name /\ g.TempFile = f.TempFile /\ ~g.is_open
  BY <1>2, NamedTyped DEF Field
<1> HIDE DEF g
<1>4. /\ \A q \in Parsers : Len(object'[q]) = Len(object[q])
      /\ object'[p][n] = g
      /\ \A q \in Parsers : \A k \in 1..Len(object[q]) : q # p \/ k # n => object'[q][k] = object[q][k]
  BY <1>1, <1>2, <1>3, Replaced
<1>5. PICK d \in 1..Len(object[p]) : d = n
  BY <1>2
<1>6. /\ object[p][d] = f /\ object'[p][d] = g
      /\ \A q \in Parsers : \A k \in 1..Len(object[q]) : q # p \/ k # d => object'[q][k] = object[q][k]
  BY <1>4, <1>5
<1>7. \A q \in Parsers : \A k \in 1..Len(object[q]) :
        /\ object'[q][k].name = object[q][k].name
        /\ object'[q][k].TempFile = object[q][k].TempFile
  <2> SUFFICES ASSUME NEW q \in Parsers, NEW k \in 1..Len(object[q])
               PROVE  /\ object'[q][k].name = object[q][k].name
                      /\ object'[q][k].TempFile = object[q][k].TempFile
    OBVIOUS
  <2>1. CASE q = p /\ k = d
    BY <1>3, <1>6, <2>1
  <2>2. CASE q # p \/ k # d
    BY <1>6, <2>2
  <2> QED
    BY <2>1, <2>2
<1>8. \A q \in Parsers : \A k : Opened(q, k)' =>
        Opened(q, k) /\ k \in 1..Len(object[q]) /\ (q # p \/ k # d)
  <2> SUFFICES ASSUME NEW q \in Parsers, NEW k, Opened(q, k)'
               PROVE  Opened(q, k) /\ k \in 1..Len(object[q]) /\ (q # p \/ k # d)
    OBVIOUS
  <2>1. k \in 1..Len(object[q]) /\ object'[q][k].is_open
    BY <1>4 DEF Opened
  <2>2. q # p \/ k # d
    BY <1>3, <1>6, <2>1
  <2> QED
    BY <1>6, <2>1, <2>2 DEF Opened
<1>9. \A q \in Parsers : \A l \in Names :
        Fields'[q][l] = IF q = p /\ l = m THEN 0 ELSE Fields[q][l]
  BY <1>1, <1>2 DEF TypeOK
<1>10. pc'[p] \in {"delete", "remove"} /\ \A q \in Parsers \ {p} : pc'[q] = pc[q] /\ i'[q] = i[q]
  BY <1>1, <1>2 DEF Same, TypeOK, Goto
<1>11. pc'[p] = "remove" => Opened(p, d) /\ i'[p] = f.TempFile /\ f.TempFile \in Temps
  <2> SUFFICES ASSUME pc'[p] = "remove"
               PROVE  Opened(p, d) /\ i'[p] = f.TempFile /\ f.TempFile \in Temps
    OBVIOUS
  <2>1. f.is_open /\ i' = [i EXCEPT ![p] = f.TempFile]
    BY <1>2
  <2>2. Opened(p, d)
    BY <1>6, <2>1 DEF Opened
  <2>3. f.TempFile \in Temps
    BY <1>1, <1>6, <2>2, OpenTemps
  <2> QED
    BY <1>1, <2>1, <2>2, <2>3 DEF TypeOK
<1>12. Opened(p, d) => pc'[p] = "remove"
  BY <1>1, <1>2, <1>6 DEF TypeOK, Goto, Opened
<1> HIDE DEF f, n
<1>13. OpenInv'
  <2> SUFFICES ASSUME NEW q \in Parsers, NEW k \in 1..Len(object'[q]), Opened(q, k)'
               PROVE  files[object'[q][k].TempFile] # Absent
    BY <1>2 DEF OpenInv
  <2> QED
    BY <1>1, <1>7, <1>8 DEF FileInv, OpenInv
<1>14. NameInv'
  BY <1>1, <1>2, <1>10 DEF FileInv, NameInv, At
<1>15. RemoveInv'
  <2> SUFFICES ASSUME NEW q \in Parsers, pc'[q] = "remove"
               PROVE  /\ files[i'[q]] # Absent
                      /\ \A r \in Parsers : \A k \in 1..Len(object'[r]) :
                           Opened(r, k)' => object'[r][k].TempFile # i'[q]
                      /\ \A r \in Parsers : pc'[r] = "remove" /\ i'[r] = i'[q] => r = q
    BY <1>2 DEF RemoveInv, At
  <2>1. ASSUME NEW r \in Parsers, pc'[r] = "remove", r # p
        PROVE  /\ files[i'[r]] # Absent
               /\ \A s \in Parsers : \A k \in 1..Len(object[s]) : Opened(s, k) => object[s][k].TempFile # i'[r]
               /\ \A s \in Parsers : pc[s] = "remove" /\ i[s] = i'[r] => s = r
    BY <1>1, <1>10, <2>1 DEF FileInv, RemoveInv, At
  <2>2. CASE q = p
    <3>1. Opened(p, d) /\ i'[q] = object[p][d].TempFile
      BY <1>6, <1>11, <2>2
    <3>2. files[i'[q]] # Absent
      BY <1>1, <3>1 DEF FileInv, OpenInv
    <3>3. ASSUME NEW r \in Parsers, NEW k \in 1..Len(object'[r]), Opened(r, k)'
          PROVE  object'[r][k].TempFile # i'[q]
      <4>1. /\ k \in 1..Len(object[r]) /\ object[r][k].is_open /\ object[p][d].is_open
            /\ <<r, k>> # <<p, d>>
        BY <1>8, <3>1, <3>3 DEF Opened
      <4>2. object[r][k].TempFile # object[p][d].TempFile
        BY <1>1, <4>1 DEF FileInv, TempFilesDistinct
      <4> QED
        BY <1>7, <3>1, <4>1, <4>2
    <3>4. ASSUME NEW r \in Parsers, pc'[r] = "remove", i'[r] = i'[q], r # q
          PROVE  FALSE
      BY <2>1, <2>2, <3>1, <3>4
    <3> QED
      BY <3>2, <3>3, <3>4
  <2>3. CASE q # p
    <3>1. /\ files[i'[q]] # Absent
          /\ \A s \in Parsers : \A k \in 1..Len(object[s]) : Opened(s, k) => object[s][k].TempFile # i'[q]
          /\ \A s \in Parsers : pc[s] = "remove" /\ i[s] = i'[q] => s = q
      BY <2>1, <2>3
    <3>2. ASSUME NEW r \in Parsers, NEW k \in 1..Len(object'[r]), Opened(r, k)'
          PROVE  object'[r][k].TempFile # i'[q]
      BY <1>7, <1>8, <3>1, <3>2
    <3>3. ASSUME NEW r \in Parsers, pc'[r] = "remove", i'[r] = i'[q], r # q
          PROVE  FALSE
      <4>1. CASE r = p
        BY <1>6, <1>11, <3>1, <3>3, <4>1
      <4>2. CASE r # p
        BY <1>10, <3>1, <3>3, <4>2
      <4> QED
        BY <4>1, <4>2
    <3> QED
      BY <3>1, <3>2, <3>3
  <2> QED
    BY <2>2, <2>3
<1>16. MapInv'
  <2> SUFFICES ASSUME NEW q \in Parsers, NEW k \in 1..Len(object'[q]), Opened(q, k)' \/ ~Ending(q)'
               PROVE  \/ Fields'[q][object'[q][k].name] = k
                      \/ \E l \in (k + 1)..Len(object'[q]) : object'[q][l].name = object'[q][k].name
    BY DEF MapInv
  <2>1. /\ k \in 1..Len(object[q]) /\ (Opened(q, k) \/ ~Ending(q))
        /\ q # p \/ k # d
    BY <1>4, <1>8, <1>10 DEF Ending
  <2>2. CASE Fields[q][object[q][k].name] = k
    <3>1. object[q] \in Seq(Field)
      BY <1>1 DEF TypeOK
    <3>2. object[q][k] \in Field
      BY <2>1, <3>1
    <3>3. object[q][k].name \in Names
      BY <3>2 DEF Field
    <3>4. q # p \/ object[q][k].name # m
      BY <1>5, <2>1, <2>2 DEF n
    <3> QED
      BY SMTT(60), <1>7, <1>9, <2>1, <2>2, <3>3, <3>4
  <2>3. CASE \E l \in (k + 1)..Len(object[q]) : object[q][l].name = object[q][k].name
    <3>1. PICK l \in (k + 1)..Len(object[q]) : object[q][l].name = object[q][k].name
      BY <2>3
    <3>2. l \in 1..Len(object[q])
      BY <2>1
    <3> QED
      BY <1>4, <1>7, <2>1, <3>1, <3>2
  <2> QED
    BY <1>1, <2>1, <2>2, <2>3 DEF FileInv, MapInv
<1>17. TempFilesDistinct'
  <2> SUFFICES ASSUME NEW q \in Parsers, NEW r \in Parsers,
                      NEW j \in 1..Len(object'[q]), NEW k \in 1..Len(object'[r]),
                      Opened(q, j)', Opened(r, k)', <<q, j>> # <<r, k>>
               PROVE  object'[q][j].TempFile # object'[r][k].TempFile
    BY DEF TempFilesDistinct, Opened
  <2>1. /\ j \in 1..Len(object[q]) /\ k \in 1..Len(object[r])
        /\ object[q][j].is_open /\ object[r][k].is_open
    BY <1>8 DEF Opened
  <2>2. object[q][j].TempFile # object[r][k].TempFile
    BY <1>1, <2>1 DEF FileInv, TempFilesDistinct
  <2> QED
    BY <1>7, <2>1, <2>2
<1>18. FilesRemoved'
  <2> SUFFICES ASSUME NEW t \in Temps, files[t] \notin {Absent, <<"stale">>}
               PROVE  \E q \in Parsers : \E k \in 1..Len(object'[q]) : Accounted(t, q, k)'
    BY <1>2, RemovedNext
  <2>1. PICK q \in Parsers : \E k \in 1..Len(object[q]) : Accounted(t, q, k)
    BY <1>1, RemovedMeans DEF FileInv
  <2>2. PICK k \in 1..Len(object[q]) : Accounted(t, q, k)
    BY <2>1
  <2>3. CASE q = p
    <3>1. object[p][k].is_open /\ object[p][k].TempFile = t /\ k \in 1..Len(object'[p])
          /\ object'[p][k].TempFile = t
      BY <1>2, <1>4, <1>7, <2>2, <2>3 DEF Accounted
    <3>2. CASE k = d
      <4>1. Opened(p, d)
        BY <3>1, <3>2 DEF Opened
      <4>2. pc'[p] = "remove" /\ i'[p] = t
        BY <1>6, <1>11, <1>12, <3>1, <3>2, <4>1
      <4> QED
        BY <2>3, <3>1, <4>2 DEF Accounted
    <3>3. CASE k # d
      <4>1. object'[p][k].is_open
        BY <1>6, <2>2, <2>3, <3>1, <3>3
      <4> QED
        BY <1>10, <2>3, <3>1, <4>1 DEF Accounted
    <3> QED
      BY <3>2, <3>3
  <2>4. CASE q # p
    BY <1>1, <2>2, <2>4, SameAccounts
  <2> QED
    BY <2>3, <2>4
<1> QED
  BY <1>13, <1>14, <1>15, <1>16, <1>17, <1>18 DEF FileInv

(***************************************************************************)
(* The invariant of the files                                              *)
(***************************************************************************)
LEMMA AllOf ==
    ASSUME NEW s \in Seq(Bytes)
    PROVE  SubSeq(s, 1, Len(s)) = s
OBVIOUS

LEMMA InitTypes == Init => TypeOK
<1> SUFFICES ASSUME Init
             PROVE  TypeOK
  OBVIOUS
<1>1. form \in [Parsers -> AllForms] /\ \A p \in Parsers : form[p] \in Forms[p]
  BY DEF Init
<1>2. \A p \in Parsers : Body(form[p]) \in Seq(Bytes) /\ net[p] = Body(form[p])
  BY <1>1, MultipartAssumption DEF Init
<1>3. net \in [Parsers -> Seq(Bytes)]
  BY <1>2 DEF Init
<1>4. \A p \in Parsers : \E n \in 0..Len(Body(form[p])) :
        net[p] = SubSeq(Body(form[p]), n + 1, Len(Body(form[p])))
  <2> SUFFICES ASSUME NEW p \in Parsers
               PROVE  \E n \in 0..Len(Body(form[p])) :
                        net[p] = SubSeq(Body(form[p]), n + 1, Len(Body(form[p])))
    OBVIOUS
  <2>1. PICK s \in Seq(Bytes) : s = Body(form[p]) /\ net[p] = s
    BY <1>2
  <2>2. Len(s) \in Nat /\ net[p] = SubSeq(s, 0 + 1, Len(s))
    BY <2>1, AllOf
  <2>3. 0 \in 0..Len(s)
    BY <2>2
  <2> QED
    BY <2>1, <2>2, <2>3
<1>5. /\ pc \in [Parsers -> PCs] /\ CurrentStatus \in [Parsers -> Statuses]
      /\ refused \in [Parsers -> Causes]
      /\ \A p \in Parsers : pc[p] = "new"
  BY DEF Init, PCs, Statuses, Causes
<1>6. /\ DataCollector \in [Parsers -> Seq(Bytes)]
      /\ \A p \in Parsers : Len(DataCollector[p]) <= MaxDataCollectorLength
  BY MultipartAssumption DEF Init
<1>7. /\ object \in [Parsers -> Seq(Field)]
      /\ \A p \in Parsers : object[p] = <<>> /\ Len(object[p]) = 0
  BY DEF Init
<1>8. /\ ProcessingFieldName = [p \in Parsers |-> Len(object[p])]
      /\ Fields \in [Parsers -> [Names -> Nat]]
      /\ \A p \in Parsers : \A n \in Names : Fields[p][n] \in 0..Len(object[p])
  BY <1>7 DEF Init
<1>9. \A p \in Parsers : \A k \in 1..Len(object[p]) :
        object[p][k].is_open => object[p][k].file /\ object[p][k].TempFile # 0
  BY <1>7
<1>10. i \in [Parsers -> Temps]
  BY MultipartAssumption DEF Init, Temps
<1>11. files \in [Temps -> Seq(Bytes) \cup {Absent}]
  <2>1. <<"stale">> \in Seq(Bytes)
    BY MultipartAssumption
  <2> QED
    BY <2>1 DEF Init
<1>12. /\ fileCreation_mutex \in Parsers \cup {NoParser}
       /\ \A p \in Parsers : pc[p] \in {"choose", "open"} <=> fileCreation_mutex = p
  BY <1>5, MultipartAssumption DEF Init
<1> QED
  BY <1>1, <1>3, <1>4, <1>5, <1>6, <1>7, <1>8, <1>9, <1>10, <1>11, <1>12 DEF TypeOK

LEMMA InitFiles == Init => PhaseInv /\ FileInv
<1> SUFFICES ASSUME Init
             PROVE  PhaseInv /\ FileInv
  OBVIOUS
<1>1. \A p \in Parsers : /\ object[p] = <<>> /\ pc[p] = "new"
                         /\ CurrentStatus[p] = "LookingForStartingBoundary"
  BY DEF Init
<1>2. \A p \in Parsers : \A k \in 1..Len(object[p]) : FALSE
  BY <1>1
<1>3. PhaseInv
  BY <1>1 DEF PhaseInv, At
<1>4. OpenInv /\ MapInv /\ TempFilesDistinct
  BY <1>2 DEF OpenInv, MapInv, TempFilesDistinct
<1>5. NameInv /\ RemoveInv
  BY <1>1 DEF NameInv, RemoveInv, At
<1>6. FilesRemoved
  BY DEF Init, FilesRemoved
<1> QED
  BY <1>3, <1>4, <1>5, <1>6 DEF FileInv

LEMMA Initially == Init => IInv
BY InitTypes, InitFiles DEF IInv

LEMMA StepFiles ==
    ASSUME IInv, NEW p \in Parsers, Step(p)
    PROVE  FileInv'
BY QuietFiles, FillFiles, ParseFiles, TestFiles, OpenFiles, DeleteFiles, RemoveFiles DEF Step

LEMMA Unchanged == ASSUME IInv, UNCHANGED vars PROVE IInv'
<1>1. /\ form' = form /\ net' = net /\ pc' = pc /\ CurrentStatus' = CurrentStatus
      /\ DataCollector' = DataCollector /\ ProcessingFieldName' = ProcessingFieldName
      /\ Fields' = Fields /\ object' = object /\ i' = i /\ files' = files
      /\ fileCreation_mutex' = fileCreation_mutex /\ refused' = refused
  BY DEF vars, parseVars, fieldVars, fileVars
<1>2. TypeOK'
  BY <1>1 DEF IInv, TypeOK
<1>3. PhaseInv'
  BY <1>1 DEF IInv, PhaseInv, At, Current
<1>4. OpenInv' /\ NameInv' /\ RemoveInv' /\ MapInv' /\ TempFilesDistinct' /\ FilesRemoved'
  BY <1>1 DEF IInv, FileInv, OpenInv, NameInv, RemoveInv, MapInv, TempFilesDistinct, FilesRemoved,
              Opened, Ending, At
<1> QED
  BY <1>2, <1>3, <1>4 DEF IInv, FileInv

LEMMA Invariance == IInv /\ [Next]_vars => IInv'
<1>1. ASSUME IInv, Next
      PROVE  IInv'
  <2>1. PICK p \in Parsers : Step(p)
    BY <1>1 DEF Next
  <2>2. TypeOK' /\ PhaseInv'
    BY <1>1, <2>1, StepTypes, StepPhase DEF IInv
  <2>3. FileInv'
    BY <1>1, <2>1, StepFiles
  <2> QED
    BY <2>2, <2>3 DEF IInv
<1> QED
  BY <1>1, Unchanged

LEMMA Inductive == Spec => []IInv
BY Initially, Invariance, PTL DEF Spec

(***************************************************************************)
(* The place in the body                                                   *)
(***************************************************************************)
\* What s has after its first n elements.
Beyond(s, n) == SubSeq(s, n + 1, Len(s))

\* The bytes not processed, and those from the next part on.
Left(p) == DataCollector[p] \o net[p]
NextPart(p) == BodyFrom(form[p])[Len(object[p]) + 1]

PartContent(p, k) == form[p].parts[k].content
Whole(p, k) == Received(p, k) = PartContent(p, k)

\* Between two parts there is the line end that is kept for the boundary.
LineEnd(p) == IF Len(object[p]) = 0 THEN <<>> ELSE CRLF

BeforeBoundary(p) ==
    /\ Left(p) = LineEnd(p) \o NextPart(p)
    /\ \A k \in 1..Len(object[p]) : Whole(p, k)
BeforeHeaders(p) ==
    /\ Delimiter \o Left(p) = NextPart(p)
    /\ \A k \in 1..Len(object[p]) : Whole(p, k)
\* What the field has and what is still to come of it are the content.
InContent(p) ==
    LET K == Len(object[p])
        rest == Beyond(PartContent(p, K), Len(Received(p, K)))
    IN  /\ K > 0 /\ Left(p) = rest \o (CRLF \o NextPart(p))
        /\ Received(p, K) \o rest = PartContent(p, K)
\* The headers, or their lack, made the parser throw.
HeadersRefused(p) ==
    LET K == Len(object[p]) IN K > 0 => Whole(p, K) \/ Received(p, K) = <<>>

Placed(p) ==
    /\ Len(object[p]) <= Len(form[p].parts)
    /\ \A k \in 1..Len(object[p]) :
         /\ object[p][k].name = HeaderOf[form[p].parts[k].header].name
         /\ k < Len(object[p]) => Whole(p, k)
    /\ CurrentStatus[p] = "LookingForStartingBoundary" => BeforeBoundary(p)
    /\ CurrentStatus[p] = "ProcessingHeaders" /\ refused[p] # "headers" => BeforeHeaders(p)
    /\ CurrentStatus[p] = "ProcessingHeaders" /\ refused[p] = "headers" => HeadersRefused(p)
    /\ CurrentStatus[p] = "ProcessingContentOfTheField" => InContent(p)

\* Nothing is left in the collector that could be processed.
Exhausted(p) ==
    IF CurrentStatus[p] = "ProcessingHeaders"
    THEN HeadersEnd(p) = 0 ELSE BoundaryPositionInDataCollector(p) = 0

Unnoticed(p) ==
    /\ Len(object[p]) = 0 /\ CurrentStatus[p] = "LookingForStartingBoundary"
    /\ Left(p) = Body(form[p])

PlaceOf(p) ==
    /\ refused[p] # "no" => pc[p] \in {"page", "delete", "remove", "gone"}
    /\ At(p, "new") => DataCollector[p] = <<>> /\ Unnoticed(p)
    /\ form[p].type = "none" => ~InUse(p)
    /\ form[p].type = "quoted" /\ InUse(p) => Unnoticed(p)
    /\ form[p].type = "bare" /\ InUse(p) => Placed(p)
    /\ At(p, "await") \/ (At(p, "page") /\ refused[p] = "no") => Exhausted(p)
    /\ At(p, "page") /\ refused[p] = "no" => net[p] = <<>>

NamedLast(p) ==
    ~Ending(p) => \A k \in 1..Len(object[p]) :
        LET n == object[p][k].name IN Fields[p][n] >= k /\ object[p][Fields[p][n]].name = n

PlaceInv == \A p \in Parsers : PlaceOf(p) /\ NamedLast(p)

(***************************************************************************)
(* Sequences that are joined and cut                                       *)
(***************************************************************************)
LEMMA Joining ==
    ASSUME NEW B, NEW s \in Seq(B), NEW t \in Seq(B)
    PROVE  /\ s \o t \in Seq(B) /\ Len(s \o t) = Len(s) + Len(t) /\ Len(s) \in Nat /\ Len(t) \in Nat
           /\ \A k \in 1..Len(s) : (s \o t)[k] = s[k]
           /\ \A k \in 1..Len(t) : (s \o t)[Len(s) + k] = t[k]
OBVIOUS

LEMMA Cutting ==
    ASSUME NEW B, NEW s \in Seq(B), NEW n \in 0..Len(s)
    PROVE  /\ SubSeq(s, 1, n) \in Seq(B) /\ Len(SubSeq(s, 1, n)) = n
           /\ \A k \in 1..n : SubSeq(s, 1, n)[k] = s[k]
           /\ Beyond(s, n) \in Seq(B) /\ Len(Beyond(s, n)) = Len(s) - n
           /\ \A k \in 1..(Len(s) - n) : Beyond(s, n)[k] = s[n + k]
BY DEF Beyond

LEMMA Equal ==
    ASSUME NEW B, NEW s \in Seq(B), NEW t \in Seq(B), Len(s) = Len(t),
           \A k \in 1..Len(s) : s[k] = t[k]
    PROVE  s = t
OBVIOUS

LEMMA Regroup ==
    ASSUME NEW B, NEW s \in Seq(B), NEW t \in Seq(B), NEW u \in Seq(B)
    PROVE  (s \o t) \o u = s \o (t \o u)
BY SMTT(60), ConcatAssociative

LEMMA EmptyJoin ==
    ASSUME NEW B, NEW s \in Seq(B)
    PROVE  s \o <<>> = s /\ <<>> \o s = s /\ <<>> \in Seq(B)
BY ConcatEmptySeq

\* What a sequence is made of.
LEMMA TakeBeyond ==
    ASSUME NEW B, NEW s \in Seq(B), NEW n \in 0..Len(s)
    PROVE  SubSeq(s, 1, n) \o Beyond(s, n) = s
<1> DEFINE a == SubSeq(s, 1, n)
           b == Beyond(s, n)
<1>1. /\ a \in Seq(B) /\ b \in Seq(B) /\ Len(a) = n /\ Len(b) = Len(s) - n
      /\ \A k \in 1..n : a[k] = s[k]
      /\ \A k \in 1..(Len(s) - n) : b[k] = s[n + k]
  BY ZenonT(60), Cutting
<1> HIDE DEF a, b
<1>2. a \o b \in Seq(B) /\ Len(a \o b) = Len(s)
  <2>1. a \o b \in Seq(B) /\ Len(a \o b) = Len(a) + Len(b)
    BY <1>1, Joining
  <2> QED
    BY <1>1, <2>1
<1>3. ASSUME NEW k \in 1..Len(a \o b)
      PROVE  (a \o b)[k] = s[k]
  <2>1. CASE k <= n
    BY <1>1, <1>2, <2>1, Joining
  <2>2. CASE k > n
    <3>1. k - n \in 1..Len(b) /\ n + (k - n) = k
      BY <1>1, <1>2, <2>2
    <3>2. (a \o b)[Len(a) + (k - n)] = b[k - n]
      BY <1>1, <3>1, Joining
    <3> QED
      BY <1>1, <3>1, <3>2
  <2> QED
    BY <1>2, <2>1, <2>2
<1>4. a \o b = s
  BY ZenonT(60), <1>2, <1>3, Equal
<1> QED
  BY <1>4 DEF a, b

\* The first of two may be cut, and the second is left.
LEMMA BeyondFirst ==
    ASSUME NEW B, NEW s \in Seq(B), NEW t \in Seq(B), NEW n \in 0..Len(s)
    PROVE  Beyond(s \o t, n) = Beyond(s, n) \o t
<1> DEFINE w == s \o t
           a == Beyond(w, n)
           b == Beyond(s, n)
<1>1. /\ w \in Seq(B) /\ Len(w) = Len(s) + Len(t) /\ Len(s) \in Nat /\ Len(t) \in Nat
      /\ \A k \in 1..Len(s) : w[k] = s[k]
      /\ \A k \in 1..Len(t) : w[Len(s) + k] = t[k]
  BY Joining
<1> HIDE DEF w
<1>2. n \in 0..Len(w)
  BY <1>1
<1>3. a \in Seq(B) /\ Len(a) = Len(w) - n /\ \A k \in 1..(Len(w) - n) : a[k] = w[n + k]
  BY ZenonT(60), <1>1, <1>2, Cutting
<1>4. b \in Seq(B) /\ Len(b) = Len(s) - n /\ \A k \in 1..(Len(s) - n) : b[k] = s[n + k]
  BY ZenonT(60), Cutting
<1> HIDE DEF a, b
<1>5. /\ b \o t \in Seq(B) /\ Len(b \o t) = Len(b) + Len(t)
      /\ \A k \in 1..Len(b) : (b \o t)[k] = b[k]
      /\ \A k \in 1..Len(t) : (b \o t)[Len(b) + k] = t[k]
  <2>1. b \in Seq(B) /\ t \in Seq(B)
    BY <1>4
  <2> QED
    BY <2>1, Joining
<1>6. ASSUME NEW k \in 1..Len(a)
      PROVE  a[k] = (b \o t)[k]
  <2>1. CASE k <= Len(b)
    <3>1. n + k \in 1..Len(s) /\ k \in 1..Len(b) /\ k \in 1..(Len(w) - n) /\ k \in 1..(Len(s) - n)
      BY <1>1, <1>4, <2>1
    <3> QED
      BY <1>1, <1>3, <1>4, <1>5, <3>1
  <2>2. CASE k > Len(b)
    <3>1. /\ k - Len(b) \in 1..Len(t) /\ Len(b) + (k - Len(b)) = k
          /\ n + k = Len(s) + (k - Len(b)) /\ k \in 1..(Len(w) - n)
      BY <1>1, <1>3, <1>4, <2>2
    <3>2. (b \o t)[k] = t[k - Len(b)]
      BY <1>5, <3>1
    <3>3. a[k] = w[Len(s) + (k - Len(b))]
      BY ZenonT(60), <1>3, <3>1
    <3>4. w[Len(s) + (k - Len(b))] = t[k - Len(b)]
      BY ZenonT(60), <1>1, <3>1
    <3> QED
      BY <3>2, <3>3, <3>4
  <2>3. k <= Len(b) \/ k > Len(b)
    <3>1. k \in Int /\ Len(b) \in Int
      BY <1>3, <1>4
    <3> QED
      BY <3>1
  <2> QED
    BY ZenonT(60), <2>1, <2>2, <2>3
<1>7. Len(a) = Len(b \o t)
  BY <1>1, <1>3, <1>4, <1>5
<1>8. a = b \o t
  BY ZenonT(60), <1>3, <1>5, <1>6, <1>7, Equal
<1> QED
  BY <1>8 DEF a, b, w

LEMMA BeyondAll ==
    ASSUME NEW B, NEW s \in Seq(B), NEW t \in Seq(B)
    PROVE  Beyond(s \o t, Len(s)) = t
<1>1. Len(s) \in 0..Len(s)
  OBVIOUS
<1>2. Beyond(s, Len(s)) = <<>>
  BY DEF Beyond
<1> QED
  BY <1>1, <1>2, BeyondFirst, EmptyJoin

\* Two ends of the same length.
LEMMA SameEnd ==
    ASSUME NEW B, NEW s \in Seq(B), NEW t \in Seq(B), NEW u \in Seq(B), s \o t = s \o u
    PROVE  t = u
BY ZenonT(60), BeyondAll

LEMMA BeyondTwice ==
    ASSUME NEW B, NEW s \in Seq(B), NEW m \in 0..Len(s), NEW n \in 0..(Len(s) - m)
    PROVE  Beyond(Beyond(s, m), n) = Beyond(s, m + n)
<1> DEFINE a == Beyond(s, m)
<1>1. a \in Seq(B) /\ Len(a) = Len(s) - m /\ \A k \in 1..(Len(s) - m) : a[k] = s[m + k]
  BY Cutting
<1> HIDE DEF a
<1>2. /\ Beyond(a, n) \in Seq(B) /\ Len(Beyond(a, n)) = Len(a) - n
      /\ \A k \in 1..(Len(a) - n) : Beyond(a, n)[k] = a[n + k]
  BY SMTT(60), <1>1, Cutting
<1>3. m + n \in 0..Len(s)
  OBVIOUS
<1>4. /\ Beyond(s, m + n) \in Seq(B) /\ Len(Beyond(s, m + n)) = Len(s) - (m + n)
      /\ \A k \in 1..(Len(s) - (m + n)) : Beyond(s, m + n)[k] = s[m + n + k]
  BY <1>3, Cutting
<1>5. ASSUME NEW k \in 1..Len(Beyond(a, n))
      PROVE  Beyond(a, n)[k] = Beyond(s, m + n)[k]
  <2>1. /\ k \in 1..(Len(a) - n) /\ n + k \in 1..(Len(s) - m) /\ k \in 1..(Len(s) - (m + n))
        /\ m + (n + k) = m + n + k
    BY <1>1, <1>2
  <2> QED
    BY ZenonT(60), <1>1, <1>2, <1>4, <2>1
<1>6. Len(Beyond(a, n)) = Len(Beyond(s, m + n))
  <2>1. Len(s) \in Nat /\ (Len(s) - m) - n = Len(s) - (m + n)
    OBVIOUS
  <2> QED
    BY ZenonT(60), <1>1, <1>2, <1>4, <2>1
<1>7. Beyond(a, n) = Beyond(s, m + n)
  BY <1>2, <1>4, <1>5, <1>6, Equal
<1> QED
  BY <1>7 DEF a

\* The beginning of two, when there is enough of the first.
LEMMA TakeFirst ==
    ASSUME NEW B, NEW s \in Seq(B), NEW t \in Seq(B), NEW n \in 0..Len(s)
    PROVE  SubSeq(s \o t, 1, n) = SubSeq(s, 1, n)
<1> DEFINE w == s \o t
<1>1. w \in Seq(B) /\ n \in 0..Len(w) /\ \A k \in 1..Len(s) : w[k] = s[k]
  BY Joining
<1> HIDE DEF w
<1>2. /\ SubSeq(w, 1, n) \in Seq(B) /\ Len(SubSeq(w, 1, n)) = n
      /\ \A k \in 1..n : SubSeq(w, 1, n)[k] = w[k]
  BY <1>1, Cutting
<1>3. /\ SubSeq(s, 1, n) \in Seq(B) /\ Len(SubSeq(s, 1, n)) = n
      /\ \A k \in 1..n : SubSeq(s, 1, n)[k] = s[k]
  BY Cutting
<1>4. \A k \in 1..n : k \in 1..Len(s)
  OBVIOUS
<1>5. SubSeq(w, 1, n) = SubSeq(s, 1, n)
  BY <1>1, <1>2, <1>3, <1>4, Equal
<1> QED
  BY <1>5 DEF w

\* A chunk goes from one to the other: together they are the same.
LEMMA ChunkMoved ==
    ASSUME NEW B, NEW s \in Seq(B), NEW t \in Seq(B), NEW n \in 0..Len(t)
    PROVE  (s \o SubSeq(t, 1, n)) \o Beyond(t, n) = s \o t
<1>1. SubSeq(t, 1, n) \in Seq(B) /\ Beyond(t, n) \in Seq(B)
  BY Cutting
<1>2. \A u, v \in Seq(B) : (s \o u) \o v = s \o (u \o v)
  BY SMTT(60), Regroup
<1>3. (s \o SubSeq(t, 1, n)) \o Beyond(t, n) = s \o (SubSeq(t, 1, n) \o Beyond(t, n))
  BY ZenonT(60), <1>1, <1>2
<1> QED
  BY ZenonT(60), <1>3, TakeBeyond

\* The beginning of a whole that is known.
LEMMA Beginning ==
    ASSUME NEW B, NEW s \in Seq(B), NEW t \in Seq(B), NEW u \in Seq(B), NEW v \in Seq(B),
           s \o t = u \o v
    PROVE  /\ \A k \in 1..Len(s) : s[k] = (u \o v)[k]
           /\ Len(s) + Len(t) = Len(u) + Len(v)
           /\ \A n \in 0..Len(s) : n <= Len(u) => SubSeq(s, 1, n) = SubSeq(u, 1, n)
<1>1. /\ \A k \in 1..Len(s) : s[k] = (u \o v)[k]
      /\ Len(s) + Len(t) = Len(u) + Len(v)
  BY Joining
<1>2. ASSUME NEW n \in 0..Len(s), n <= Len(u)
      PROVE  SubSeq(s, 1, n) = SubSeq(u, 1, n)
  <2>1. n \in 0..Len(u)
    BY <1>2
  <2>2. SubSeq(s \o t, 1, n) = SubSeq(s, 1, n) /\ SubSeq(u \o v, 1, n) = SubSeq(u, 1, n)
    BY <2>1, TakeFirst
  <2> QED
    BY ZenonT(60), <2>2
<1> QED
  BY <1>1, <1>2

(***************************************************************************)
(* The bytes of a form                                                     *)
(***************************************************************************)
\* What holds of 0, and of n + 1 when it holds of n, holds up to any number.
LEMMA Induction ==
    ASSUME NEW N \in Nat, NEW P \in SUBSET Nat, 0 \in P,
           \A n \in Nat : n \in P /\ n < N => n + 1 \in P
    PROVE  \A n \in 0..N : n \in P
<1> DEFINE F == {n \in 0..N : n \notin P}
<1> SUFFICES ASSUME F # {}
             PROVE  FALSE
  OBVIOUS
<1>1. PICK n \in F : \A m \in F : n <= m
  <2>1. F \in SUBSET Nat
    OBVIOUS
  <2> HIDE DEF F
  <2> QED
    BY <2>1, Smallest
<1>2. n \in Nat /\ n # 0 /\ n <= N /\ n - 1 \in 0..N /\ n - 1 \notin F
  BY <1>1
<1>3. n - 1 \in P /\ n - 1 < N /\ n - 1 \in Nat
  BY <1>2
<1>4. (n - 1) + 1 \in P
  BY <1>3
<1> QED
  BY <1>1, <1>2, <1>4

LEMMA FormTyped ==
    ASSUME NEW f \in AllForms
    PROVE  /\ f.type \in ContentTypes /\ Len(f.parts) \in Nat
           /\ f.epilogue \in Seq(Bytes) /\ f.epilogue \in Seq(Bytes \ Headers)
           /\ \A k \in 1..Len(f.parts) :
                /\ f.parts[k].header \in Headers /\ f.parts[k].header \in Bytes
                /\ f.parts[k].content \in Seq(Bytes)
                /\ Occurrences(Delimiter, f.parts[k].content) = {}
<1>1. /\ f.type \in ContentTypes /\ f.parts \in Seq([header : Headers, content : Seq(Bytes)])
      /\ f.epilogue \in Seq(Bytes \ Headers) /\ Headers \subseteq Bytes
      /\ \A k \in 1..Len(f.parts) : Occurrences(Delimiter, f.parts[k].content) = {}
  BY ZenonT(60), MultipartAssumption, ClientAssumption
<1>2. \A S : \A s \in Seq(S) : Len(s) \in Nat /\ \A k \in 1..Len(s) : s[k] \in S
  OBVIOUS
<1>3. /\ Len(f.parts) \in Nat
      /\ \A k \in 1..Len(f.parts) : f.parts[k] \in [header : Headers, content : Seq(Bytes)]
  BY ZenonT(60), <1>1, <1>2
<1>4. f.epilogue \in Seq(Bytes)
  BY <1>1
<1> QED
  BY ZenonT(60), <1>1, <1>3, <1>4

LEMMA ConstantsTyped ==
    /\ Delimiter \in Seq(Bytes) /\ Quoted \in Seq(Bytes) /\ CRLF \in Seq(Bytes)
    /\ <<"-", "-">> \in Seq(Bytes) /\ Len(CRLF) = 2 /\ CRLF[1] = "cr" /\ CRLF[2] = "lf"
    /\ Len(Delimiter) \in Nat \ {0}
    /\ \A k \in 1..Len(Delimiter) : Delimiter[k] # "cr" /\ Delimiter[k] # "lf"
<1>1. "cr" \in Bytes /\ "lf" \in Bytes /\ "-" \in Bytes /\ Delimiter # <<>> /\ Delimiter \in Seq(Bytes)
      /\ \A k \in 1..Len(Delimiter) : Delimiter[k] # "cr" /\ Delimiter[k] # "lf"
  BY MultipartAssumption, ClientAssumption
<1>2. Len(Delimiter) \in Nat \ {0}
  BY <1>1, EmptySeq
<1> QED
  BY <1>1, <1>2, MultipartAssumption DEF CRLF

LEMMA RegroupBytes == \A s, t, u \in Seq(Bytes) : (s \o t) \o u = s \o (t \o u)
BY SMTT(60), Regroup

\* Joining byte sequences, as an operation of its own.
Str(s) == s \in Seq(Bytes)
Cat(s, t) == s \o t
CatLaws ==
    /\ \A s, t : Str(s) /\ Str(t) => Str(Cat(s, t))
    /\ \A s, t, u : Str(s) /\ Str(t) /\ Str(u) => Cat(Cat(s, t), u) = Cat(s, Cat(t, u))

LEMMA Laws == CatLaws
<1>1. \A s, t \in Seq(Bytes) : s \o t \in Seq(Bytes)
  BY Joining
<1> QED
  BY ZenonT(60), <1>1, RegroupBytes DEF CatLaws, Str, Cat

\* BodyFrom, which is recursive, is what its definition says: it is built from
\* the last part to the first.
LEMMA BodyDefined ==
    ASSUME NEW f \in AllForms
    PROVE  /\ BodyFrom(f)[Len(f.parts) + 1] = Delimiter \o <<"-", "-">> \o CRLF \o f.epilogue
           /\ \A k \in 1..Len(f.parts) :
                BodyFrom(f)[k] = PartBytes(f.parts[k]) \o BodyFrom(f)[k + 1]
<1> DEFINE N == Len(f.parts)
           last == Delimiter \o <<"-", "-">> \o CRLF \o f.epilogue
           next(g, k) == IF k > N THEN last ELSE PartBytes(f.parts[k]) \o g[k + 1]
           P == {m \in Nat : m <= N => \E g : \A k \in (N + 1 - m)..(N + 1) : g[k] = next(g, k)}
<1>1. N \in Nat
  BY FormTyped
<1> HIDE DEF N, last
<1>2. 0 \in P
  <2> DEFINE g == [k \in {N + 1} |-> last]
  <2>1. \A k \in (N + 1 - 0)..(N + 1) : g[k] = next(g, k)
    <3>1. \A k \in (N + 1 - 0)..(N + 1) : k = N + 1 /\ k > N
      BY <1>1
    <3> QED
      BY <3>1
  <2> QED
    BY ZenonT(60), <2>1
<1>3. ASSUME NEW m \in Nat, m \in P, m < N
      PROVE  m + 1 \in P
  <2>0. m <= N /\ m \in Nat
    BY <1>1, <1>3
  <2>1. PICK g : \A k \in (N + 1 - m)..(N + 1) : g[k] = next(g, k)
    <3> HIDE DEF next
    <3> QED
      BY ZenonT(60), <1>3, <2>0
  <2> DEFINE a == N - m
             h == [k \in a..(N + 1) |-> IF k = a THEN PartBytes(f.parts[a]) \o g[a + 1] ELSE g[k]]
  <2>2. a \in 1..N /\ N + 1 - m = a + 1 /\ N + 1 - (m + 1) = a
    BY <1>1, <1>3
  <2>3. \A k \in a..(N + 1) : h[k] = IF k = a THEN PartBytes(f.parts[a]) \o g[a + 1] ELSE g[k]
    OBVIOUS
  <2> HIDE DEF h, a
  <2>4. \A k \in a..(N + 1) : h[k] = next(h, k)
    <3> SUFFICES ASSUME NEW k \in a..(N + 1)
                 PROVE  h[k] = next(h, k)
      OBVIOUS
    <3>1. CASE k = a
      <4>1. h[k] = PartBytes(f.parts[a]) \o g[a + 1]
        BY ZenonT(60), <2>3, <3>1
      <4>2. a + 1 \in a..(N + 1) /\ a + 1 # a /\ ~(a > N)
        BY <1>1, <2>2
      <4>3. h[a + 1] = g[a + 1]
        BY <2>3, <4>2
      <4> QED
        BY ZenonT(60), <3>1, <4>1, <4>2, <4>3
    <3>2. CASE k # a
      <4>1. k \in (N + 1 - m)..(N + 1) /\ h[k] = g[k]
        BY <1>1, <2>2, <2>3, <3>2
      <4>2. g[k] = next(g, k)
        BY <2>1, <4>1
      <4>3. k > N \/ h[k + 1] = g[k + 1]
        BY <1>1, <2>2, <2>3, <3>2
      <4> QED
        BY <4>1, <4>2, <4>3
    <3> QED
      BY <3>1, <3>2
  <2> QED
    BY <1>3, <2>2, <2>4
<1>4. N \in P
  <2>1. P \in SUBSET Nat /\ \A m \in Nat : m \in P /\ m < N => m + 1 \in P
    BY <1>3
  <2> HIDE DEF P
  <2>2. \A m \in 0..N : m \in P
    BY <1>1, <1>2, <2>1, Induction
  <2> QED
    BY <1>1, <2>2
<1>5. PICK g : \A k \in 1..(N + 1) : g[k] = next(g, k)
  BY <1>1, <1>4
<1> DEFINE from == [k \in 1..(N + 1) |-> g[k]]
           Fixed(h) == h = [k \in 1..(N + 1) |-> next(h, k)]
<1>6. Fixed(from)
  <2>1. \A k \in 1..(N + 1) : from[k] = next(from, k)
    <3> SUFFICES ASSUME NEW k \in 1..(N + 1)
                 PROVE  from[k] = next(from, k)
      OBVIOUS
    <3>1. k > N \/ from[k + 1] = g[k + 1]
      BY <1>1
    <3> QED
      BY <1>5, <3>1
  <2> QED
    BY <2>1
<1>7. BodyFrom(f) = CHOOSE h : Fixed(h)
  BY DEF BodyFrom, N, last
<1> HIDE DEF Fixed, from
<1>8. Fixed(BodyFrom(f))
  BY <1>6, <1>7
<1>9. \A k \in 1..(N + 1) : BodyFrom(f)[k] = next(BodyFrom(f), k)
  BY ZenonT(60), <1>8 DEF Fixed
<1>10. N + 1 > N /\ N + 1 \in 1..(N + 1) /\ \A k \in 1..N : k \in 1..(N + 1) /\ ~(k > N)
  BY <1>1
<1>11. /\ BodyFrom(f)[N + 1] = last
       /\ \A k \in 1..N : BodyFrom(f)[k] = PartBytes(f.parts[k]) \o BodyFrom(f)[k + 1]
  BY ZenonT(60), <1>9, <1>10
<1> QED
  BY ZenonT(60), <1>11 DEF N, last

\* The headers of a part, from the line end after the boundary to the empty line.
HeaderBytes(h) == <<"cr", "lf", h, "cr", "lf", "cr", "lf">>

LEMMA HeaderTyped == \A h \in Bytes : HeaderBytes(h) \in Seq(Bytes)
BY ClientAssumption DEF HeaderBytes

\* A part and what follows it, one thing after the other.
LEMMA PartIs ==
    ASSUME NEW part, part.header \in Bytes, part.content \in Seq(Bytes), NEW t \in Seq(Bytes)
    PROVE  /\ PartBytes(part) \in Seq(Bytes)
           /\ PartBytes(part) \o t
                = Delimiter \o (HeaderBytes(part.header) \o (part.content \o (CRLF \o t)))
<1> DEFINE X == CRLF
           D == Delimiter
           H == <<part.header>>
           c == part.content
           A == HeaderBytes(part.header)
<1>1. Str(X) /\ Str(D) /\ Str(H) /\ Str(c) /\ Str(t)
  BY ConstantsTyped DEF Str
<1>2. A = Cat(Cat(Cat(X, H), X), X)
  BY DEF HeaderBytes, CRLF, Cat
<1>3. PartBytes(part) = Cat(Cat(Cat(Cat(Cat(Cat(D, X), H), X), X), c), X)
  BY DEF PartBytes, Cat
<1> HIDE DEF X, D, H, c, A
<1>4. PartBytes(part) = Cat(Cat(Cat(D, A), c), X) /\ Str(A)
  BY <1>1, <1>2, <1>3, Laws DEF CatLaws
<1>5. Cat(Cat(Cat(Cat(D, A), c), X), t) = Cat(D, Cat(A, Cat(c, Cat(X, t))))
  BY <1>1, <1>4, Laws DEF CatLaws
<1>6. Str(PartBytes(part)) /\ Cat(PartBytes(part), t) = Cat(D, Cat(A, Cat(c, Cat(X, t))))
  BY <1>1, <1>4, <1>5, Laws DEF CatLaws
<1> QED
  BY <1>6 DEF X, D, c, A, Str, Cat

LEMMA BodyTyped ==
    ASSUME NEW f \in AllForms
    PROVE  \A k \in 1..(Len(f.parts) + 1) : BodyFrom(f)[k] \in Seq(Bytes)
<1> DEFINE N == Len(f.parts)
           T == BodyFrom(f)
           P == {m \in Nat : m <= N => T[N + 1 - m] \in Seq(Bytes)}
<1>1. N \in Nat /\ f.epilogue \in Seq(Bytes)
      /\ \A k \in 1..N : f.parts[k].header \in Bytes /\ f.parts[k].content \in Seq(Bytes)
  BY FormTyped
<1>2. /\ T[N + 1] = Delimiter \o <<"-", "-">> \o CRLF \o f.epilogue
      /\ \A k \in 1..N : T[k] = PartBytes(f.parts[k]) \o T[k + 1]
  BY ZenonT(60), BodyDefined
<1> HIDE DEF N, T
<1>3. 0 \in P
  <2>1. Delimiter \o <<"-", "-">> \in Seq(Bytes)
    BY ConstantsTyped, Joining
  <2>2. Delimiter \o <<"-", "-">> \o CRLF \in Seq(Bytes)
    BY <2>1, ConstantsTyped, Joining
  <2>3. T[N + 1] \in Seq(Bytes)
    BY <1>1, <1>2, <2>2, Joining
  <2>4. N + 1 - 0 = N + 1
    BY <1>1
  <2> QED
    BY <2>3, <2>4
<1>4. ASSUME NEW m \in Nat, m \in P, m < N
      PROVE  m + 1 \in P
  <2>1. N - m \in 1..N /\ N + 1 - m = (N - m) + 1 /\ N + 1 - (m + 1) = N - m /\ m <= N
    BY <1>1, <1>4
  <2>2. T[(N - m) + 1] \in Seq(Bytes)
    BY <1>4, <2>1
  <2>3. PartBytes(f.parts[N - m]) \in Seq(Bytes)
    BY ZenonT(60), <1>1, <2>1, <2>2, PartIs
  <2>4. T[N - m] \in Seq(Bytes)
    BY ZenonT(60), <1>2, <2>1, <2>2, <2>3, Joining
  <2> QED
    BY <2>1, <2>4
<1>5. \A m \in 0..N : m \in P
  <2>1. P \in SUBSET Nat /\ \A m \in Nat : m \in P /\ m < N => m + 1 \in P
    BY <1>4
  <2> HIDE DEF P
  <2> QED
    BY ZenonT(60), <1>1, <1>3, <2>1, Induction
<1>6. ASSUME NEW k \in 1..(N + 1)
      PROVE  T[k] \in Seq(Bytes)
  <2>1. N + 1 - k \in 0..N /\ N + 1 - (N + 1 - k) = k
    BY SMTT(60), <1>1
  <2> QED
    BY <1>5, <2>1
<1> QED
  BY <1>6 DEF N, T

\* What comes after the boundary of a part, and after the last one.
LEMMA NextIs ==
    ASSUME NEW f \in AllForms, NEW k \in 1..(Len(f.parts) + 1)
    PROVE  /\ k <= Len(f.parts) =>
                /\ k + 1 \in 1..(Len(f.parts) + 1) /\ BodyFrom(f)[k + 1] \in Seq(Bytes)
                /\ BodyFrom(f)[k] = Delimiter \o (HeaderBytes(f.parts[k].header)
                                      \o (f.parts[k].content \o (CRLF \o BodyFrom(f)[k + 1])))
           /\ k = Len(f.parts) + 1 =>
                BodyFrom(f)[k] = Delimiter \o (<<"-", "-">> \o (CRLF \o f.epilogue))
<1>1. Len(f.parts) \in Nat /\ f.epilogue \in Seq(Bytes)
  BY FormTyped
<1>2. ASSUME k <= Len(f.parts)
      PROVE  /\ k + 1 \in 1..(Len(f.parts) + 1) /\ BodyFrom(f)[k + 1] \in Seq(Bytes)
             /\ BodyFrom(f)[k] = Delimiter \o (HeaderBytes(f.parts[k].header)
                                   \o (f.parts[k].content \o (CRLF \o BodyFrom(f)[k + 1])))
  <2>1. k \in 1..Len(f.parts) /\ k + 1 \in 1..(Len(f.parts) + 1)
    BY <1>1, <1>2
  <2>2. BodyFrom(f)[k + 1] \in Seq(Bytes)
    BY <2>1, BodyTyped
  <2>3. BodyFrom(f)[k] = PartBytes(f.parts[k]) \o BodyFrom(f)[k + 1]
    BY ZenonT(60), <2>1, BodyDefined
  <2>4. f.parts[k].header \in Bytes /\ f.parts[k].content \in Seq(Bytes)
    BY <2>1, FormTyped
  <2> QED
    BY ZenonT(60), <2>1, <2>2, <2>3, <2>4, PartIs
<1>3. ASSUME k = Len(f.parts) + 1
      PROVE  BodyFrom(f)[k] = Delimiter \o (<<"-", "-">> \o (CRLF \o f.epilogue))
  <2>1. BodyFrom(f)[k] = Delimiter \o <<"-", "-">> \o CRLF \o f.epilogue
    BY ZenonT(60), <1>3, BodyDefined
  <2> DEFINE D == Delimiter
             m == <<"-", "-">>
             X == CRLF
             e == f.epilogue
  <2>2. Str(D) /\ Str(m) /\ Str(X) /\ Str(e)
    BY <1>1, ConstantsTyped DEF Str
  <2>3. BodyFrom(f)[k] = Cat(Cat(Cat(D, m), X), e)
    BY <2>1 DEF Cat
  <2> HIDE DEF D, m, X, e
  <2>4. Cat(Cat(Cat(D, m), X), e) = Cat(D, Cat(m, Cat(X, e)))
    BY <2>2, Laws DEF CatLaws
  <2> QED
    BY ZenonT(60), <2>3, <2>4 DEF D, m, X, e, Cat
<1> QED
  BY ZenonT(60), <1>2, <1>3

(***************************************************************************)
(* What is found in the collector                                          *)
(***************************************************************************)
LEMMA OccurrenceMeans ==
    ASSUME NEW B, NEW d \in Seq(B), NEW s \in Seq(B), NEW j
    PROVE  j \in Occurrences(d, s) <=>
             j \in 1..(Len(s) + 1 - Len(d)) /\ \A k \in 1..Len(d) : s[j + k - 1] = d[k]
<1>1. ASSUME NEW m \in 1..(Len(s) + 1 - Len(d))
      PROVE  SubSeq(s, m, m + Len(d) - 1) = d <=> \A k \in 1..Len(d) : s[m + k - 1] = d[k]
  <2> DEFINE a == SubSeq(s, m, m + Len(d) - 1)
  <2>1. a \in Seq(B) /\ Len(a) = Len(d) /\ \A k \in 1..Len(d) : a[k] = s[m + k - 1]
    BY SMTT(60)
  <2> HIDE DEF a
  <2>2. a = d <=> \A k \in 1..Len(d) : a[k] = d[k]
    BY <2>1, Equal
  <2>3. a = d <=> \A k \in 1..Len(d) : s[m + k - 1] = d[k]
    BY <2>1, <2>2
  <2> QED
    BY <2>3 DEF a
<1> QED
  BY ZenonT(60), <1>1 DEF Occurrences

LEMMA FirstIs ==
    ASSUME NEW S \in SUBSET (Nat \ {0}), NEW n \in S, \A m \in S : n <= m
    PROVE  FirstOf(S) = n
<1> DEFINE least(a) == a \in S /\ \A m \in S : a <= m
<1>1. \A a : least(a) => a = n
  OBVIOUS
<1>2. FirstOf(S) = CHOOSE a : least(a)
  BY DEF FirstOf
<1>3. least(n)
  OBVIOUS
<1> HIDE DEF least
<1> QED
  BY <1>1, <1>2, <1>3

\* The first d in the beginning s of a sequence with d after q: no earlier one
\* begins in q, as no element of d is the last of q.
LEMMA FirstAfter ==
    ASSUME NEW B, NEW d \in Seq(B), NEW q \in Seq(B), NEW y \in Seq(B), NEW s \in Seq(B), NEW t \in Seq(B),
           Len(d) # 0, Occurrences(d, q) = {},
           q # <<>> => \A k \in 1..Len(d) : d[k] # q[Len(q)],
           s \o t = q \o (d \o y)
    PROVE  FirstOf(Occurrences(d, s)) = IF Len(q) + Len(d) <= Len(s) THEN Len(q) + 1 ELSE 0
<1> DEFINE x == d \o y
           w == q \o x
           L == Len(q)
<1>1. /\ x \in Seq(B) /\ \A k \in 1..Len(d) : x[k] = d[k]
      /\ Len(x) = Len(d) + Len(y) /\ Len(d) \in Nat /\ Len(y) \in Nat
  BY Joining
<1>2. /\ Len(s) \in Nat /\ L \in Nat
      /\ \A k \in 1..L : w[k] = q[k]
      /\ \A k \in 1..Len(x) : w[L + k] = x[k]
  BY <1>1, Joining
<1>3. /\ \A k \in 1..Len(s) : s[k] = w[k]
      /\ Len(s) + Len(t) = L + Len(x)
  BY SMTT(60), <1>1, Beginning
<1> HIDE DEF x, w
<1>4. \A k \in 1..L : k <= Len(s) => s[k] = q[k]
  BY <1>2, <1>3
<1>5. \A k \in 1..Len(d) : L + k <= Len(s) => s[L + k] = d[k]
  BY <1>1, <1>2, <1>3
<1>6. ASSUME NEW j \in Occurrences(d, s)
      PROVE  j \in Nat /\ j > L /\ L + Len(d) <= Len(s)
  <2>1. j \in 1..(Len(s) + 1 - Len(d)) /\ \A k \in 1..Len(d) : s[j + k - 1] = d[k]
    BY OccurrenceMeans
  <2>2. CASE j > L
    BY <1>1, <1>2, <2>1, <2>2
  <2>3. CASE j <= L /\ j + Len(d) - 1 <= L
    <3>1. j \in 1..(Len(q) + 1 - Len(d))
      BY <1>1, <1>2, <2>1, <2>3
    <3>2. ASSUME NEW k \in 1..Len(d)
          PROVE  q[j + k - 1] = d[k]
      <4>1. j + k - 1 \in 1..L /\ j + k - 1 <= Len(s)
        BY SMTT(60), <1>1, <1>2, <2>1, <2>3
      <4> QED
        BY ZenonT(60), <1>4, <2>1, <4>1
    <3>3. j \in Occurrences(d, q)
      BY ZenonT(60), <3>1, <3>2, OccurrenceMeans
    <3> QED
      BY <3>3
  <2>4. CASE j <= L /\ j + Len(d) - 1 > L
    <3>1. L + 1 - j \in 1..Len(d) /\ j + (L + 1 - j) - 1 = L /\ L \in 1..L /\ L <= Len(s) /\ L # 0
      BY SMTT(60), <1>1, <1>2, <2>1, <2>4
    <3>2. s[L] = d[L + 1 - j] /\ s[L] = q[L] /\ q # <<>>
      BY <1>4, <2>1, <3>1
    <3> QED
      BY ZenonT(60), <3>1, <3>2
  <2>5. j > L \/ (j <= L /\ j + Len(d) - 1 <= L) \/ (j <= L /\ j + Len(d) - 1 > L)
    BY SMTT(60), <1>1, <1>2, <2>1
  <2> QED
    BY ZenonT(60), <2>2, <2>3, <2>4, <2>5
<1>7. CASE L + Len(d) <= Len(s)
  <2>1. L + 1 \in 1..(Len(s) + 1 - Len(d))
    BY SMTT(60), <1>1, <1>2, <1>7
  <2>2. \A k \in 1..Len(d) : s[(L + 1) + k - 1] = d[k]
    <3> SUFFICES ASSUME NEW k \in 1..Len(d)
                 PROVE  s[(L + 1) + k - 1] = d[k]
      OBVIOUS
    <3>1. (L + 1) + k - 1 = L + k /\ L + k <= Len(s)
      BY <1>1, <1>2, <1>7
    <3> QED
      BY <1>5, <3>1
  <2>3. L + 1 \in Occurrences(d, s)
    BY ZenonT(60), <2>1, <2>2, OccurrenceMeans
  <2>4. Occurrences(d, s) \in SUBSET (Nat \ {0}) /\ \A m \in Occurrences(d, s) : L + 1 <= m
    BY SMTT(60), <1>2, <1>6
  <2>5. FirstOf(Occurrences(d, s)) = L + 1
    BY ZenonT(60), <2>3, <2>4, FirstIs
  <2> QED
    BY <1>7, <2>5
<1>8. CASE ~(L + Len(d) <= Len(s))
  <2>1. Occurrences(d, s) = {}
    BY <1>6, <1>8
  <2> QED
    BY <1>8, <2>1 DEF FirstOf
<1> QED
  BY <1>7, <1>8

\* An end of a sequence has no more occurrences than the sequence.
LEMMA NoneBeyond ==
    ASSUME NEW B, NEW d \in Seq(B), NEW s \in Seq(B), NEW n \in 0..Len(s), Occurrences(d, s) = {}
    PROVE  Occurrences(d, Beyond(s, n)) = {}
<1> DEFINE a == Beyond(s, n)
<1>1. a \in Seq(B) /\ Len(a) = Len(s) - n /\ \A k \in 1..(Len(s) - n) : a[k] = s[n + k]
  BY Cutting
<1> HIDE DEF a
<1> SUFFICES ASSUME NEW j \in Occurrences(d, a)
             PROVE  FALSE
  BY DEF a
<1>2. j \in 1..(Len(a) + 1 - Len(d)) /\ \A k \in 1..Len(d) : a[j + k - 1] = d[k]
  BY <1>1, OccurrenceMeans
<1>3. n + j \in 1..(Len(s) + 1 - Len(d)) /\ Len(d) \in Nat /\ Len(s) \in Nat
  BY <1>1, <1>2
<1>4. \A k \in 1..Len(d) : s[(n + j) + k - 1] = d[k]
  <2> SUFFICES ASSUME NEW k \in 1..Len(d)
               PROVE  s[(n + j) + k - 1] = d[k]
    OBVIOUS
  <2>1. j + k - 1 \in 1..(Len(s) - n) /\ n + (j + k - 1) = (n + j) + k - 1
    BY <1>1, <1>2, <1>3
  <2> QED
    BY ZenonT(60), <1>1, <1>2, <2>1
<1>5. n + j \in Occurrences(d, s)
  BY ZenonT(60), <1>3, <1>4, OccurrenceMeans
<1> QED
  BY <1>5

\* Nor has its beginning.
LEMMA NoneBefore ==
    ASSUME NEW B, NEW d \in Seq(B), NEW s \in Seq(B), NEW t \in Seq(B), Occurrences(d, s \o t) = {}
    PROVE  Occurrences(d, s) = {}
<1> DEFINE w == s \o t
<1>1. /\ w \in Seq(B) /\ Len(w) = Len(s) + Len(t) /\ Len(s) \in Nat /\ Len(t) \in Nat
      /\ \A k \in 1..Len(s) : w[k] = s[k]
  BY Joining
<1> HIDE DEF w
<1> SUFFICES ASSUME NEW j \in Occurrences(d, s)
             PROVE  FALSE
  OBVIOUS
<1>2. j \in 1..(Len(s) + 1 - Len(d)) /\ \A k \in 1..Len(d) : s[j + k - 1] = d[k]
  BY OccurrenceMeans
<1>3. j \in 1..(Len(w) + 1 - Len(d)) /\ Len(d) \in Nat
  BY <1>1, <1>2
<1>4. \A k \in 1..Len(d) : w[j + k - 1] = d[k]
  <2> SUFFICES ASSUME NEW k \in 1..Len(d)
               PROVE  w[j + k - 1] = d[k]
    OBVIOUS
  <2>1. j + k - 1 \in 1..Len(s)
    BY <1>1, <1>2, <1>3
  <2> QED
    BY ZenonT(60), <1>1, <1>2, <2>1
<1>5. j \in Occurrences(d, w)
  BY ZenonT(60), <1>1, <1>3, <1>4, OccurrenceMeans
<1> QED
  BY <1>5 DEF w

\* The line end before a boundary has none of its bytes.
LEMMA NoneInLine ==
    ASSUME NEW s \in Seq(Bytes), Occurrences(Delimiter, s) = {}
    PROVE  s \o CRLF \in Seq(Bytes) /\ Len(s \o CRLF) = Len(s) + 2
           /\ (s \o CRLF)[Len(s \o CRLF)] = "lf" /\ s \o CRLF # <<>>
           /\ Occurrences(Delimiter, s \o CRLF) = {}
<1> DEFINE w == s \o CRLF
           d == Delimiter
<1>1. /\ w \in Seq(Bytes) /\ Len(w) = Len(s) + 2 /\ Len(s) \in Nat
      /\ \A k \in 1..Len(s) : w[k] = s[k]
      /\ \A k \in 1..2 : w[Len(s) + k] = CRLF[k]
  <2>1. CRLF \in Seq(Bytes) /\ Len(CRLF) = 2
    BY ConstantsTyped
  <2>2. /\ w \in Seq(Bytes) /\ Len(w) = Len(s) + Len(CRLF) /\ Len(s) \in Nat
        /\ \A k \in 1..Len(s) : w[k] = s[k]
        /\ \A k \in 1..Len(CRLF) : w[Len(s) + k] = CRLF[k]
    BY <2>1, Joining
  <2> QED
    BY <2>1, <2>2
<1> HIDE DEF w
<1>2. w[Len(s) + 1] = "cr" /\ w[Len(s) + 2] = "lf"
  BY <1>1, ConstantsTyped
<1>3. d \in Seq(Bytes) /\ Len(d) \in Nat \ {0} /\ \A k \in 1..Len(d) : d[k] # "cr" /\ d[k] # "lf"
  BY ConstantsTyped
<1>4. Occurrences(d, s) = {}
  OBVIOUS
<1> HIDE DEF d
<1>5. ASSUME NEW j \in Occurrences(d, w)
      PROVE  FALSE
  <2>1. j \in 1..(Len(w) + 1 - Len(d)) /\ \A k \in 1..Len(d) : w[j + k - 1] = d[k]
    BY SMTT(60), <1>1, <1>3, OccurrenceMeans
  <2>2. j + Len(d) - 1 # Len(s) + 1 /\ j + Len(d) - 1 # Len(s) + 2
    BY <1>1, <1>2, <1>3, <2>1
  <2>3. j + Len(d) - 1 <= Len(s)
    BY <1>1, <1>3, <2>1, <2>2
  <2>4. j \in 1..(Len(s) + 1 - Len(d))
    BY <1>1, <1>3, <2>1, <2>3
  <2>5. \A k \in 1..Len(d) : s[j + k - 1] = d[k]
    <3> SUFFICES ASSUME NEW k \in 1..Len(d)
                 PROVE  s[j + k - 1] = d[k]
      OBVIOUS
    <3>1. j + k - 1 \in 1..Len(s)
      BY <1>1, <1>3, <2>1, <2>3
    <3> QED
      BY ZenonT(60), <1>1, <2>1, <3>1
  <2>6. j \in Occurrences(d, s)
    BY ZenonT(60), <1>3, <2>4, <2>5, OccurrenceMeans
  <2> QED
    BY <1>4, <2>6
<1>6. w # <<>>
  BY <1>1
<1> QED
  BY <1>1, <1>2, <1>5, <1>6 DEF w, d

(***************************************************************************)
(* What is found at a place in the body                                    *)
(***************************************************************************)
LEMMA PlaceTyped ==
    ASSUME TypeOK, NEW p \in Parsers
    PROVE  /\ form[p] \in AllForms /\ DataCollector[p] \in Seq(Bytes) /\ net[p] \in Seq(Bytes)
           /\ Len(object[p]) \in Nat /\ Len(DataCollector[p]) \in Nat
           /\ Left(p) \in Seq(Bytes) /\ LineEnd(p) \in Seq(Bytes)
           /\ form[p].type = "bare" => Boundary(p) = Delimiter
           /\ form[p].type = "quoted" => Boundary(p) = Quoted
<1>1. form[p] \in AllForms /\ DataCollector[p] \in Seq(Bytes) /\ net[p] \in Seq(Bytes) /\ object[p] \in Seq(Field)
  BY DEF TypeOK
<1>2. Left(p) \in Seq(Bytes)
  BY <1>1, Joining DEF Left
<1>3. LineEnd(p) \in Seq(Bytes)
  BY ConstantsTyped, EmptyJoin DEF LineEnd
<1>4. Len(object[p]) \in Nat /\ Len(DataCollector[p]) \in Nat
  BY <1>1
<1> QED
  BY <1>1, <1>2, <1>3, <1>4 DEF Boundary

LEMMA NextTyped ==
    ASSUME TypeOK, NEW p \in Parsers, Len(object[p]) <= Len(form[p].parts)
    PROVE  /\ Len(object[p]) + 1 \in 1..(Len(form[p].parts) + 1)
           /\ NextPart(p) \in Seq(Bytes)
           /\ \E y \in Seq(Bytes) : NextPart(p) = Delimiter \o y
<1> DEFINE k == Len(object[p]) + 1
           f == form[p]
<1>1. f \in AllForms /\ Len(object[p]) \in Nat /\ Len(f.parts) \in Nat /\ f.epilogue \in Seq(Bytes)
  BY PlaceTyped, FormTyped
<1>2. k \in 1..(Len(f.parts) + 1)
  BY <1>1
<1>3. BodyFrom(f)[k] \in Seq(Bytes)
  BY ZenonT(60), <1>1, <1>2, BodyTyped
<1>4. CASE k <= Len(f.parts)
  <2>1. /\ BodyFrom(f)[k + 1] \in Seq(Bytes)
        /\ BodyFrom(f)[k] = Delimiter \o (HeaderBytes(f.parts[k].header)
                              \o (f.parts[k].content \o (CRLF \o BodyFrom(f)[k + 1])))
    BY ZenonT(60), <1>1, <1>2, <1>4, NextIs
  <2>2. k \in 1..Len(f.parts)
    BY <1>1, <1>4
  <2>3. HeaderBytes(f.parts[k].header) \in Seq(Bytes) /\ f.parts[k].content \in Seq(Bytes)
    BY ZenonT(60), <1>1, <2>2, FormTyped, HeaderTyped
  <2>4. CRLF \o BodyFrom(f)[k + 1] \in Seq(Bytes)
    BY ZenonT(60), <2>1, ConstantsTyped, Joining
  <2>5. f.parts[k].content \o (CRLF \o BodyFrom(f)[k + 1]) \in Seq(Bytes)
    BY <2>3, <2>4, Joining
  <2>6. HeaderBytes(f.parts[k].header) \o (f.parts[k].content \o (CRLF \o BodyFrom(f)[k + 1])) \in Seq(Bytes)
    BY <2>3, <2>5, Joining
  <2> QED
    BY ZenonT(60), <1>2, <1>3, <2>1, <2>6 DEF NextPart
<1>5. CASE k = Len(f.parts) + 1
  <2>1. BodyFrom(f)[k] = Delimiter \o (<<"-", "-">> \o (CRLF \o f.epilogue))
    BY ZenonT(60), <1>1, <1>2, <1>5, NextIs
  <2>2. CRLF \o f.epilogue \in Seq(Bytes)
    BY <1>1, ConstantsTyped, Joining
  <2>3. <<"-", "-">> \o (CRLF \o f.epilogue) \in Seq(Bytes)
    BY <2>2, ConstantsTyped, Joining
  <2> QED
    BY ZenonT(60), <1>2, <1>3, <2>1, <2>3 DEF NextPart
<1>6. k <= Len(f.parts) \/ k = Len(f.parts) + 1
  BY <1>1, <1>2
<1> QED
  BY ZenonT(60), <1>4, <1>5, <1>6

\* No boundary begins in what is to come before it.
LEMMA NoneInEmpty ==
    Occurrences(Delimiter, <<>>) = {} /\ Occurrences(Delimiter, CRLF) = {}
<1>1. <<>> \in Seq(Bytes) /\ <<>> \o CRLF = CRLF
  BY ConstantsTyped, EmptyJoin
<1>2. Occurrences(Delimiter, <<>>) = {}
  <2>1. Len(<<>>) = 0 /\ Len(Delimiter) \in Nat \ {0}
    BY ConstantsTyped
  <2>2. 1..(Len(<<>>) + 1 - Len(Delimiter)) = {}
    BY <2>1
  <2> QED
    BY <2>2 DEF Occurrences
<1>3. Occurrences(Delimiter, <<>> \o CRLF) = {}
  BY ZenonT(60), <1>1, <1>2, NoneInLine
<1> QED
  BY <1>1, <1>2, <1>3

\* The boundary of the next part, when FindStartingBoundary() finds one.
LEMMA StartFound ==
    ASSUME TypeOK, NEW p \in Parsers, form[p].type = "bare", Placed(p),
           CurrentStatus[p] = "LookingForStartingBoundary"
    PROVE  LET n == BoundaryPositionInDataCollector(p)
               m == n - 1 + Len(Boundary(p))
           IN  /\ n = IF Len(LineEnd(p)) + Len(Delimiter) <= Len(DataCollector[p]) THEN Len(LineEnd(p)) + 1 ELSE 0
               /\ n # 0 => /\ m \in 0..Len(DataCollector[p])
                           /\ Delimiter \o (Beyond(DataCollector[p], m) \o net[p]) = NextPart(p)
<1> DEFINE q == LineEnd(p)
           d == Delimiter
           s == DataCollector[p]
           t == net[p]
           n == BoundaryPositionInDataCollector(p)
           m == n - 1 + Len(d)
<1>1. /\ s \in Seq(Bytes) /\ t \in Seq(Bytes) /\ q \in Seq(Bytes) /\ Boundary(p) = d
      /\ Len(s) \in Nat
  BY PlaceTyped
<1>2. PICK y \in Seq(Bytes) : NextPart(p) = d \o y
  BY ZenonT(60), NextTyped DEF Placed
<1>3. s \o t = q \o (d \o y)
  BY ZenonT(60), <1>2 DEF Placed, BeforeBoundary, Left
<1>4. d \in Seq(Bytes) /\ Len(d) \in Nat \ {0} /\ Occurrences(d, q) = {}
      /\ (q # <<>> => \A k \in 1..Len(d) : d[k] # q[Len(q)])
  BY ZenonT(60), ConstantsTyped, NoneInEmpty DEF LineEnd
<1>5. n = FirstOf(Occurrences(d, s))
  BY <1>1 DEF BoundaryPositionInDataCollector
<1> HIDE DEF q, d, s, t, n
<1>6. Len(q) \in Nat
  BY <1>1
<1>7. n = IF Len(q) + Len(d) <= Len(s) THEN Len(q) + 1 ELSE 0
  <2>1. Len(d) # 0
    BY <1>4
  <2>2. FirstOf(Occurrences(d, s)) = IF Len(q) + Len(d) <= Len(s) THEN Len(q) + 1 ELSE 0
    BY ZenonT(60), <1>1, <1>2, <1>3, <1>4, <2>1, FirstAfter
  <2> QED
    BY <1>5, <2>2
<1>8. ASSUME n # 0
      PROVE  m \in 0..Len(s) /\ Beyond(s, m) \o t = y
  <2>1. m = Len(q) + Len(d) /\ m \in 0..Len(s)
    BY <1>1, <1>4, <1>6, <1>7, <1>8
  <2>2. Beyond(s \o t, m) = Beyond(s, m) \o t
    BY ZenonT(60), <1>1, <2>1, BeyondFirst
  <2>3. q \o d \in Seq(Bytes) /\ Len(q \o d) = m
    BY <1>1, <1>4, <2>1, Joining
  <2>4. q \o (d \o y) = (q \o d) \o y
    BY ZenonT(60), <1>1, <1>2, <1>4, RegroupBytes
  <2>5. Beyond((q \o d) \o y, m) = y
    BY ZenonT(60), <1>2, <2>3, BeyondAll
  <2> QED
    BY <1>3, <2>1, <2>2, <2>4, <2>5
<1>9. n # 0 => m \in 0..Len(s) /\ d \o (Beyond(s, m) \o t) = NextPart(p)
  BY ZenonT(60), <1>2, <1>8
<1> QED
  BY ZenonT(60), <1>1, <1>7, <1>9 DEF q, d, s, t, n

\* The empty line that ends the headers h comes right after them, and they are
\* all that _ParseHeaders() is given.
LEMMA HeadersFound ==
    ASSUME NEW h \in Headers, NEW s \in Seq(Bytes), NEW t \in Seq(Bytes), NEW y \in Seq(Bytes),
           s \o t = HeaderBytes(h) \o y
    PROVE  /\ FirstOf(Occurrences(CRLF \o CRLF, s)) = IF 7 <= Len(s) THEN 4 ELSE 0
           /\ 7 <= Len(s) => /\ {g \in Headers : Contains(SubSeq(s, 1, 3), g)} = {h}
                             /\ Beyond(s, 7) \o t = y
<1> DEFINE q == <<"cr", "lf", h>>
           d == CRLF \o CRLF
           H == HeaderBytes(h)
<1>1. "cr" \in Bytes /\ "lf" \in Bytes /\ h \in Bytes /\ h # "cr" /\ h # "lf"
      /\ "cr" \notin Headers /\ "lf" \notin Headers
  BY ClientAssumption
<1>2. q \in Seq(Bytes) /\ Len(q) = 3 /\ q[1] = "cr" /\ q[2] = "lf" /\ q[3] = h
  BY <1>1
<1>3. d \in Seq(Bytes) /\ Len(d) = 4 /\ \A k \in 1..Len(d) : d[k] # h
  BY <1>1 DEF CRLF
<1>4. H \in Seq(Bytes) /\ Len(H) = 7 /\ H = q \o d
  BY <1>1 DEF HeaderBytes, CRLF
<1> HIDE DEF q, d, H
<1>5. Len(s) \in Nat /\ s \o t = H \o y
  BY DEF H
<1>6. H \o y = q \o (d \o y)
  BY ZenonT(60), <1>2, <1>3, <1>4, RegroupBytes
<1>7. FirstOf(Occurrences(d, s)) = IF 7 <= Len(s) THEN 4 ELSE 0
  <2>1. Occurrences(d, q) = {}
    <3>1. 1..(Len(q) + 1 - Len(d)) = {}
      BY <1>2, <1>3
    <3> QED
      BY <3>1 DEF Occurrences
  <2>2. Len(d) # 0 /\ (q # <<>> => \A k \in 1..Len(d) : d[k] # q[Len(q)])
    BY <1>2, <1>3
  <2>3. s \o t = q \o (d \o y)
    BY <1>5, <1>6
  <2>4. FirstOf(Occurrences(d, s)) = IF Len(q) + Len(d) <= Len(s) THEN Len(q) + 1 ELSE 0
    BY ZenonT(60), <1>2, <1>3, <2>1, <2>2, <2>3, FirstAfter
  <2> QED
    BY <1>2, <1>3, <2>4
<1>8. ASSUME 7 <= Len(s)
      PROVE  {g \in Headers : Contains(SubSeq(s, 1, 3), g)} = {h}
  <2>1. 3 \in 0..Len(s)
    BY <1>5, <1>8
  <2> DEFINE a == SubSeq(s, 1, 3)
  <2>2. Len(a) = 3 /\ \A k \in 1..3 : a[k] = s[k]
    BY <2>1, Cutting
  <2>3. \A k \in 1..Len(s) : s[k] = (H \o y)[k]
    BY SMTT(60), <1>4, <1>5, Beginning
  <2>4. \A k \in 1..3 : q[k] = (q \o (d \o y))[k]
    <3>1. d \o y \in Seq(Bytes)
      BY <1>3, Joining
    <3>2. \A k \in 1..Len(q) : (q \o (d \o y))[k] = q[k]
      BY ZenonT(60), <1>2, <3>1, Joining
    <3> QED
      BY ZenonT(60), <1>2, <3>2
  <2>5. \A k \in 1..3 : a[k] = q[k]
    <3>1. \A k \in 1..3 : k \in 1..Len(s)
      BY <1>5, <1>8
    <3> QED
      BY ZenonT(60), <1>6, <2>2, <2>3, <2>4, <3>1
  <2> HIDE DEF a
  <2>6. \A g : Contains(a, g) <=> \E k \in 1..3 : a[k] = g
    BY <2>2 DEF Contains
  <2>7. \A g : Contains(a, g) <=> g \in {"cr", "lf", h}
    <3>1. a[1] = "cr" /\ a[2] = "lf" /\ a[3] = h
      BY <1>2, <2>5
    <3>2. 1..3 = {1, 2, 3}
      OBVIOUS
    <3> QED
      BY <2>6, <3>1, <3>2
  <2>8. {g \in Headers : Contains(a, g)} = {h}
    BY ZenonT(60), <1>1, <2>7
  <2> QED
    BY <2>8 DEF a
<1>9. ASSUME 7 <= Len(s)
      PROVE  Beyond(s, 7) \o t = y
  <2>1. 7 \in 0..Len(s)
    BY <1>5, <1>9
  <2>2. Beyond(s \o t, 7) = Beyond(s, 7) \o t
    BY ZenonT(60), <2>1, BeyondFirst
  <2>3. Beyond(H \o y, 7) = y
    BY ZenonT(60), <1>4, BeyondAll
  <2> QED
    BY <1>5, <2>2, <2>3
<1> QED
  BY ZenonT(60), <1>7, <1>8, <1>9 DEF d

\* After the last boundary there are none.
LEMMA NoHeadersFound ==
    ASSUME NEW s \in Seq(Bytes), NEW t \in Seq(Bytes), NEW e \in Seq(Bytes \ Headers),
           s \o t = <<"-", "-">> \o (CRLF \o e), NEW n \in Nat, n <= Len(s)
    PROVE  {g \in Headers : Contains(SubSeq(s, 1, n), g)} = {}
<1> DEFINE B == Bytes \ Headers
           w == <<"-", "-">> \o (CRLF \o e)
<1>1. "cr" \in B /\ "lf" \in B /\ "-" \in B
  BY ClientAssumption
<1>2. <<"-", "-">> \in Seq(B) /\ CRLF \in Seq(B) /\ e \in Seq(B)
  BY <1>1 DEF CRLF
<1>3. w \in Seq(B)
  <2>1. CRLF \o e \in Seq(B)
    BY <1>2, Joining
  <2> QED
    BY <1>2, <2>1, Joining
<1>4. /\ Len(w) = Len(s) + Len(t) /\ Len(s) \in Nat /\ Len(t) \in Nat
      /\ \A k \in 1..Len(s) : w[k] = s[k]
  <2>1. /\ Len(s \o t) = Len(s) + Len(t) /\ Len(s) \in Nat /\ Len(t) \in Nat
        /\ \A k \in 1..Len(s) : (s \o t)[k] = s[k]
    BY SMTT(60), Joining
  <2> QED
    BY <2>1
<1> HIDE DEF w, B
<1>5. \A k \in 1..Len(s) : s[k] \in B
  BY <1>3, <1>4
<1> DEFINE a == SubSeq(s, 1, n)
<1>6. Len(a) = n /\ \A k \in 1..n : a[k] = s[k]
  <2>1. n \in 0..Len(s)
    BY <1>4
  <2> QED
    BY <2>1, Cutting
<1> HIDE DEF a
<1>7. \A g : Contains(a, g) => g \in B
  BY SMTT(60), <1>4, <1>5, <1>6 DEF Contains
<1>8. {g \in Headers : Contains(a, g)} = {}
  BY <1>7 DEF B
<1> QED
  BY <1>8 DEF a

LEMMA ReceivedTyped ==
    ASSUME TypeOK, OpenInv, NEW p \in Parsers, NEW k \in 1..Len(object[p])
    PROVE  /\ Received(p, k) \in Seq(Bytes) /\ object[p][k] \in Field
           /\ object[p][k].is_open => /\ object[p][k].TempFile \in Temps
                                      /\ files[object[p][k].TempFile] \in Seq(Bytes)
<1> DEFINE f == object[p][k]
<1>1. f \in Field
  <2>1. object[p] \in Seq(Field)
    BY DEF TypeOK
  <2> QED
    BY <2>1
<1>2. f.content \in Seq(Bytes) /\ <<>> \in Seq(Bytes)
  BY <1>1 DEF Field
<1>3. f.is_open => f.TempFile \in Temps /\ files[f.TempFile] \in Seq(Bytes)
  <2>1. f.is_open => f.TempFile \in Temps
    <3>1. f.is_open => f.TempFile # 0
      BY SMTT(60) DEF TypeOK
    <3> QED
      BY <1>1, <3>1 DEF Field
  <2>2. f.is_open => files[f.TempFile] # Absent
    BY DEF OpenInv, Opened
  <2> QED
    BY <2>1, <2>2 DEF TypeOK
<1> QED
  BY <1>1, <1>2, <1>3 DEF Received

\* What is to come of the content of the last field: nothing of a boundary is
\* in it, and what the collector has of it is before the line end of the next.
LEMMA ContentFound ==
    ASSUME TypeOK, OpenInv, NEW p \in Parsers, form[p].type = "bare", Placed(p),
           CurrentStatus[p] = "ProcessingContentOfTheField"
    PROVE  LET K == Len(object[p])
               R == Received(p, K)
               C == PartContent(p, K)
               rest == Beyond(C, Len(R))
               n == DataLengthToSendToField(p)
           IN  /\ K \in 1..Len(object[p]) /\ R \in Seq(Bytes) /\ C \in Seq(Bytes) /\ rest \in Seq(Bytes)
               /\ Len(R) \in 0..Len(C) /\ R \o rest = C
               /\ CRLF \o NextPart(p) \in Seq(Bytes)
               /\ DataCollector[p] \o net[p] = rest \o (CRLF \o NextPart(p))
               /\ n \in Int /\ n <= Len(rest) /\ n <= Len(DataCollector[p])
               /\ BoundaryPositionInDataCollector(p) # 0 => n = Len(rest)
               /\ BoundaryPositionInDataCollector(p) = 0 =>
                    Len(DataCollector[p]) < Len(rest \o (CRLF \o NextPart(p)))
<1> DEFINE K == Len(object[p])
           R == Received(p, K)
           C == PartContent(p, K)
           rest == Beyond(C, Len(R))
           z == CRLF \o NextPart(p)
           d == Delimiter
           s == DataCollector[p]
           t == net[p]
           b == BoundaryPositionInDataCollector(p)
           n == DataLengthToSendToField(p)
<1>1. /\ s \in Seq(Bytes) /\ t \in Seq(Bytes) /\ Boundary(p) = d /\ Len(s) \in Nat
      /\ form[p] \in AllForms /\ K \in Nat
  BY PlaceTyped
<1>2. K > 0 /\ s \o t = rest \o z /\ R \o rest = C /\ K <= Len(form[p].parts)
  BY ZenonT(60) DEF Placed, InContent, Left
<1>3. K \in 1..K
  BY <1>1, <1>2
<1>4. R \in Seq(Bytes)
  BY <1>3, ReceivedTyped
<1>5. C \in Seq(Bytes) /\ Occurrences(d, C) = {}
  <2>1. Len(form[p].parts) \in Nat
    BY <1>1, FormTyped
  <2>2. K \in 1..Len(form[p].parts)
    BY <1>1, <1>2, <2>1
  <2> QED
    BY ZenonT(60), <1>1, <2>2, FormTyped DEF PartContent
<1>6. PICK y \in Seq(Bytes) : NextPart(p) = d \o y /\ z \in Seq(Bytes)
  <2>1. CRLF \in Seq(Bytes)
    BY ConstantsTyped
  <2> QED
    BY ZenonT(60), <1>2, <2>1, NextTyped, Joining
<1>7. n = IF b # 0 THEN b - 3 ELSE Len(s) - (Len(d) + 2)
  <2>1. b \in Nat /\ Len(d) \in Nat
    BY PositionsTyped, ConstantsTyped
  <2> QED
    BY <1>1, <2>1 DEF DataLengthToSendToField
<1>8. b = FirstOf(Occurrences(d, s)) /\ n \in Int /\ n <= Len(s)
  BY <1>1, DataTyped DEF BoundaryPositionInDataCollector
<1>9. d \in Seq(Bytes) /\ Len(d) \in Nat \ {0} /\ (\A k \in 1..Len(d) : d[k] # "lf") /\ CRLF \in Seq(Bytes)
  BY ConstantsTyped
<1> HIDE DEF K, R, C, z, d, s, t, b, n
<1>10. Len(R) \in 0..Len(C) /\ rest \in Seq(Bytes) /\ Len(rest) \in Nat
  \* R may not be longer than C, which begins with it.
  <2>1. \A a \in Seq(Bytes) : Len(a) \in Nat
    OBVIOUS
  <2>2. rest \in Seq(Bytes)
    BY <1>4, <1>5, <2>1, EndTyped DEF Beyond
  <2>3. Len(R \o rest) = Len(R) + Len(rest)
    BY <1>4, <2>2, Joining
  <2> QED
    BY <1>2, <1>4, <1>5, <2>1, <2>2, <2>3
<1>11. Occurrences(d, rest) = {}
  BY ZenonT(60), <1>5, <1>9, <1>10, NoneBeyond
<1> HIDE DEF rest
<1> DEFINE q == rest \o CRLF
<1>12. /\ q \in Seq(Bytes) /\ Len(q) = Len(rest) + 2 /\ q[Len(q)] = "lf" /\ q # <<>>
       /\ Occurrences(d, q) = {}
  BY <1>10, <1>11, NoneInLine DEF d
<1>13. s \o t = q \o (d \o y)
  <2>1. d \o y \in Seq(Bytes)
    BY <1>6, <1>9, Joining
  <2>2. q \o (d \o y) = rest \o (CRLF \o (d \o y))
    BY ZenonT(60), <1>9, <1>10, <2>1, RegroupBytes
  <2> QED
    BY <1>2, <1>6, <2>2 DEF z
<1> HIDE DEF q
<1>14. FirstOf(Occurrences(d, s)) = IF Len(q) + Len(d) <= Len(s) THEN Len(q) + 1 ELSE 0
  <2>1. Len(d) # 0 /\ (q # <<>> => \A k \in 1..Len(d) : d[k] # q[Len(q)])
    BY <1>9, <1>12
  <2>2. d \in Seq(Bytes) /\ q \in Seq(Bytes) /\ y \in Seq(Bytes) /\ s \in Seq(Bytes) /\ t \in Seq(Bytes)
    BY <1>1, <1>6, <1>9, <1>12
  <2>3. Occurrences(d, q) = {}
    BY <1>12
  <2> QED
    BY ZenonT(60), <1>13, <2>1, <2>2, <2>3, FirstAfter
<1>15. n <= Len(rest) /\ (b # 0 => n = Len(rest))
  BY <1>1, <1>7, <1>8, <1>9, <1>10, <1>12, <1>14
<1>16. b = 0 => Len(s) < Len(rest \o z)
  <2>1. d \o y \in Seq(Bytes) /\ Len(d \o y) = Len(d) + Len(y) /\ Len(y) \in Nat
    BY <1>6, <1>9, Joining
  <2>2. Len(q \o (d \o y)) = Len(q) + Len(d \o y)
    BY ZenonT(60), <1>12, <2>1, Joining
  <2>3. Len(rest \o z) = Len(q) + Len(d) + Len(y)
    BY <1>2, <1>9, <1>10, <1>12, <1>13, <2>1, <2>2
  <2>4. b = 0 => Len(q) + Len(d) > Len(s)
    BY SMTT(60), <1>1, <1>8, <1>9, <1>10, <1>12, <1>14
  <2> QED
    BY <1>1, <1>9, <1>10, <1>12, <2>1, <2>3, <2>4
<1> QED
  BY <1>1, <1>2, <1>3, <1>4, <1>5, <1>6, <1>8, <1>10, <1>15, <1>16 DEF K, R, C, rest, z, s, t, b, n

(***************************************************************************)
(* Steps that leave the place where it is                                  *)
(***************************************************************************)
\* The fields have what they had.
Kept(p) ==
    /\ form'[p] = form[p] /\ Len(object'[p]) = Len(object[p])
    /\ \A k \in 1..Len(object[p]) :
         object'[p][k].name = object[p][k].name /\ Received(p, k)' = Received(p, k)

LEMMA PlacedFrame ==
    ASSUME TypeOK, NEW p \in Parsers, Placed(p), Kept(p), Left(p)' = Left(p),
           CurrentStatus'[p] = CurrentStatus[p], refused'[p] = "headers" <=> refused[p] = "headers"
    PROVE  Placed(p)'
<1> DEFINE K == Len(object[p])
<1>1. K \in Nat /\ Len(object'[p]) = K /\ form'[p] = form[p]
  BY PlaceTyped DEF Kept
<1>2. /\ NextPart(p)' = NextPart(p) /\ LineEnd(p)' = LineEnd(p)
      /\ PartContent(p, K)' = PartContent(p, K)
  BY <1>1 DEF NextPart, LineEnd, PartContent
<1>3. \A k \in 1..K : (Whole(p, k)' <=> Whole(p, k)) /\ Received(p, k)' = Received(p, k)
  BY <1>1 DEF Kept, Whole, PartContent
<1>4. BeforeBoundary(p) => BeforeBoundary(p)'
  BY <1>1, <1>2, <1>3 DEF BeforeBoundary
<1>5. BeforeHeaders(p) => BeforeHeaders(p)'
  BY <1>1, <1>2, <1>3 DEF BeforeHeaders
<1>6. K > 0 => K \in 1..K
  BY <1>1
<1>7. InContent(p) => InContent(p)'
  BY ZenonT(60), <1>1, <1>2, <1>3, <1>6 DEF InContent
<1>8. HeadersRefused(p) => HeadersRefused(p)'
  BY <1>1, <1>3, <1>6 DEF HeadersRefused
<1>9. /\ Len(object'[p]) <= Len(form'[p].parts)
      /\ \A k \in 1..Len(object'[p]) :
           /\ object'[p][k].name = HeaderOf[form'[p].parts[k].header].name
           /\ k < Len(object'[p]) => Whole(p, k)'
  BY <1>1, <1>3 DEF Placed, Kept
<1> QED
  BY <1>4, <1>5, <1>7, <1>8, <1>9 DEF Placed

LEMMA UnnoticedFrame ==
    ASSUME NEW p \in Parsers, Unnoticed(p), Kept(p), Left(p)' = Left(p),
           CurrentStatus'[p] = CurrentStatus[p]
    PROVE  Unnoticed(p)'
BY DEF Unnoticed, Kept

\* While a parser is used, and its place stays.
LEMMA SteadyPlace ==
    ASSUME TypeOK, NEW p \in Parsers, PlaceOf(p), InUse(p), Kept(p), Left(p)' = Left(p),
           CurrentStatus'[p] = CurrentStatus[p], refused'[p] = "headers" <=> refused[p] = "headers",
           refused'[p] # "no" => pc'[p] \in {"page", "delete", "remove", "gone"}, pc'[p] # "new",
           pc'[p] = "await" \/ (pc'[p] = "page" /\ refused'[p] = "no") => Exhausted(p)',
           pc'[p] = "page" /\ refused'[p] = "no" => net'[p] = <<>>
    PROVE  PlaceOf(p)'
<1>1. form'[p] = form[p] /\ form[p].type # "none"
  BY DEF Kept, PlaceOf
<1>2. form[p].type = "quoted" => Unnoticed(p)'
  BY UnnoticedFrame DEF PlaceOf
<1>3. form[p].type = "bare" => Placed(p)'
  BY PlacedFrame DEF PlaceOf
<1> QED
  BY <1>1, <1>2, <1>3 DEF PlaceOf, At

\* After the page nothing is said of it.
LEMMA EndingPlace ==
    ASSUME NEW p \in Parsers, pc'[p] \in {"delete", "remove", "gone"}
    PROVE  PlaceOf(p)'
BY DEF PlaceOf, InUse, At

\* What is another's, the bytes too.
SameBytes(q) ==
    /\ form'[q] = form[q] /\ net'[q] = net[q]
    /\ DataCollector'[q] = DataCollector[q] /\ refused'[q] = refused[q]

LEMMA OthersBytes ==
    ASSUME TypeOK, NEW p \in Parsers, Step(p), NEW q \in Parsers, q # p
    PROVE  SameBytes(q)
<1> USE DEF SameBytes, Throw, parseVars, TruncateDataCollectorFromTheBeginning
<1>1. CASE SetContentType(p) \/ EndOfBody(p) \/ WaitForHeadersEnd(p) \/ PageDone(p) \/ ParserDeleted(p)
  BY <1>1 DEF SetContentType, EndOfBody, WaitForHeadersEnd, PageDone, ParserDeleted
<1>2. CASE AcceptSomeData(p)
  BY SMTT(60), <1>2 DEF TypeOK, AcceptSomeData
<1>3. CASE FindStartingBoundary(p) \/ RejectHeaders(p)
  BY SMTT(60), <1>3 DEF TypeOK, FindStartingBoundary, RejectHeaders
<1>4. CASE NoContent(p) \/ TextContent(p) \/ WriteFile(p)
  <2>1. ContentProcessed(p)
    BY ZenonT(60), <1>4 DEF NoContent, TextContent, WriteFile
  <2>2. DataCollector \in [Parsers -> Seq(Bytes)] /\ form' = form /\ net' = net /\ refused' = refused
    BY <2>1 DEF TypeOK, ContentProcessed
  <2>3. \/ DataCollector' = DataCollector
        \/ TruncateDataCollectorFromTheBeginning(p, DataLengthToSendToField(p))
    BY <2>1 DEF ContentProcessed
  <2> QED
    BY <2>2, <2>3
<1>5. CASE ParseHeaders(p)
  BY SMTT(60), <1>5 DEF TypeOK, ParseHeaders
<1>6. CASE LockFileCreation(p) \/ TestName(p)
  BY ZenonT(60), <1>6 DEF LockFileCreation, TestName
<1>7. CASE OpenFile(p)
  BY SMTT(60), <1>7 DEF TypeOK, OpenFile
<1>8. CASE (\E n \in Names : DeleteField(p, n)) \/ RemoveFile(p)
  BY ZenonT(60), <1>8 DEF DeleteField, RemoveFile
<1> QED
  BY <1>1, <1>2, <1>3, <1>4, <1>5, <1>6, <1>7, <1>8 DEF Step

\* A step of p writes to, creates and removes none of another's open files.
LEMMA FilesOf ==
    ASSUME IInv, NEW p \in Parsers, Step(p), NEW q \in Parsers, NEW k \in 1..Len(object[q]),
           object[q][k].is_open, q # p
    PROVE  files'[object[q][k].TempFile] = files[object[q][k].TempFile]
<1> DEFINE t == object[q][k].TempFile
<1>1. Opened(q, k) /\ t \in Temps /\ files[t] # Absent
  BY ReceivedTyped DEF IInv, FileInv, OpenInv, Opened
<1>2. CASE files' = files
  BY <1>2
<1>3. CASE OpenFile(p)
  <2>1. i[p] \in Temps /\ files[i[p]] = Absent
    BY <1>3 DEF OpenFile, IInv, TypeOK, FileInv, NameInv, At
  <2>2. files' = [files EXCEPT ![i[p]] = <<>>] \/ files' = files
    BY <1>3 DEF OpenFile
  <2>3. files \in [Temps -> Seq(Bytes) \cup {Absent}]
    BY DEF IInv, TypeOK
  <2> QED
    BY <1>1, <2>1, <2>2, <2>3
<1>4. CASE WriteFile(p)
  <2> DEFINE n == Len(object[p])
  <2>1. n \in 1..Len(object[p]) /\ Current(p) = object[p][n] /\ object[p][n].is_open
    BY <1>4, CurrentTyped DEF IInv, WriteFile, HasContent, Processing
  <2>2. object[p][n].TempFile # t
    BY <1>1, <2>1 DEF IInv, FileInv, TempFilesDistinct
  <2>3. files \in [Temps -> Seq(Bytes) \cup {Absent}]
    BY DEF IInv, TypeOK
  <2>4. \A u \in Temps : u # object[p][n].TempFile => files'[u] = files[u]
    BY <1>4, <2>1, <2>3 DEF WriteFile
  <2> QED
    BY <1>1, <2>2, <2>4
<1>5. CASE RemoveFile(p)
  <2>1. pc[p] = "remove" /\ files' = [files EXCEPT ![i[p]] = Absent]
    BY <1>5 DEF RemoveFile, At
  <2>2. t # i[p]
    BY <1>1, <2>1 DEF IInv, FileInv, RemoveInv, At
  <2>3. files \in [Temps -> Seq(Bytes) \cup {Absent}]
    BY DEF IInv, TypeOK
  <2> QED
    BY <1>1, <2>1, <2>2, <2>3
<1> QED
  BY ZenonT(60), <1>2, <1>3, <1>4, <1>5
     DEF Step, fileVars, SetContentType, AcceptSomeData, EndOfBody, FindStartingBoundary,
         WaitForHeadersEnd, ParseHeaders, RejectHeaders, NoContent, TextContent, LockFileCreation,
         TestName, PageDone, DeleteField, ParserDeleted

\* What says where q is, and what it has, is as it was.
LEMMA PlaceFrame ==
    ASSUME TypeOK, NEW q \in Parsers, Same(q), SameBytes(q), PlaceOf(q), NamedLast(q),
           \A k \in 1..Len(object[q]) :
             object[q][k].is_open => files'[object[q][k].TempFile] = files[object[q][k].TempFile]
    PROVE  PlaceOf(q)' /\ NamedLast(q)'
<1>1. TypeOK /\ Same(q) /\ SameBytes(q)
  OBVIOUS
<1>2. Kept(q)
  <2> SUFFICES ASSUME NEW k \in 1..Len(object[q])
               PROVE  Received(q, k)' = Received(q, k)
    BY <1>1 DEF Kept, Same, SameBytes
  <2>1. object'[q][k] = object[q][k]
    BY <1>1 DEF Same
  <2>2. object[q][k].is_open => files'[object[q][k].TempFile] = files[object[q][k].TempFile]
    OBVIOUS
  <2> QED
    BY <2>1, <2>2 DEF Received
<1>3. Left(q)' = Left(q) /\ (Exhausted(q) => Exhausted(q)')
  BY <1>1 DEF Left, Exhausted, Same, SameBytes, HeadersEnd, BoundaryPositionInDataCollector, Boundary
<1>4. PlaceOf(q)'
  <2>1. CASE pc[q] = "new"
    <3>1. Unnoticed(q)'
      BY <1>1, <1>2, <1>3, <2>1, UnnoticedFrame DEF PlaceOf, At, Same
    <3> QED
      BY <1>1, <2>1, <3>1 DEF PlaceOf, At, InUse, Same, SameBytes
  <2>2. CASE InUse(q)
    <3>1. /\ CurrentStatus'[q] = CurrentStatus[q] /\ pc'[q] = pc[q] /\ net'[q] = net[q]
          /\ refused'[q] = refused[q]
      BY <1>1 DEF Same, SameBytes
    <3>2. /\ pc'[q] # "new" /\ (refused'[q] # "no" => pc'[q] \in {"page", "delete", "remove", "gone"})
          /\ (pc'[q] = "page" /\ refused'[q] = "no" => net'[q] = <<>>)
      BY <2>2, <3>1 DEF PlaceOf, At, InUse
    <3>3. pc'[q] = "await" \/ (pc'[q] = "page" /\ refused'[q] = "no") => Exhausted(q)'
      BY <1>3, <3>1 DEF PlaceOf, At
    <3> QED
      BY <1>1, <1>2, <1>3, <2>2, <3>1, <3>2, <3>3, SteadyPlace
  <2>3. CASE pc[q] \in {"delete", "remove", "gone"}
    BY SMTT(60), <1>1, <2>3, EndingPlace DEF Same
  <2> QED
    BY <1>1, <2>1, <2>2, <2>3 DEF TypeOK, PCs, InUse
<1>5. NamedLast(q)'
  BY <1>1 DEF NamedLast, Same, Ending
<1> QED
  BY <1>4, <1>5

LEMMA OthersPlace ==
    ASSUME IInv, NEW p \in Parsers, Step(p), NEW q \in Parsers, q # p, PlaceOf(q), NamedLast(q)
    PROVE  PlaceOf(q)' /\ NamedLast(q)'
<1>1. TypeOK /\ Same(q) /\ SameBytes(q)
  BY OthersSame, OthersBytes DEF IInv
<1>2. \A k \in 1..Len(object[q]) :
        object[q][k].is_open => files'[object[q][k].TempFile] = files[object[q][k].TempFile]
  BY FilesOf
<1> QED
  BY <1>1, <1>2, PlaceFrame

(***************************************************************************)
(* The steps of a parser, from the one place to the next                   *)
(***************************************************************************)
\* The fields and the files are as they were.
LEMMA KeptAsIs ==
    ASSUME NEW p \in Parsers, form' = form, object' = object, files' = files
    PROVE  Kept(p)
BY SMTT(60) DEF Kept, Received

LEMMA NamedFrame ==
    ASSUME NEW p \in Parsers, NamedLast(p), Ending(p) => Ending(p)', Fields'[p] = Fields[p],
           Len(object'[p]) = Len(object[p]), TypeOK,
           \A k \in 1..Len(object[p]) : object'[p][k].name = object[p][k].name
    PROVE  NamedLast(p)'
<1> SUFFICES ASSUME ~Ending(p), NEW k \in 1..Len(object[p])
             PROVE  LET n == object'[p][k].name
                    IN  Fields'[p][n] >= k /\ object'[p][Fields'[p][n]].name = n
  BY DEF NamedLast
<1> DEFINE n == object[p][k].name
<1>1. Fields[p][n] >= k /\ object[p][Fields[p][n]].name = n
  BY DEF NamedLast
<1>2. n \in Names /\ Len(object[p]) \in Nat
  <2>1. object[p] \in Seq(Field)
    BY DEF TypeOK
  <2>2. object[p][k] \in Field
    BY <2>1
  <2> QED
    BY <2>1, <2>2 DEF Field
<1>3. Fields[p][n] \in 0..Len(object[p])
  BY <1>2 DEF TypeOK
<1>4. Fields[p][n] \in 1..Len(object[p])
  BY <1>1, <1>2, <1>3
<1> QED
  BY ZenonT(60), <1>1, <1>4

\* SetContentType(): nothing has been given to the parser.
LEMMA ContentTypePlace ==
    ASSUME TypeOK, NEW p \in Parsers, PlaceOf(p), SetContentType(p)
    PROVE  PlaceOf(p)'
<1>1. /\ pc[p] = "new" /\ pc'[p] = IF form[p].type = "none" THEN "gone" ELSE "await"
      /\ form' = form /\ net' = net /\ CurrentStatus' = CurrentStatus /\ DataCollector' = DataCollector
      /\ object' = object /\ files' = files /\ refused' = refused
  BY DEF SetContentType, At, Goto, TypeOK, parseVars, fieldVars, fileVars
<1>2. DataCollector[p] = <<>> /\ Unnoticed(p) /\ refused[p] = "no"
  BY <1>1 DEF PlaceOf, At
<1>3. form[p] \in AllForms /\ net[p] \in Seq(Bytes) /\ form[p].type \in ContentTypes
  BY PlaceTyped, FormTyped
<1>4. CASE form[p].type = "none"
  BY <1>1, <1>4, EndingPlace
<1>5. CASE form[p].type # "none"
  <2>1. Unnoticed(p)'
    BY <1>1, <1>2, KeptAsIs, UnnoticedFrame DEF Left
  <2>2. Placed(p)'
    <3>1. NextPart(p) = Body(form[p]) /\ LineEnd(p) = <<>>
      BY <1>2 DEF Unnoticed, NextPart, Body, LineEnd
    <3>2. Left(p) = LineEnd(p) \o NextPart(p)
      <4>1. Left(p) \in Seq(Bytes) /\ Left(p) = NextPart(p)
        BY <1>2, <3>1, PlaceTyped DEF Unnoticed
      <4> QED
        BY <3>1, <4>1, EmptyJoin
    <3>3. Len(form[p].parts) \in Nat
      BY <1>3, FormTyped
    <3>4. Placed(p)
      BY <1>2, <3>2, <3>3 DEF Unnoticed, Placed, BeforeBoundary
    <3> QED
      BY <1>1, <3>4, KeptAsIs, PlacedFrame DEF Left
  <2>3. Exhausted(p)
    <3>1. Occurrences(Boundary(p), <<>>) = {}
      <4>1. CASE form[p].type = "quoted"
        <5>1. Occurrences(Quoted, Body(form[p])) = {} /\ Body(form[p]) \in Seq(Bytes)
          BY <1>3, <4>1, ClientAssumption, MultipartAssumption
        <5>2. <<>> \in Seq(Bytes) /\ <<>> \o Body(form[p]) = Body(form[p]) /\ Quoted \in Seq(Bytes)
          BY <5>1, EmptyJoin, ConstantsTyped
        <5>3. Occurrences(Quoted, <<>>) = {}
          BY ZenonT(60), <5>1, <5>2, NoneBefore
        <5> QED
          BY <4>1, <5>3 DEF Boundary
      <4>2. CASE form[p].type # "quoted"
        BY <4>2, NoneInEmpty DEF Boundary
      <4> QED
        BY <4>1, <4>2
    <3> QED
      BY <1>2, <3>1 DEF Exhausted, Unnoticed, BoundaryPositionInDataCollector, FirstOf
  <2>4. Exhausted(p)'
    BY <1>1, <2>3 DEF Exhausted, HeadersEnd, BoundaryPositionInDataCollector, Boundary
  <2> QED
    BY <1>1, <1>2, <1>5, <2>1, <2>2, <2>4 DEF PlaceOf, At, InUse
<1> QED
  BY <1>4, <1>5

\* A chunk goes from the connection to the collector.
LEMMA AcceptPlace ==
    ASSUME TypeOK, NEW p \in Parsers, PlaceOf(p), AcceptSomeData(p)
    PROVE  PlaceOf(p)'
<1>1. PICK n \in 1..ChunkMax :
        /\ n <= Len(net[p])
        /\ DataCollector' = [DataCollector EXCEPT ![p] = @ \o SubSeq(net[p], 1, n)]
        /\ net' = [net EXCEPT ![p] = SubSeq(@, n + 1, Len(@))]
  BY ZenonT(60) DEF AcceptSomeData
<1>2. /\ pc[p] = "await" /\ refused[p] = "no"
      /\ form' = form /\ CurrentStatus' = CurrentStatus /\ object' = object /\ files' = files
  BY DEF AcceptSomeData, At, PlaceOf, fieldVars, fileVars
<1>3. \/ pc'[p] = "process" /\ refused'[p] = "no"
      \/ pc'[p] = "page" /\ refused'[p] = "length"
  <2>1. (Goto(p, "process") /\ UNCHANGED refused) \/ Throw(p, "length")
    BY DEF AcceptSomeData
  <2> QED
    BY <1>2, <2>1 DEF Goto, Throw, TypeOK
<1>4. Left(p)' = Left(p)
  <2>1. DataCollector[p] \in Seq(Bytes) /\ net[p] \in Seq(Bytes)
    BY PlaceTyped
  <2>2. n \in 0..Len(net[p])
    BY <1>1, <2>1, MultipartAssumption
  <2>3. /\ DataCollector'[p] = DataCollector[p] \o SubSeq(net[p], 1, n)
        /\ net'[p] = Beyond(net[p], n)
    BY ZenonT(60), <1>1 DEF TypeOK, Beyond
  <2>4. (DataCollector[p] \o SubSeq(net[p], 1, n)) \o Beyond(net[p], n) = DataCollector[p] \o net[p]
    BY ZenonT(60), <2>1, <2>2, ChunkMoved
  <2> QED
    BY ZenonT(60), <2>3, <2>4 DEF Left
<1>5. Kept(p)
  BY <1>2, KeptAsIs
<1> QED
  BY <1>2, <1>3, <1>4, <1>5, SteadyPlace DEF InUse

LEMMA EndOfBodyPlace ==
    ASSUME TypeOK, NEW p \in Parsers, PlaceOf(p), EndOfBody(p)
    PROVE  PlaceOf(p)'
<1>1. /\ pc[p] = "await" /\ pc'[p] = IF net[p] = <<>> THEN "page" ELSE "delete"
      /\ form' = form /\ net' = net /\ CurrentStatus' = CurrentStatus /\ DataCollector' = DataCollector
      /\ object' = object /\ files' = files /\ refused' = refused
  BY DEF EndOfBody, At, Goto, TypeOK, parseVars, fieldVars, fileVars
<1>2. Exhausted(p)' /\ refused[p] = "no"
  BY <1>1 DEF PlaceOf, At, Exhausted, HeadersEnd, BoundaryPositionInDataCollector, Boundary
<1>3. CASE net[p] = <<>>
  <2>1. Kept(p) /\ Left(p)' = Left(p)
    BY <1>1, KeptAsIs DEF Left
  <2> QED
    BY <1>1, <1>2, <1>3, <2>1, SteadyPlace DEF InUse
<1>4. CASE net[p] # <<>>
  BY <1>1, <1>4, EndingPlace
<1> QED
  BY <1>3, <1>4

\* The bytes of a body whose boundary was declared in quotes go by unnoticed.
LEMMA QuotedUnnoticed ==
    ASSUME TypeOK, NEW p \in Parsers, Unnoticed(p), form[p].type = "quoted"
    PROVE  BoundaryPositionInDataCollector(p) = 0
<1>1. /\ form[p] \in AllForms /\ DataCollector[p] \in Seq(Bytes) /\ net[p] \in Seq(Bytes)
      /\ Boundary(p) = Quoted /\ Quoted \in Seq(Bytes)
  BY PlaceTyped, ConstantsTyped
<1>2. Occurrences(Quoted, DataCollector[p] \o net[p]) = {}
  BY <1>1, ClientAssumption DEF Unnoticed, Left
<1>3. Occurrences(Quoted, DataCollector[p]) = {}
  BY ZenonT(60), <1>1, <1>2, NoneBefore
<1> QED
  BY <1>1, <1>3 DEF BoundaryPositionInDataCollector, FirstOf

LEMMA FindPlace ==
    ASSUME TypeOK, NEW p \in Parsers, PlaceOf(p), FindStartingBoundary(p)
    PROVE  PlaceOf(p)'
<1> DEFINE n == BoundaryPositionInDataCollector(p)
           m == n - 1 + Len(Boundary(p))
<1>1. /\ pc[p] = "process" /\ CurrentStatus[p] = "LookingForStartingBoundary"
      /\ form' = form /\ net' = net /\ object' = object /\ files' = files /\ refused' = refused
  BY DEF FindStartingBoundary, Processing, At, fieldVars, fileVars
<1>2. Kept(p) /\ refused[p] = "no" /\ form[p].type \in {"bare", "quoted"}
  <2>1. form[p].type \in ContentTypes
    BY PlaceTyped, FormTyped
  <2> QED
    BY <1>1, <2>1, KeptAsIs DEF PlaceOf, InUse, ContentTypes
<1>3. CASE n = 0
  <2>1. pc'[p] = "await" /\ CurrentStatus' = CurrentStatus /\ DataCollector' = DataCollector
    BY <1>3 DEF FindStartingBoundary, Goto, TypeOK, parseVars
  <2>2. Exhausted(p)' /\ Left(p)' = Left(p)
    BY <1>1, <1>3, <2>1 DEF Exhausted, BoundaryPositionInDataCollector, Boundary, Left
  <2> QED
    BY <1>1, <1>2, <2>1, <2>2, SteadyPlace DEF InUse
<1>4. CASE n # 0
  <2>1. /\ TruncateDataCollectorFromTheBeginning(p, m)
        /\ CurrentStatus' = [CurrentStatus EXCEPT ![p] = "ProcessingHeaders"] /\ pc' = pc
    BY <1>4 DEF FindStartingBoundary
  <2>2. form[p].type = "bare" /\ Placed(p)
    BY <1>1, <1>2, <1>4, QuotedUnnoticed DEF PlaceOf, InUse
  <2>3. m \in 0..Len(DataCollector[p]) /\ Delimiter \o (Beyond(DataCollector[p], m) \o net[p]) = NextPart(p)
    BY ZenonT(60), <1>1, <1>4, <2>2, StartFound
  <2>4. DataCollector'[p] = Beyond(DataCollector[p], m) /\ CurrentStatus'[p] = "ProcessingHeaders"
    BY ZenonT(60), <2>1 DEF TypeOK, TruncateDataCollectorFromTheBeginning, Beyond
  <2>5. BeforeHeaders(p)'
    <3>1. \A k \in 1..Len(object[p]) : Whole(p, k)
      BY <1>1, <2>2 DEF Placed, BeforeBoundary
    <3>2. \A k \in 1..Len(object'[p]) : Whole(p, k)'
      BY <1>1, <1>2, <3>1 DEF Kept, Whole, PartContent
    <3>3. NextPart(p)' = NextPart(p)
      BY <1>1 DEF NextPart
    <3> QED
      BY ZenonT(60), <1>1, <2>3, <2>4, <3>2, <3>3 DEF BeforeHeaders, Left
  <2>6. Placed(p)'
    <3>1. /\ Len(object'[p]) <= Len(form'[p].parts)
          /\ \A k \in 1..Len(object'[p]) :
               /\ object'[p][k].name = HeaderOf[form'[p].parts[k].header].name
               /\ k < Len(object'[p]) => Whole(p, k)'
      BY SMTT(60), <1>1, <2>2, <2>5 DEF Placed, BeforeHeaders
    <3> QED
      BY <1>1, <1>2, <2>4, <2>5, <3>1 DEF Placed
  <2> QED
    BY <1>1, <1>2, <2>1, <2>2, <2>6 DEF PlaceOf, InUse, At
<1> QED
  BY <1>3, <1>4

LEMMA WaitPlace ==
    ASSUME TypeOK, NEW p \in Parsers, PlaceOf(p), WaitForHeadersEnd(p)
    PROVE  PlaceOf(p)'
<1>1. /\ pc[p] = "process" /\ CurrentStatus[p] = "ProcessingHeaders" /\ HeadersEnd(p) = 0
      /\ pc'[p] = "await"
      /\ form' = form /\ net' = net /\ CurrentStatus' = CurrentStatus /\ DataCollector' = DataCollector
      /\ object' = object /\ files' = files /\ refused' = refused
  BY DEF WaitForHeadersEnd, Processing, At, Goto, TypeOK, parseVars, fieldVars, fileVars
<1>2. Exhausted(p)' /\ Left(p)' = Left(p) /\ Kept(p) /\ refused[p] = "no"
  BY <1>1, KeptAsIs DEF Exhausted, HeadersEnd, Left, PlaceOf
<1> QED
  BY <1>1, <1>2, SteadyPlace DEF InUse

\* What ParseHeaders() is given is the text of the next part, if there is one.
LEMMA HeadersState ==
    ASSUME TypeOK, NEW p \in Parsers, BeforeHeaders(p), Len(object[p]) <= Len(form[p].parts)
    PROVE  LET K == Len(object[p]) + 1
               part == form[p].parts[K]
           IN  \/ /\ K \in 1..Len(form[p].parts) /\ part.header \in Headers
                  /\ part.content \in Seq(Bytes)
                  /\ HeadersEnd(p) # 0 =>
                       /\ HeadersEnd(p) + 3 = 7 /\ HeadersIn(p) = {part.header}
                       /\ 7 \in 0..Len(DataCollector[p])
                       /\ Beyond(DataCollector[p], 7) \o net[p]
                            = part.content \o (CRLF \o BodyFrom(form[p])[K + 1])
                  /\ HeadersEnd(p) = 0 => Len(DataCollector[p]) < Len(Left(p))
               \/ /\ K = Len(form[p].parts) + 1
                  /\ HeadersEnd(p) # 0 => HeadersIn(p) = {}
<1> DEFINE f == form[p]
           K == Len(object[p]) + 1
           s == DataCollector[p]
           t == net[p]
           part == f.parts[K]
           T == BodyFrom(f)
<1>1. /\ f \in AllForms /\ s \in Seq(Bytes) /\ t \in Seq(Bytes) /\ Len(s) \in Nat
      /\ Len(object[p]) \in Nat /\ Len(f.parts) \in Nat /\ f.epilogue \in Seq(Bytes \ Headers)
      /\ f.epilogue \in Seq(Bytes)
  BY PlaceTyped, FormTyped
<1>2. K \in 1..(Len(f.parts) + 1) /\ Delimiter \o (s \o t) = T[K]
  BY <1>1 DEF BeforeHeaders, NextPart, Left
<1>3. HeadersEnd(p) = FirstOf(Occurrences(CRLF \o CRLF, s)) /\ HeadersEnd(p) \in Nat
      /\ (HeadersEnd(p) # 0 => HeadersEnd(p) + 3 <= Len(s))
  BY PositionsTyped DEF HeadersEnd
<1>4. HeadersIn(p) = {g \in Headers : Contains(SubSeq(s, 1, HeadersEnd(p) - 1), g)}
  BY DEF HeadersIn
<1>5. Delimiter \in Seq(Bytes) /\ CRLF \in Seq(Bytes) /\ <<"-", "-">> \in Seq(Bytes) /\ s \o t \in Seq(Bytes)
  BY <1>1, ConstantsTyped, Joining
<1> HIDE DEF s, t, T
<1> DEFINE D == Delimiter
<1>6. \A a, b \in Seq(Bytes) : D \o a = D \o b => a = b
  BY ZenonT(60), <1>5, SameEnd
<1> HIDE DEF D
<1>7. CASE K <= Len(f.parts)
  <2> DEFINE h == part.header
             y == part.content \o (CRLF \o T[K + 1])
  <2>1. K \in 1..Len(f.parts)
    BY <1>1, <1>2, <1>7
  <2>2. /\ T[K + 1] \in Seq(Bytes)
        /\ T[K] = Delimiter \o (HeaderBytes(h) \o y)
    BY ZenonT(60), <1>1, <1>2, <1>7, NextIs DEF T
  <2>3. h \in Headers /\ h \in Bytes /\ part.content \in Seq(Bytes)
    BY ZenonT(60), <1>1, <2>1, FormTyped
  <2>4. y \in Seq(Bytes) /\ HeaderBytes(h) \in Seq(Bytes)
    <3>1. CRLF \o T[K + 1] \in Seq(Bytes)
      BY ZenonT(60), <1>5, <2>2, Joining
    <3>2. y \in Seq(Bytes)
      BY <2>3, <3>1, Joining
    <3> QED
      BY ZenonT(60), <2>3, <3>2, HeaderTyped
  <2> HIDE DEF y, h
  <2>5. s \o t = HeaderBytes(h) \o y
    <3>1. HeaderBytes(h) \o y \in Seq(Bytes)
      BY <2>4, Joining
    <3> QED
      BY ZenonT(60), <1>2, <1>5, <1>6, <2>2, <3>1 DEF D
  <2>6. /\ FirstOf(Occurrences(CRLF \o CRLF, s)) = IF 7 <= Len(s) THEN 4 ELSE 0
        /\ 7 <= Len(s) => /\ {g \in Headers : Contains(SubSeq(s, 1, 3), g)} = {h}
                          /\ Beyond(s, 7) \o t = y
    <3>1. h \in Headers /\ s \in Seq(Bytes) /\ t \in Seq(Bytes) /\ y \in Seq(Bytes)
      BY <1>1, <2>3, <2>4
    <3>2. FirstOf(Occurrences(CRLF \o CRLF, s)) = IF 7 <= Len(s) THEN 4 ELSE 0
      BY ZenonT(60), <2>5, <3>1, HeadersFound
    <3>3. 7 <= Len(s) => {g \in Headers : Contains(SubSeq(s, 1, 3), g)} = {h}
      BY ZenonT(60), <2>5, <3>1, HeadersFound
    <3>4. ASSUME 7 <= Len(s)
          PROVE  Beyond(s, 7) \o t = y
      <4>1. 7 \in 0..Len(s)
        BY <1>1, <3>4
      <4>2. Beyond(s \o t, 7) = Beyond(s, 7) \o t
        BY <3>1, <4>1, BeyondFirst
      <4>3. Len(HeaderBytes(h)) = 7
        BY DEF HeaderBytes
      <4>4. Beyond(HeaderBytes(h) \o y, 7) = y
        BY ZenonT(60), <2>4, <4>3, BeyondAll
      <4> QED
        BY <2>5, <4>2, <4>4
    <3> QED
      BY ZenonT(60), <3>2, <3>3, <3>4
  <2>7. ASSUME HeadersEnd(p) # 0
        PROVE  /\ HeadersEnd(p) + 3 = 7 /\ HeadersIn(p) = {h} /\ 7 \in 0..Len(s)
               /\ Beyond(s, 7) \o t = y
    <3>1. HeadersEnd(p) = 4 /\ 7 <= Len(s)
      BY <1>3, <2>6, <2>7
    <3>2. 4 - 1 = 3 /\ 4 + 3 = 7 /\ 7 \in 0..Len(s)
      BY <1>1, <3>1
    <3>3. HeadersIn(p) = {h}
      BY ZenonT(60), <1>4, <2>6, <3>1, <3>2
    <3> QED
      BY <2>6, <3>1, <3>2, <3>3
  <2>8. HeadersEnd(p) = 0 => Len(s) < Len(s \o t)
    <3>1. Len(HeaderBytes(h)) = 7
      BY DEF HeaderBytes
    <3>2. Len(HeaderBytes(h) \o y) = Len(HeaderBytes(h)) + Len(y) /\ Len(y) \in Nat
      BY ZenonT(60), <2>4, Joining
    <3>3. Len(s \o t) = 7 + Len(y)
      BY SMTT(60), <2>5, <3>1, <3>2
    <3>4. HeadersEnd(p) = 0 => ~(7 <= Len(s))
      BY SMTT(60), <1>3, <2>6
    <3> QED
      BY SMTT(60), <1>1, <3>2, <3>3, <3>4
  <2> QED
    BY ZenonT(60), <2>1, <2>3, <2>7, <2>8 DEF y, h, s, t, T, Left
<1>8. CASE K = Len(f.parts) + 1
  <2> DEFINE y == <<"-", "-">> \o (CRLF \o f.epilogue)
  <2>1. T[K] = Delimiter \o y
    BY ZenonT(60), <1>1, <1>2, <1>8, NextIs DEF T
  <2>2. y \in Seq(Bytes)
    <3>1. CRLF \o f.epilogue \in Seq(Bytes)
      BY <1>1, <1>5, Joining
    <3> QED
      BY <1>5, <3>1, Joining
  <2>3. s \o t = y
    <3> HIDE DEF y
    <3> QED
      BY ZenonT(60), <1>2, <1>5, <1>6, <2>1, <2>2 DEF D
  <2>4. HeadersEnd(p) # 0 => HeadersEnd(p) - 1 \in Nat /\ HeadersEnd(p) - 1 <= Len(s)
    BY <1>1, <1>3
  <2>5. HeadersEnd(p) # 0 => HeadersIn(p) = {}
    BY ZenonT(60), <1>1, <1>4, <2>3, <2>4, NoHeadersFound
  <2> QED
    BY ZenonT(60), <1>8, <2>5
<1>9. K <= Len(f.parts) \/ K = Len(f.parts) + 1
  BY SMTT(60), <1>1, <1>2
<1> QED
  BY ZenonT(60), <1>7, <1>8, <1>9

\* With the headers, or without them, the parser is at a part of the form.
LEMMA InHeaders ==
    ASSUME TypeOK, NEW p \in Parsers, PlaceOf(p), Processing(p, "ProcessingHeaders")
    PROVE  /\ pc[p] = "process" /\ CurrentStatus[p] = "ProcessingHeaders" /\ refused[p] = "no"
           /\ form[p].type = "bare" /\ Placed(p) /\ BeforeHeaders(p)
           /\ Len(object[p]) <= Len(form[p].parts)
<1>1. pc[p] = "process" /\ CurrentStatus[p] = "ProcessingHeaders"
  BY DEF Processing, At
<1>2. refused[p] = "no" /\ form[p].type # "none" /\ ~Unnoticed(p)
  BY <1>1 DEF PlaceOf, InUse, Unnoticed
<1>3. form[p].type = "bare"
  <2>1. form[p].type \in ContentTypes
    BY PlaceTyped, FormTyped
  <2> QED
    BY <1>1, <1>2, <2>1 DEF PlaceOf, InUse, ContentTypes
<1>4. Placed(p)
  BY <1>1, <1>3 DEF PlaceOf, InUse
<1> QED
  BY <1>1, <1>2, <1>3, <1>4 DEF Placed

LEMMA RejectPlace ==
    ASSUME TypeOK, NEW p \in Parsers, PlaceOf(p), RejectHeaders(p)
    PROVE  PlaceOf(p)'
<1>1. /\ refused[p] = "no" /\ form[p].type = "bare" /\ Placed(p) /\ BeforeHeaders(p)
      /\ CurrentStatus[p] = "ProcessingHeaders" /\ Len(object[p]) \in Nat
  BY InHeaders, PlaceTyped DEF RejectHeaders
<1>2. /\ pc'[p] = "page" /\ refused'[p] = "headers"
      /\ form' = form /\ CurrentStatus' = CurrentStatus /\ object' = object /\ files' = files
  BY DEF RejectHeaders, Throw, Goto, TypeOK, parseVars, fieldVars, fileVars
<1>3. HeadersRefused(p)'
  <2>1. Len(object[p]) > 0 => Len(object[p]) \in 1..Len(object[p])
    BY <1>1
  <2>2. HeadersRefused(p)
    BY <1>1, <2>1 DEF HeadersRefused, BeforeHeaders
  <2> QED
    BY <1>2, <2>2 DEF HeadersRefused, Whole, Received, PartContent
<1>4. Kept(p)
  BY <1>2, KeptAsIs
<1>5. Placed(p)'
  <2>1. /\ Len(object'[p]) <= Len(form'[p].parts)
        /\ \A k \in 1..Len(object'[p]) :
             /\ object'[p][k].name = HeaderOf[form'[p].parts[k].header].name
             /\ k < Len(object'[p]) => Whole(p, k)'
    BY SMTT(60), <1>1, <1>2 DEF Placed, Whole, Received, PartContent
  <2> QED
    BY <1>1, <1>2, <1>3, <2>1 DEF Placed
<1> QED
  BY <1>1, <1>2, <1>5 DEF PlaceOf, InUse, At

\* _ParseHeaders() makes the field of the next part, and nothing is in it.
LEMMA ParsePlace ==
    ASSUME TypeOK, NEW p \in Parsers, PlaceOf(p), NamedLast(p), ParseHeaders(p)
    PROVE  PlaceOf(p)' /\ NamedLast(p)'
<1>0. PICK K : K = Len(object[p]) + 1
  BY Zenon
<1> DEFINE f == form[p]
           part == f.parts[K]
           h == part.header
           c == part.content
<1>1. /\ pc[p] = "process" /\ CurrentStatus[p] = "ProcessingHeaders" /\ refused[p] = "no"
      /\ form[p].type = "bare" /\ Placed(p) /\ BeforeHeaders(p)
      /\ Len(object[p]) <= Len(form[p].parts)
  BY InHeaders DEF ParseHeaders
<1>2. HeadersEnd(p) # 0 /\ HeadersIn(p) # {}
  BY DEF ParseHeaders
<1>3. /\ K \in 1..Len(f.parts) /\ h \in Headers /\ c \in Seq(Bytes)
      /\ HeadersEnd(p) + 3 = 7 /\ HeadersIn(p) = {h}
      /\ 7 \in 0..Len(DataCollector[p])
      /\ Beyond(DataCollector[p], 7) \o net[p] = c \o (CRLF \o BodyFrom(f)[K + 1])
  BY ZenonT(60), <1>0, <1>1, <1>2, HeadersState
<1>4. /\ form' = form /\ net' = net /\ files' = files
      /\ object' = [object EXCEPT ![p] = Append(object[p], NewField(h))]
      /\ Fields' = [Fields EXCEPT ![p][HeaderOf[h].name] = Len(object'[p])]
      /\ \/ /\ TruncateDataCollectorFromTheBeginning(p, 7)
            /\ CurrentStatus' = [CurrentStatus EXCEPT ![p] = "ProcessingContentOfTheField"]
            /\ UNCHANGED <<pc, refused>>
         \/ Throw(p, "headers") /\ UNCHANGED <<CurrentStatus, DataCollector>>
  BY ZenonT(60), <1>3 DEF ParseHeaders, NewField, fileVars
<1>5. /\ Len(object[p]) \in Nat /\ Len(object'[p]) = K
      /\ object'[p][K] = NewField(h)
      /\ \A k \in 1..Len(object[p]) : object'[p][k] = object[p][k]
  BY ZenonT(60), <1>0, <1>3, <1>4, Added, NewFieldTyped
<1>6. NewField(h).name = HeaderOf[h].name /\ Received(p, K)' = <<>>
  <2>1. object'[p][K] = NewField(h)
    BY <1>5
  <2> HIDE DEF h
  <2> QED
    BY <2>1 DEF NewField, Received
<1>7. \A k \in 1..Len(object[p]) : Whole(p, k)'
  <2>1. \A k \in 1..Len(object[p]) : Whole(p, k)
    BY <1>1 DEF BeforeHeaders
  <2> QED
    BY <1>4, <1>5, <2>1 DEF Whole, Received, PartContent
<1>8. \A k \in 1..K : k \in 1..Len(object[p]) \/ k = K
  BY <1>0, <1>5
<1> HIDE DEF h, c, part, f
<1>9. /\ Len(object'[p]) <= Len(form'[p].parts)
      /\ \A k \in 1..Len(object'[p]) :
           /\ object'[p][k].name = HeaderOf[form'[p].parts[k].header].name
           /\ k < Len(object'[p]) => Whole(p, k)'
  <2>1. K <= Len(f.parts)
    BY <1>3
  <2>2. object'[p][K].name = HeaderOf[form'[p].parts[K].header].name
    BY <1>4, <1>5, <1>6 DEF h, part, f
  <2>3. \A k \in 1..Len(object[p]) : object'[p][k].name = HeaderOf[form'[p].parts[k].header].name
    BY <1>1, <1>4, <1>5 DEF Placed
  <2>4. \A k \in 1..K : k < K => k \in 1..Len(object[p])
    BY SMTT(60), <1>8
  <2> QED
    BY SMTT(60), <1>4, <1>5, <1>7, <1>8, <2>1, <2>2, <2>3, <2>4 DEF f
<1>10. ASSUME TruncateDataCollectorFromTheBeginning(p, 7),
              CurrentStatus' = [CurrentStatus EXCEPT ![p] = "ProcessingContentOfTheField"],
              UNCHANGED <<pc, refused>>
       PROVE  PlaceOf(p)'
  <2>1. DataCollector'[p] = Beyond(DataCollector[p], 7) /\ CurrentStatus'[p] = "ProcessingContentOfTheField"
    BY SMTT(60), <1>10 DEF TypeOK, TruncateDataCollectorFromTheBeginning, Beyond
  <2>2. PartContent(p, K)' = c /\ NextPart(p)' = BodyFrom(f)[K + 1] /\ K > 0
    BY SMTT(60), <1>3, <1>4, <1>5 DEF PartContent, NextPart, c, part, f
  <2>3. Beyond(c, Len(<<>>)) = c /\ <<>> \o c = c
    <3>1. Len(<<>>) = 0 /\ 0 \in 0..Len(c) /\ SubSeq(c, 1, Len(c)) = c
      BY <1>3, AllOf
    <3> QED
      BY <1>3, <3>1, EmptyJoin DEF Beyond
  <2>4. InContent(p)'
    BY ZenonT(60), <1>3, <1>4, <1>5, <1>6, <2>1, <2>2, <2>3 DEF InContent, Left
  <2>5. Placed(p)'
    BY ZenonT(60), <1>9, <2>1, <2>4 DEF Placed
  <2> QED
    <3>1. pc'[p] = "process" /\ refused'[p] = "no" /\ form'[p].type = "bare"
      BY <1>1, <1>4, <1>10
    <3> QED
      BY <2>5, <3>1 DEF PlaceOf, InUse, At
<1>11. ASSUME Throw(p, "headers"), UNCHANGED <<CurrentStatus, DataCollector>>
       PROVE  PlaceOf(p)'
  <2>1. pc'[p] = "page" /\ refused'[p] = "headers" /\ CurrentStatus'[p] = "ProcessingHeaders"
    BY <1>1, <1>11 DEF Throw, Goto, TypeOK
  <2>2. HeadersRefused(p)'
    BY <1>5, <1>6 DEF HeadersRefused
  <2>3. Placed(p)'
    BY <1>9, <2>1, <2>2 DEF Placed
  <2> QED
    <3>1. form'[p].type = "bare"
      BY <1>1, <1>4
    <3> QED
      BY <2>1, <2>3, <3>1 DEF PlaceOf, InUse, At
<1>12. PlaceOf(p)'
  BY <1>4, <1>10, <1>11
<1>13. NamedLast(p)'
  <2>1. /\ HeaderOf[h].name \in Names /\ Fields \in [Parsers -> [Names -> Nat]]
        /\ \A n \in Names : Fields[p][n] \in 0..Len(object[p])
    BY ZenonT(60), <1>3 DEF TypeOK, Names
  <2>2. \A n \in Names : Fields'[p][n] = IF n = HeaderOf[h].name THEN K ELSE Fields[p][n]
    BY <1>4, <1>5, <2>1
  <2>3. ~Ending(p)
    BY <1>1 DEF Ending
  <2> SUFFICES ASSUME NEW k \in 1..K
               PROVE  LET n == object'[p][k].name
                      IN  Fields'[p][n] >= k /\ object'[p][Fields'[p][n]].name = n
    BY <1>5 DEF NamedLast
  <2> DEFINE n == object'[p][k].name
  <2>4. K \in Nat /\ k \in Nat /\ k <= K
    BY <1>3, <1>5
  <2>5. CASE n = HeaderOf[h].name
    BY SMTT(60), <1>5, <1>6, <2>1, <2>2, <2>4, <2>5
  <2>6. CASE n # HeaderOf[h].name
    <3>1. k \in 1..Len(object[p]) /\ n = object[p][k].name
      BY <1>5, <1>6, <1>8, <2>6
    <3>2. Fields[p][n] >= k /\ object[p][Fields[p][n]].name = n
      BY <2>3, <3>1 DEF NamedLast
    <3>3. n \in Names
      <4>1. object[p] \in Seq(Field)
        BY DEF TypeOK
      <4>2. object[p][k] \in Field
        BY SMTT(60), <3>1, <4>1
      <4> QED
        BY <3>1, <4>2 DEF Field
    <3>4. Fields[p][n] \in 1..Len(object[p]) /\ Fields'[p][n] = Fields[p][n]
      BY <1>5, <2>1, <2>2, <2>4, <2>6, <3>2, <3>3
    <3>5. object'[p][Fields[p][n]] = object[p][Fields[p][n]]
      BY <1>5, <3>4
    <3> QED
      BY <3>2, <3>4, <3>5
  <2> QED
    BY <2>5, <2>6
<1> QED
  BY <1>12, <1>13

\* What the field that is filled has then, and that the others keep theirs.
LEMMA FillReceived ==
    ASSUME IInv, NEW p \in Parsers, NoContent(p) \/ TextContent(p) \/ WriteFile(p),
           NEW K, K = Len(object[p])
    PROVE  /\ Received(p, K)' = IF DataLengthToSendToField(p) > 0
                                THEN Received(p, K) \o Data(p) ELSE Received(p, K)
           /\ \A k \in 1..K : k < K => Received(p, k)' = Received(p, k)
<1>1. /\ TypeOK /\ OpenInv /\ CurrentStatus[p] = "ProcessingContentOfTheField"
      /\ ProcessingFieldName[p] = K /\ K \in 1..Len(object[p]) /\ K \in 1..K
      /\ object[p] \in Seq(Field) /\ Current(p) = object[p][K]
  BY CurrentTyped DEF IInv, FileInv, NoContent, TextContent, WriteFile, HasContent, Processing
<1>2. \A k \in 1..K : k < K => k \in 1..Len(object[p]) /\ k # K
  OBVIOUS
<1>3. CASE NoContent(p)
  <2>1. object' = object /\ files' = files /\ ~(DataLengthToSendToField(p) > 0)
    <3>1. DataLengthToSendToField(p) \in Int /\ DataLengthToSendToField(p) <= 0
      BY <1>1, <1>3, DataTyped DEF NoContent
    <3> QED
      BY <1>3, <3>1 DEF NoContent, fileVars
  <2> QED
    BY <2>1 DEF Received
<1>4. CASE TextContent(p)
  <2> DEFINE g == [object[p][K] EXCEPT !.content = @ \o Data(p)]
  <2>1. /\ files' = files /\ DataLengthToSendToField(p) > 0 /\ object[p][K].file = FALSE
        /\ PutField(p, K, g)
    BY <1>1, <1>4 DEF TextContent, HasContent, PutField, fileVars
  <2>2. object[p][K] \in Field
    BY <1>1
  <2>3. g \in Field /\ g.file = FALSE /\ g.content = object[p][K].content \o Data(p)
    <3>1. object[p][K].content \o Data(p) \in Seq(Bytes)
      BY <1>1, <2>2, DataTyped, Joining DEF Field
    <3> QED
      BY ZenonT(60), <2>1, <2>2, <3>1 DEF Field
  <2> HIDE DEF g
  <2>4. /\ object'[p][K] = g
        /\ \A k \in 1..Len(object[p]) : k # K => object'[p][k] = object[p][k]
    BY <1>1, <2>1, <2>3, Replaced
  <2>5. Received(p, K)' = Received(p, K) \o Data(p)
    BY ZenonT(60), <2>1, <2>3, <2>4 DEF Received
  <2>6. \A k \in 1..K : k < K => Received(p, k)' = Received(p, k)
    BY <1>2, <2>1, <2>4 DEF Received
  <2> QED
    BY <2>1, <2>5, <2>6
<1>5. CASE WriteFile(p)
  <2> DEFINE t == object[p][K].TempFile
  <2>1. /\ object' = object /\ DataLengthToSendToField(p) > 0
        /\ object[p][K].file = TRUE /\ object[p][K].is_open
        /\ files' = [files EXCEPT ![t] = IF @ = Absent THEN Absent ELSE @ \o Data(p)]
    BY <1>1, <1>5 DEF WriteFile, HasContent
  <2>2. t \in Temps /\ files[t] # Absent /\ files \in [Temps -> Seq(Bytes) \cup {Absent}]
    <3>1. t \in Temps
      BY <1>1, <2>1, ReceivedTyped
    <3>2. files[t] # Absent
      BY SMTT(60), <1>1, <2>1 DEF OpenInv, Opened
    <3> QED
      BY <1>1, <3>1, <3>2 DEF TypeOK
  <2>3. files'[t] = files[t] \o Data(p) /\ \A u \in Temps : u # t => files'[u] = files[u]
    BY SMTT(60), <2>1, <2>2
  <2>4. Received(p, K)' = Received(p, K) \o Data(p)
    BY ZenonT(60), <2>1, <2>3 DEF Received
  <2>5. ASSUME NEW k \in 1..K, k < K
        PROVE  Received(p, k)' = Received(p, k)
    <3>1. k \in 1..Len(object[p]) /\ k # K
      BY <1>2, <2>5
    <3>2. object[p][k].is_open => object[p][k].TempFile \in Temps /\ object[p][k].TempFile # t
      <4>1. object[p][k].is_open => object[p][k].TempFile \in Temps
        BY <1>1, <3>1, ReceivedTyped
      <4>2. <<p, k>> # <<p, K>>
        BY SMTT(60), <3>1
      <4> QED
        BY <1>1, <2>1, <3>1, <4>1, <4>2 DEF IInv, FileInv, TempFilesDistinct
    <3>3. object[p][k].is_open => files'[object[p][k].TempFile] = files[object[p][k].TempFile]
      BY <2>3, <3>2
    <3> QED
      BY <2>1, <3>3 DEF Received
  <2> QED
    BY <2>1, <2>4, <2>5
<1> QED
  BY <1>3, <1>4, <1>5

\* ProcessContentOfTheField(): what goes to the field is the beginning of what
\* is to come of its content, and all of it when the next boundary was found.
LEMMA FillPlace ==
    ASSUME IInv, NEW p \in Parsers, PlaceOf(p), NoContent(p) \/ TextContent(p) \/ WriteFile(p)
    PROVE  PlaceOf(p)'
<1>0. PICK K : K = Len(object[p])
  BY Zenon
<1> DEFINE R == Received(p, K)
           C == PartContent(p, K)
           rest == Beyond(C, Len(R))
           z == CRLF \o NextPart(p)
           s == DataCollector[p]
           t == net[p]
           n == DataLengthToSendToField(p)
           m == IF n > 0 THEN n ELSE 0
           b == BoundaryPositionInDataCollector(p)
<1>1. /\ TypeOK /\ OpenInv /\ pc[p] = "process" /\ ContentProcessed(p)
      /\ CurrentStatus[p] = "ProcessingContentOfTheField"
  BY DEF IInv, FileInv, NoContent, TextContent, WriteFile, HasContent, Processing, At
<1>2. refused[p] = "no" /\ form[p].type = "bare" /\ Placed(p)
  <2>1. form[p].type \in ContentTypes
    BY <1>1, PlaceTyped, FormTyped
  <2>2. ~Unnoticed(p)
    BY <1>1 DEF Unnoticed
  <2> QED
    BY <1>1, <2>1, <2>2 DEF PlaceOf, InUse, ContentTypes
<1>3. /\ K \in 1..Len(object[p]) /\ R \in Seq(Bytes) /\ C \in Seq(Bytes) /\ rest \in Seq(Bytes)
      /\ Len(R) \in 0..Len(C) /\ R \o rest = C /\ z \in Seq(Bytes)
      /\ s \o t = rest \o z
      /\ n \in Int /\ n <= Len(rest) /\ n <= Len(s)
      /\ b # 0 => n = Len(rest)
  BY ZenonT(60), <1>0, <1>1, <1>2, ContentFound
<1>4. s \in Seq(Bytes) /\ t \in Seq(Bytes) /\ Len(s) \in Nat /\ Len(rest) \in Nat /\ Len(C) \in Nat
  BY SMTT(60), <1>1, <1>3, PlaceTyped
<1>5. m \in 0..Len(rest) /\ m \in 0..Len(s) /\ (b # 0 => m = Len(rest))
  BY <1>3, <1>4
<1>6. DataCollector'[p] = Beyond(s, m)
  <2>1. CASE n > 0
    BY <1>1, <2>1 DEF ContentProcessed, TruncateDataCollectorFromTheBeginning, TypeOK, Beyond
  <2>2. CASE ~(n > 0)
    <3>1. DataCollector' = DataCollector
      BY <1>1, <2>2 DEF ContentProcessed
    <3>2. Beyond(s, 0) = s
      BY <1>4, AllOf DEF Beyond
    <3> QED
      BY <2>2, <3>1, <3>2
  <2> QED
    BY <2>1, <2>2
<1>7. /\ Received(p, K)' = R \o SubSeq(rest, 1, m)
      /\ \A k \in 1..K : k < K => Received(p, k)' = Received(p, k)
  <2>1. /\ Received(p, K)' = IF n > 0 THEN R \o Data(p) ELSE R
        /\ \A k \in 1..K : k < K => Received(p, k)' = Received(p, k)
    BY ZenonT(60), <1>0, FillReceived
  <2>2. CASE n > 0
    <3>1. Data(p) = SubSeq(s, 1, n)
      BY DEF Data
    <3>2. n \in 0..Len(s) /\ n <= Len(rest)
      BY <1>3, <1>4, <2>2
    <3>3. SubSeq(s, 1, n) = SubSeq(rest, 1, n)
      <4> HIDE DEF s, t, rest, z, n
      <4>1. \A j \in 0..Len(s) : j <= Len(rest) => SubSeq(s, 1, j) = SubSeq(rest, 1, j)
        BY ZenonT(60), <1>3, <1>4, Beginning
      <4> QED
        BY <3>2, <4>1
    <3> QED
      BY ZenonT(60), <2>1, <2>2, <3>1, <3>3
  <2>3. CASE ~(n > 0)
    <3>1. SubSeq(rest, 1, 0) = <<>> /\ R \o <<>> = R
      BY <1>3, EmptyJoin
    <3> QED
      BY ZenonT(60), <2>1, <2>3, <3>1
  <2> QED
    BY ZenonT(60), <2>2, <2>3
<1>8. /\ form' = form /\ net' = net /\ refused' = refused
      /\ Len(object'[p]) = K
      /\ \A k \in 1..K : object'[p][k].name = object[p][k].name
  <2>1. form' = form /\ net' = net /\ refused' = refused
    BY <1>1 DEF ContentProcessed
  <2>2. FieldsKept(p)
    BY FilledKept DEF IInv
  <2> QED
    BY <1>0, <2>1, <2>2 DEF FieldsKept, FieldKept
<1>9. PartContent(p, K)' = C /\ (CRLF \o NextPart(p))' = z
  BY <1>0, <1>8 DEF PartContent, NextPart
<1>10. Left(p)' = Beyond(rest, m) \o z
  <2>1. Beyond(s \o t, m) = Beyond(s, m) \o t
    BY ZenonT(60), <1>4, <1>5, BeyondFirst
  <2>2. Beyond(rest \o z, m) = Beyond(rest, m) \o z
    BY ZenonT(60), <1>3, <1>5, BeyondFirst
  <2> QED
    BY ZenonT(60), <1>3, <1>6, <1>8, <2>1, <2>2 DEF Left
<1> DEFINE new == R \o SubSeq(rest, 1, m)
<1>11. new \in Seq(Bytes) /\ Len(new) = Len(R) + m /\ new \o Beyond(rest, m) = C
  <2>1. SubSeq(rest, 1, m) \in Seq(Bytes) /\ Len(SubSeq(rest, 1, m)) = m
    BY ZenonT(60), <1>3, <1>5, Cutting
  <2>2. new \in Seq(Bytes) /\ Len(new) = Len(R) + m
    BY SMTT(60), <1>3, <2>1, Joining
  <2>3. new \o Beyond(rest, m) = R \o rest
    BY ZenonT(60), <1>3, <1>5, ChunkMoved
  <2> QED
    BY ZenonT(60), <1>3, <2>2, <2>3
<1>12. Beyond(C, Len(new)) = Beyond(rest, m)
  <2>1. Len(rest) = Len(C) - Len(R)
    BY <1>3, Cutting
  <2>2. m \in 0..(Len(C) - Len(R))
    BY <1>5, <2>1
  <2> QED
    BY SMTT(60), <1>3, <1>11, <2>2, BeyondTwice
<1>13. /\ Len(object'[p]) <= Len(form'[p].parts)
       /\ \A k \in 1..Len(object'[p]) :
            /\ object'[p][k].name = HeaderOf[form'[p].parts[k].header].name
            /\ k < Len(object'[p]) => Whole(p, k)'
  <2>1. \A k \in 1..K : k < K => Whole(p, k)'
    BY ZenonT(60), <1>0, <1>2, <1>7, <1>8 DEF Placed, Whole, PartContent
  <2> QED
    BY <1>0, <1>2, <1>8, <2>1 DEF Placed
<1> HIDE DEF R, C, rest, z, s, t, n, m, new
<1>14. CASE b = 0
  <2>1. pc'[p] = "await" /\ CurrentStatus'[p] = "ProcessingContentOfTheField"
    BY <1>1, <1>14 DEF ContentProcessed, Goto, TypeOK
  <2>2. InContent(p)'
    <3>1. Received(p, K)' = new /\ K > 0
      BY <1>3, <1>7 DEF new
    <3> QED
      BY ZenonT(60), <1>8, <1>9, <1>10, <1>11, <1>12, <3>1 DEF InContent, z
  <2>3. Placed(p)'
    BY ZenonT(60), <1>13, <2>1, <2>2 DEF Placed
  <2>4. Exhausted(p)'
    <3>1. Occurrences(Boundary(p), s) = {}
      <4>1. Occurrences(Boundary(p), s) \in SUBSET (Nat \ {0})
        BY <1>1, <1>4, BoundaryTyped DEF Occurrences
      <4>2. FirstOf(Occurrences(Boundary(p), s)) = 0
        BY <1>14 DEF BoundaryPositionInDataCollector, s
      <4> QED
        BY <4>1, <4>2, FirstIsOne
    <3>2. Boundary(p) \in Seq(Bytes) /\ Boundary(p)' = Boundary(p)
      BY <1>1, <1>8, BoundaryTyped DEF Boundary
    <3>3. Occurrences(Boundary(p), Beyond(s, m)) = {}
      BY <1>4, <1>5, <3>1, <3>2, NoneBeyond
    <3> QED
      BY <1>6, <2>1, <3>2, <3>3 DEF Exhausted, BoundaryPositionInDataCollector, FirstOf
  <2>5. refused'[p] = "no" /\ form'[p].type = "bare"
    BY <1>2, <1>8
  <2> QED
    BY <2>1, <2>3, <2>4, <2>5 DEF PlaceOf, InUse, At
<1>15. CASE b # 0
  <2>1. pc'[p] = "process" /\ CurrentStatus'[p] = "LookingForStartingBoundary"
    BY <1>1, <1>15 DEF ContentProcessed, TypeOK
  <2>2. Beyond(rest, m) = <<>>
    BY <1>3, <1>5, <1>15 DEF Beyond
  <2>3. new = C /\ Left(p)' = z
    <3>1. new \o <<>> = new /\ <<>> \o z = z
      BY <1>3, <1>11, EmptyJoin
    <3> QED
      BY <1>10, <1>11, <2>2, <3>1
  <2>4. BeforeBoundary(p)'
    <3>1. Len(object'[p]) # 0
      BY <1>3, <1>8
    <3>2. Left(p)' = (LineEnd(p) \o NextPart(p))'
      BY <1>9, <2>3, <3>1 DEF LineEnd, z
    <3>3. Whole(p, K)'
      BY ZenonT(60), <1>7, <1>9, <2>3 DEF Whole, new
    <3>4. \A k \in 1..K : k < K \/ k = K
      BY <1>3
    <3>5. \A k \in 1..K : Whole(p, k)'
      BY <1>8, <1>13, <3>3, <3>4
    <3> QED
      BY <1>8, <3>2, <3>5 DEF BeforeBoundary
  <2>5. Placed(p)'
    BY <1>13, <2>1, <2>4 DEF Placed
  <2>6. refused'[p] = "no" /\ form'[p].type = "bare"
    BY <1>2, <1>8
  <2> QED
    BY <2>1, <2>5, <2>6 DEF PlaceOf, InUse, At
<1> QED
  BY <1>14, <1>15

\* The choice of a name, and the file that is created: nothing is in it yet.
LEMMA ChoosePlace ==
    ASSUME TypeOK, NEW p \in Parsers, PlaceOf(p), LockFileCreation(p) \/ TestName(p)
    PROVE  PlaceOf(p)'
<1>1. /\ InUse(p) /\ pc'[p] \in {"choose", "open"} /\ pc[p] # "page"
      /\ form' = form /\ net' = net /\ CurrentStatus' = CurrentStatus /\ DataCollector' = DataCollector
      /\ object' = object /\ files' = files /\ refused' = refused
  BY SMTT(60) DEF LockFileCreation, TestName, HasContent, Processing, At, InUse, Goto, TypeOK, parseVars, fieldVars
<1>2. Kept(p) /\ Left(p)' = Left(p)
  BY <1>1, KeptAsIs DEF Left
<1>3. refused'[p] = "no"
  BY <1>1 DEF PlaceOf, InUse
<1>4. pc'[p] # "new" /\ pc'[p] # "await" /\ pc'[p] # "page"
  BY <1>1
<1> QED
  BY <1>1, <1>2, <1>3, <1>4, SteadyPlace

LEMMA OpenPlace ==
    ASSUME IInv, NEW p \in Parsers, PlaceOf(p), NamedLast(p), OpenFile(p)
    PROVE  PlaceOf(p)' /\ NamedLast(p)'
<1>0. PICK n : n = Len(object[p])
  BY Zenon
<1>1. TypeOK /\ PhaseInv /\ OpenInv /\ NameInv
  BY DEF IInv, FileInv
<1>2. /\ n \in 1..Len(object[p]) /\ object[p][n] \in Field /\ object[p][n].file
      /\ ~object[p][n].is_open /\ i[p] \in Temps /\ pc[p] = "open"
  BY <1>0, <1>1, Opening
<1>3. PICK open \in BOOLEAN :
        /\ PutField(p, n, Named(object[p][n], i[p], open))
        /\ IF open THEN /\ files' = [files EXCEPT ![i[p]] = <<>>]
                        /\ Goto(p, "process") /\ UNCHANGED refused
                   ELSE Throw(p, "open") /\ UNCHANGED files
  BY <1>0, <1>1, Opening
<1> DEFINE g == Named(object[p][n], i[p], open)
<1>4. /\ g \in Field /\ g.name = object[p][n].name /\ g.file = object[p][n].file
      /\ g.TempFile = i[p] /\ g.is_open = open
  <2>1. object[p][n] \in Field /\ i[p] \in Temps \cup {0} /\ open \in BOOLEAN
    BY <1>2
  <2>2. g \in Field
    BY ZenonT(60), <2>1, NamedTyped
  <2>3. g.name = object[p][n].name
    BY ZenonT(60), <2>1, NamedTyped
  <2>4. g.TempFile = i[p]
    BY ZenonT(60), <2>1, NamedTyped
  <2>5. g.is_open = open
    BY ZenonT(60), <2>1, NamedTyped
  <2>6. g.file = object[p][n].file
    BY SMTT(60), <2>1 DEF Named, Field
  <2> QED
    BY ZenonT(60), <2>2, <2>3, <2>4, <2>5, <2>6
<1> HIDE DEF g
<1>5. /\ Len(object'[p]) = Len(object[p]) /\ object'[p][n] = g
      /\ \A k \in 1..Len(object[p]) : k # n => object'[p][k] = object[p][k]
  BY <1>1, <1>2, <1>3, <1>4, Replaced DEF g
<1>6. files \in [Temps -> Seq(Bytes) \cup {Absent}] /\ files[i[p]] = Absent
  BY <1>1, <1>2 DEF TypeOK, NameInv, At
<1>7. /\ open => files'[i[p]] = <<>>
      /\ \A t \in Temps : t # i[p] => files'[t] = files[t]
  BY <1>2, <1>3, <1>6
<1>8. /\ form' = form /\ net' = net /\ CurrentStatus' = CurrentStatus /\ DataCollector' = DataCollector
      /\ Fields' = Fields
  BY DEF OpenFile, parseVars
<1>9. Received(p, n)' = Received(p, n)
  <2>1. Received(p, n) = <<>>
    BY <1>2 DEF Received
  <2> QED
    BY ZenonT(60), <1>2, <1>4, <1>5, <1>7, <2>1 DEF Received
<1>10. ASSUME NEW k \in 1..Len(object[p]), k # n
       PROVE  Received(p, k)' = Received(p, k)
  <2>1. object'[p][k] = object[p][k]
    BY <1>5, <1>10
  <2>2. object[p][k].is_open => files'[object[p][k].TempFile] = files[object[p][k].TempFile]
    <3>1. object[p][k].is_open => object[p][k].TempFile \in Temps
      BY <1>1, ReceivedTyped
    <3>2. object[p][k].is_open => files[object[p][k].TempFile] # Absent
      BY <1>1 DEF OpenInv, Opened
    <3> QED
      BY <1>6, <1>7, <3>1, <3>2
  <2> QED
    BY <2>1, <2>2 DEF Received
<1>11. Kept(p) /\ \A k \in 1..Len(object[p]) : object'[p][k].name = object[p][k].name
  <2>1. \A k \in 1..Len(object[p]) : object'[p][k].name = object[p][k].name
    BY <1>4, <1>5
  <2>2. \A k \in 1..Len(object[p]) : Received(p, k)' = Received(p, k)
    BY <1>9, <1>10
  <2> QED
    BY <1>5, <1>8, <2>1, <2>2 DEF Kept
<1>12. PlaceOf(p)'
  <2>1. InUse(p) /\ refused[p] = "no" /\ Left(p)' = Left(p)
    BY <1>2, <1>8 DEF InUse, PlaceOf, Left
  <2>2. \/ pc'[p] = "process" /\ refused'[p] = "no"
        \/ pc'[p] = "page" /\ refused'[p] = "open"
    <3>1. (Goto(p, "process") /\ UNCHANGED refused) \/ Throw(p, "open")
      BY <1>3
    <3> QED
      BY <1>1, <2>1, <3>1 DEF Goto, Throw, TypeOK
  <2> QED
    BY <1>1, <1>8, <1>11, <2>1, <2>2, SteadyPlace
<1>13. NamedLast(p)'
  <2>1. ~Ending(p)
    BY <1>2 DEF Ending
  <2> QED
    BY <1>1, <1>5, <1>8, <1>11, <2>1, NamedFrame
<1> QED
  BY <1>12, <1>13

\* The page, and ~Parser().
LEMMA EndPlace ==
    ASSUME TypeOK, NEW p \in Parsers,
           PageDone(p) \/ (\E n \in Names : DeleteField(p, n)) \/ RemoveFile(p) \/ ParserDeleted(p)
    PROVE  PlaceOf(p)' /\ NamedLast(p)'
<1>1. pc'[p] \in {"delete", "remove", "gone"}
  <2>1. CASE PageDone(p) \/ RemoveFile(p) \/ ParserDeleted(p)
    BY <2>1 DEF PageDone, RemoveFile, ParserDeleted, Goto, TypeOK
  <2>2. CASE \E n \in Names : DeleteField(p, n)
    <3>1. PICK n \in Names : DeleteField(p, n)
      BY <2>2
    <3>2. pc[p] = "delete" /\ (pc' = pc \/ Goto(p, "remove"))
      BY ZenonT(60), <3>1, Deleting
    <3> QED
      BY <3>2 DEF Goto, TypeOK
  <2> QED
    BY <2>1, <2>2
<1> QED
  BY <1>1, EndingPlace DEF NamedLast, Ending

LEMMA OwnPlace ==
    ASSUME IInv, NEW p \in Parsers, Step(p), PlaceOf(p), NamedLast(p)
    PROVE  PlaceOf(p)' /\ NamedLast(p)'
<1>1. TypeOK
  BY DEF IInv
<1>2. ASSUME object' = object, Fields' = Fields, ~Ending(p)
      PROVE  NamedLast(p)'
  BY <1>1, <1>2, NamedFrame
<1>3. CASE SetContentType(p) \/ AcceptSomeData(p) \/ EndOfBody(p) \/ FindStartingBoundary(p)
           \/ WaitForHeadersEnd(p) \/ RejectHeaders(p)
  <2>1. PlaceOf(p)'
    BY <1>1, <1>3, ContentTypePlace, AcceptPlace, EndOfBodyPlace, FindPlace, WaitPlace, RejectPlace
  <2>2. object' = object /\ Fields' = Fields /\ ~Ending(p)
    BY <1>3 DEF SetContentType, AcceptSomeData, EndOfBody, FindStartingBoundary, WaitForHeadersEnd,
                RejectHeaders, Processing, At, Ending, fieldVars
  <2> QED
    BY <1>2, <2>1, <2>2
<1>4. CASE ParseHeaders(p)
  BY <1>1, <1>4, ParsePlace
<1>5. CASE NoContent(p) \/ TextContent(p) \/ WriteFile(p)
  <2>1. PlaceOf(p)'
    BY <1>5, FillPlace
  <2>2. FieldsKept(p) /\ Fields' = Fields /\ ~Ending(p)
    <3>1. FieldsKept(p)
      BY <1>5, FilledKept DEF IInv
    <3>2. Fields' = Fields /\ pc[p] = "process"
      BY <1>5 DEF NoContent, TextContent, WriteFile, HasContent, Processing, At, ContentProcessed
    <3> QED
      BY <3>1, <3>2 DEF Ending
  <2>3. NamedLast(p)'
    BY <1>1, <2>2, NamedFrame DEF FieldsKept, FieldKept
  <2> QED
    BY <2>1, <2>3
<1>6. CASE LockFileCreation(p) \/ TestName(p)
  <2>1. PlaceOf(p)'
    BY <1>1, <1>6, ChoosePlace
  <2>2. object' = object /\ Fields' = Fields /\ ~Ending(p)
    BY <1>6 DEF LockFileCreation, TestName, HasContent, Processing, At, Ending, fieldVars
  <2> QED
    BY <1>2, <2>1, <2>2
<1>7. CASE OpenFile(p)
  BY <1>7, OpenPlace
<1>8. CASE PageDone(p) \/ (\E n \in Names : DeleteField(p, n)) \/ RemoveFile(p) \/ ParserDeleted(p)
  BY <1>1, <1>8, EndPlace
<1> QED
  BY <1>3, <1>4, <1>5, <1>6, <1>7, <1>8 DEF Step

(***************************************************************************)
(* What is promised of a form                                              *)
(***************************************************************************)
LEMMA PlaceInit == Init => PlaceInv
<1> SUFFICES ASSUME Init, NEW p \in Parsers
             PROVE  PlaceOf(p) /\ NamedLast(p)
  BY DEF PlaceInv
<1>1. /\ pc[p] = "new" /\ refused[p] = "no" /\ DataCollector[p] = <<>> /\ object[p] = <<>>
      /\ CurrentStatus[p] = "LookingForStartingBoundary" /\ net[p] = Body(form[p])
      /\ form[p] \in AllForms
  BY DEF Init
<1>2. Left(p) = Body(form[p])
  <2>1. Body(form[p]) \in Seq(Bytes)
    BY <1>1, MultipartAssumption
  <2> QED
    BY <1>1, <2>1, EmptyJoin DEF Left
<1>3. Len(object[p]) = 0 /\ \A k \in 1..Len(object[p]) : FALSE
  BY <1>1
<1>4. Unnoticed(p)
  BY <1>1, <1>2, <1>3 DEF Unnoticed
<1> QED
  BY <1>1, <1>3, <1>4 DEF PlaceOf, NamedLast, InUse, At

LEMMA PlaceStep == IInv /\ PlaceInv /\ [Next]_vars => PlaceInv'
<1>1. ASSUME IInv, PlaceInv, Next
      PROVE  PlaceInv'
  <2>1. PICK p \in Parsers : Step(p)
    BY <1>1 DEF Next
  <2> SUFFICES ASSUME NEW q \in Parsers
               PROVE  PlaceOf(q)' /\ NamedLast(q)'
    BY DEF PlaceInv
  <2>2. PlaceOf(q) /\ NamedLast(q)
    BY <1>1 DEF PlaceInv
  <2>3. CASE q = p
    BY <1>1, <2>1, <2>2, <2>3, OwnPlace
  <2>4. CASE q # p
    BY <1>1, <2>1, <2>2, <2>4, OthersPlace
  <2> QED
    BY <2>3, <2>4
<1>2. ASSUME IInv, PlaceInv, UNCHANGED vars
      PROVE  PlaceInv'
  <2> SUFFICES ASSUME NEW q \in Parsers
               PROVE  PlaceOf(q)' /\ NamedLast(q)'
    BY DEF PlaceInv
  <2>1. TypeOK /\ PlaceOf(q) /\ NamedLast(q)
    BY <1>2 DEF PlaceInv, IInv
  <2>2. Same(q) /\ SameBytes(q) /\ files' = files
    BY <1>2 DEF vars, parseVars, fieldVars, fileVars, Same, SameBytes
  <2> QED
    BY <2>1, <2>2, PlaceFrame
<1> QED
  BY <1>1, <1>2

LEMMA PlaceInductive == Spec => [](IInv /\ PlaceInv)
BY Initially, Invariance, PlaceInit, PlaceStep, PTL DEF Spec

LEMMA PrefixOfJoin ==
    ASSUME NEW s \in Seq(Bytes), NEW t \in Seq(Bytes)
    PROVE  IsPrefix(s, s \o t) /\ IsPrefix(s, s) /\ IsPrefix(<<>>, s)
<1>1. Len(s) <= Len(s \o t) /\ Len(s) \in 0..Len(s)
  BY Joining
<1>2. SubSeq(s \o t, 1, Len(s)) = SubSeq(s, 1, Len(s))
  BY <1>1, TakeFirst
<1>3. SubSeq(<<>>, 1, 0) = <<>> /\ SubSeq(s, 1, 0) = <<>> /\ Len(<<>>) = 0 /\ 0 <= Len(s)
  OBVIOUS
<1> QED
  BY <1>1, <1>2, <1>3 DEF IsPrefix

LEMMA FieldsMean == IInv /\ PlaceInv => FieldsFaithful
<1> SUFFICES ASSUME IInv, PlaceInv, NEW p \in Parsers, InUse(p)
             PROVE  LET parts == form[p].parts IN
                    /\ Len(object[p]) <= Len(parts)
                    /\ form[p].type = "quoted" => object[p] = <<>>
                    /\ \A k \in 1..Len(object[p]) :
                         /\ object[p][k].name = HeaderOf[parts[k].header].name
                         /\ IsPrefix(Received(p, k), parts[k].content)
                         /\ Complete(p, k) => Received(p, k) = parts[k].content
  BY ZenonT(60) DEF FieldsFaithful
<1>1. /\ TypeOK /\ OpenInv /\ PlaceOf(p) /\ form[p] \in AllForms /\ Len(object[p]) \in Nat
      /\ object[p] \in Seq(Field) /\ Len(form[p].parts) \in Nat
  <2>1. TypeOK /\ OpenInv /\ PlaceOf(p)
    BY DEF IInv, FileInv, PlaceInv
  <2> QED
    BY ZenonT(60), <2>1, PlaceTyped, FormTyped DEF TypeOK
<1>2. form[p].type \in {"bare", "quoted"}
  BY <1>1, FormTyped DEF PlaceOf, ContentTypes
<1>3. CASE form[p].type = "quoted"
  <2>1. Len(object[p]) = 0
    BY <1>1, <1>3 DEF PlaceOf, Unnoticed
  <2>2. object[p] = <<>>
    BY <1>1, <2>1
  <2> QED
    BY <1>1, <2>1, <2>2
<1>4. CASE form[p].type = "bare"
  <2>1. Placed(p)
    BY <1>1, <1>4 DEF PlaceOf
  <2> SUFFICES ASSUME NEW k \in 1..Len(object[p])
               PROVE  /\ IsPrefix(Received(p, k), PartContent(p, k))
                      /\ Complete(p, k) => Received(p, k) = PartContent(p, k)
    BY <1>4, <2>1 DEF Placed, PartContent
  <2>2. PartContent(p, k) \in Seq(Bytes) /\ Received(p, k) \in Seq(Bytes)
    <3>1. k \in 1..Len(form[p].parts)
      BY <1>1, <2>1 DEF Placed
    <3> QED
      BY ZenonT(60), <1>1, <3>1, FormTyped, ReceivedTyped DEF PartContent
  <2>3. CASE Whole(p, k)
    BY <2>2, <2>3, PrefixOfJoin DEF Whole
  <2>4. CASE ~Whole(p, k)
    <3>1. k = Len(object[p])
      BY <1>1, <2>1, <2>4 DEF Placed
    <3>2. CASE CurrentStatus[p] = "LookingForStartingBoundary"
      BY <2>1, <2>4, <3>2 DEF Placed, BeforeBoundary
    <3>3. CASE CurrentStatus[p] = "ProcessingHeaders"
      <4>1. refused[p] = "headers" /\ Received(p, k) = <<>>
        BY <1>1, <2>1, <2>4, <3>1, <3>3 DEF Placed, BeforeHeaders, HeadersRefused
      <4>2. ~Complete(p, k)
        BY <1>1, <3>1, <3>3, <4>1 DEF Complete
      <4> QED
        BY <2>2, <4>1, <4>2, PrefixOfJoin
    <3>4. CASE CurrentStatus[p] = "ProcessingContentOfTheField"
      <4> DEFINE rest == Beyond(PartContent(p, k), Len(Received(p, k)))
      <4>1. rest \in Seq(Bytes) /\ Received(p, k) \o rest = PartContent(p, k)
        BY ZenonT(60), <1>1, <1>4, <2>1, <3>1, <3>4, ContentFound
      <4>2. ~Complete(p, k)
        BY <1>1, <3>1, <3>4 DEF Complete
      <4>3. IsPrefix(Received(p, k), Received(p, k) \o rest)
        BY ZenonT(60), <2>2, <4>1, PrefixOfJoin
      <4> QED
        BY <4>1, <4>2, <4>3
    <3> QED
      BY <1>1, <3>2, <3>3, <3>4 DEF TypeOK, Statuses
  <2> QED
    BY <2>3, <2>4
<1> QED
  BY <1>2, <1>3, <1>4

LEMMA FormMeans == IInv /\ PlaceInv => FormComplete
<1> SUFFICES ASSUME IInv, PlaceInv, NEW p \in Parsers, pc[p] = "page", refused[p] = "no",
                    form[p].type = "bare"
             PROVE  /\ Len(object[p]) = Len(form[p].parts)
                    /\ \A n \in Names : \A k \in 1..Len(object[p]) :
                         object[p][k].name = n => Fields[p][n] >= k /\ object[p][Fields[p][n]].name = n
  BY DEF FormComplete, At
<1>1. TypeOK /\ OpenInv /\ PlaceOf(p) /\ NamedLast(p)
  BY DEF IInv, FileInv, PlaceInv
<1>2. Placed(p) /\ Exhausted(p) /\ net[p] = <<>>
  BY <1>1 DEF PlaceOf, InUse, At
<1>3. DataCollector[p] \in Seq(Bytes) /\ Left(p) = DataCollector[p] /\ Len(object[p]) \in Nat
      /\ Len(DataCollector[p]) \in Nat
  <2>1. DataCollector[p] \in Seq(Bytes) /\ Len(object[p]) \in Nat /\ Len(DataCollector[p]) \in Nat
    BY <1>1, PlaceTyped
  <2> QED
    BY <1>2, <2>1, EmptyJoin DEF Left
<1>4. CASE CurrentStatus[p] = "LookingForStartingBoundary"
  <2>1. BoundaryPositionInDataCollector(p) = 0
    BY <1>2, <1>4 DEF Exhausted
  <2>2. LineEnd(p) \in Seq(Bytes) /\ Delimiter \in Seq(Bytes)
    BY <1>1, PlaceTyped, ConstantsTyped
  <2>3. ~(Len(LineEnd(p)) + Len(Delimiter) <= Len(DataCollector[p]))
    <3>1. BoundaryPositionInDataCollector(p)
            = IF Len(LineEnd(p)) + Len(Delimiter) <= Len(DataCollector[p]) THEN Len(LineEnd(p)) + 1 ELSE 0
      BY ZenonT(60), <1>1, <1>2, <1>4, StartFound
    <3>2. Len(LineEnd(p)) \in Nat
      BY <2>2
    <3> QED
      BY <2>1, <3>1, <3>2
  <2>4. PICK y \in Seq(Bytes) : NextPart(p) = Delimiter \o y
    BY ZenonT(60), <1>1, <1>2, NextTyped DEF Placed
  <2>5. Len(Delimiter \o y) = Len(Delimiter) + Len(y) /\ Len(y) \in Nat /\ Delimiter \o y \in Seq(Bytes)
        /\ Len(Delimiter) \in Nat
    BY <2>2, <2>4, Joining
  <2>6. Len(LineEnd(p) \o (Delimiter \o y)) = Len(LineEnd(p)) + Len(Delimiter \o y) /\ Len(LineEnd(p)) \in Nat
    BY <2>2, <2>5, Joining
  <2>7. DataCollector[p] = LineEnd(p) \o (Delimiter \o y)
    BY ZenonT(60), <1>2, <1>3, <1>4, <2>4 DEF Placed, BeforeBoundary
  <2> QED
    BY <2>3, <2>5, <2>6, <2>7
<1>5. CASE CurrentStatus[p] = "ProcessingHeaders"
  <2>1. HeadersEnd(p) = 0 /\ BeforeHeaders(p) /\ Len(object[p]) <= Len(form[p].parts)
    BY <1>2, <1>5 DEF Exhausted, Placed
  <2>2. Len(object[p]) + 1 = Len(form[p].parts) + 1
    <3>1. \/ HeadersEnd(p) = 0 => Len(DataCollector[p]) < Len(Left(p))
          \/ Len(object[p]) + 1 = Len(form[p].parts) + 1
      BY ZenonT(60), <1>1, <2>1, HeadersState
    <3>2. ~(Len(DataCollector[p]) < Len(Left(p)))
      BY SMTT(60), <1>3
    <3> QED
      BY SMTT(60), <2>1, <3>1, <3>2
  <2>3. Len(form[p].parts) \in Nat
    BY <1>1, PlaceTyped, FormTyped
  <2>4. Len(object[p]) = Len(form[p].parts)
    BY <1>3, <2>2, <2>3
  <2>5. ~Ending(p)
    BY DEF Ending
  <2> QED
    BY <1>1, <2>4, <2>5 DEF NamedLast
<1>6. CASE CurrentStatus[p] = "ProcessingContentOfTheField"
  <2> DEFINE K == Len(object[p])
             rest == Beyond(PartContent(p, K), Len(Received(p, K)))
             w == rest \o (CRLF \o NextPart(p))
  <2>1. BoundaryPositionInDataCollector(p) = 0
    BY <1>2, <1>6 DEF Exhausted
  <2>2. Len(DataCollector[p]) < Len(w) /\ DataCollector[p] \o net[p] = w
    BY ZenonT(60), <1>1, <1>2, <1>6, <2>1, ContentFound
  <2> HIDE DEF w
  <2>3. DataCollector[p] = w
    BY <1>3, <2>2 DEF Left
  <2> QED
    BY <1>3, <2>2, <2>3
<1> QED
  BY <1>1, <1>4, <1>5, <1>6 DEF TypeOK, Statuses

(***************************************************************************)
(* The theorems                                                            *)
(***************************************************************************)
\* Every variable keeps its type: what AcceptSomeData() has not been given is
\* an end of the body, the collector of a parser that was not refused is no
\* longer than MaxDataCollectorLength, the map points to fields that exist, an
\* open field is a file's with a number, and fileCreation_mutex is held exactly
\* where SetContent of a file chooses a name; so every way out releases it.
THEOREM FormTypeCorrect == Spec => []TypeOK
<1>1. IInv => TypeOK
  BY DEF IInv
<1> QED
  BY <1>1, Inductive, PTL

\* The names that Field::AcceptSomeData() tests and creates under the mutex,
\* while ~Field() removes files without it, are never those of two open
\* fields, whatever the number of requests.
THEOREM FilesDistinct == Spec => []TempFilesDistinct
<1>1. IInv => TempFilesDistinct
  BY DEF IInv, FileInv
<1> QED
  BY <1>1, Inductive, PTL

\* A temporary file that exists, and was not there before, belongs to an open
\* field, or ~Field() is about to remove it; a parser that is gone leaves only
\* the file of a field whose place in the map another took.
THEOREM NoFileLeft == Spec => []FilesRemoved
<1>1. IInv => FilesRemoved
  BY DEF IInv, FileInv
<1> QED
  BY <1>1, Inductive, PTL

\* A field holds a beginning of the content of its part, and all of it once the
\* next boundary was found, however AcceptSomeData() is given the body and
\* whatever other requests do to the temporary files: for any forms, contents,
\* boundary and sizes.
THEOREM FormsFaithful == Spec => []FieldsFaithful
BY PlaceInductive, FieldsMean, PTL

\* The page of a body that was not refused has a field for every part, and the
\* map has the last one of each name: no boundary and no headers are overlooked
\* at the end of the body.
THEOREM FormsComplete == Spec => []FormComplete
BY PlaceInductive, FormMeans, PTL
=============================================================================
