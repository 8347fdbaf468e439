SPECIFICATION FairSpec
CONSTANTS
    p1 = p1  p2 = p2
    Parsers = {p1, p2}
    NoParser = NoParser
    Bytes <- SomeBytes
    Delimiter <- Dashes
    Quoted <- QuotedName
    HeaderOf <- HeaderTexts
    Forms <- SomeForms
    ChunkMax = 3
    MaxDataCollectorLength = 9
    TempMax = 8
    StaleTemps = {1}
    Absent = Absent
INVARIANTS FieldsFaithful FormComplete TempFilesDistinct FilesRemoved
PROPERTIES ParserEnds
CHECK_DEADLOCK FALSE
