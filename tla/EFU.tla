-------------------------------- MODULE EFU --------------------------------
(***************************************************************************)
(* coldshelf import-efu: EFU of internal/importer/efu.go and the caller    *)
(* that gives each of its entries to a SnapshotWriter (importEFUCommand in *)
(* cmd/coldshelf/main.go).                                                 *)
(*                                                                         *)
(* A cell of the file is a sequence of tokens: separators, and parts of    *)
(* names or numbers.  A name may be of several tokens, because the prefix  *)
(* that is cut from the paths may end in the middle of a name.  A dot that *)
(* is a name or half of one, and a NUL, are tokens of their own.  Letters  *)
(* and Numbers say what the code looks for in a token.  A file's header    *)
(* and records are of any length and order, as encoding/csv gives them     *)
(* with FieldsPerRecord = -1.                                              *)
(***************************************************************************)
EXTENDS Integers, FiniteSets, SequencesExt

CONSTANTS
    EfuFiles,    \* the files: header, records, --strip-prefix
    Letters,     \* Letters[t]: which of D and H are in token t
    Numbers      \* Numbers[t]: what ParseInt returns for a token t of digits,
                 \* one too large being the nearest int64

Tokens     == DOMAIN Letters
Slash      == "/"
Separators == {"/", "\\"}
Dot        == "."
DotDot     == <<Dot, Dot>>
Nul        == "NUL"

ASSUME EfuAssumption ==
    /\ Separators \cup {Dot, Nul} \subseteq Tokens
    /\ \A t \in DOMAIN Numbers : Numbers[t] \in Int
    /\ \A f \in EfuFiles : /\ f.header \in Seq(STRING)
                           /\ f.records \in Seq(Seq(Seq(Tokens)))
                           /\ f.prefix \in Seq(Tokens)

VARIABLES
    file,        \* the file that is imported
    line,        \* the records read so far
    imported,    \* the entries the writer has taken, in order
    totals,      \* EFUResult
    efuResult    \* what EFU, then the command, has returned

efuVars == <<file, line, imported, totals, efuResult>>

-----------------------------------------------------------------------------
(* Cells and paths.                                                        *)

\* FoldLeft for a step that is a function: what is proved of a fold for every
\* step can then be used of this one or that.
Fold(step, base, text) ==
    LET after[i \in 0 .. Len(text)] ==
            IF i = 0 THEN base ELSE step[after[i - 1]][text[i]]
    IN  after[Len(text)]

EndsInSlash(path) == path # <<>> /\ Last(path) = Slash

\* ReplaceAll of backslashes, then of two slashes by one until there are none.
Squeeze ==
    [path \in Seq(Tokens) |-> [token \in Tokens |->
        IF token \notin Separators THEN Append(path, token)
        ELSE IF EndsInSlash(path) THEN path ELSE Append(path, Slash)]]

\* normalizeWindowsPath: slashes, never two in a row, none at the end.
Normalize(text) ==
    LET path == Fold(Squeeze, <<>>, text)
    IN  IF EndsInSlash(path) THEN Front(path) ELSE path

\* strings.TrimPrefix, which knows nothing of the ends of names.
TrimPrefix(path, prefix) ==
    IF IsPrefix(prefix, path)
      THEN SubSeq(path, Len(prefix) + 1, Len(path)) ELSE path

\* Mutant: the separator after the prefix stays.
CatalogPathUntrimmed(text) ==
    TrimPrefix(Normalize(text), Normalize(file.prefix))

\* strings.TrimLeft of what is left; there are no two slashes in a row.
CatalogPath(text) ==
    LET path == TrimPrefix(Normalize(text), Normalize(file.prefix))
    IN  IF path # <<>> /\ Head(path) = Slash THEN Tail(path) ELSE path

\* The names along a path, whatever separates them.
SplitAt ==
    [found \in [open : BOOLEAN, names : Seq(Seq(Tokens))] |-> [token \in Tokens |->
        IF token \in Separators THEN [open |-> FALSE, names |-> found.names]
        ELSE [open  |-> TRUE,
              names |-> IF found.open
                          THEN Append(Front(found.names),
                                      Append(Last(found.names), token))
                          ELSE Append(found.names, <<token>>)]]]

Names(text) == Fold(SplitAt, [open |-> FALSE, names |-> <<>>], text).names

Name == Seq(Tokens \ Separators) \ {<<>>}

\* A path goes on with another name.
Opened(path) == IF path = <<>> \/ EndsInSlash(path) THEN path
                ELSE Append(path, Slash)
JoinStep == [path \in Seq(Tokens) |-> [name \in Name |-> Opened(path) \o name]]
Join(start, names) == Fold(JoinStep, start, names)

\* path.Clean of a relative path, name by name: a name of one dot goes, one of
\* two takes the name before it along.
CleanStep ==
    [names \in Seq(Name) |-> [name \in Name |->
        CASE name = <<Dot>> -> names
          [] name = DotDot /\ names # <<>> /\ Last(names) # DotDot -> Front(names)
          [] OTHER -> Append(names, name)]]

\* path.Dir and path.Base of a relative path that ends in a name.
Dir(path) ==
    LET names == Fold(CleanStep, <<>>, Front(Names(path)))
    IN  IF names = <<>> THEN <<Dot>> ELSE Join(<<>>, names)
Base(path) == Last(Names(path))

ParentPath(path) == IF Dir(path) \in {<<Dot>>, <<Slash>>} THEN <<>> ELSE Dir(path)

\* The map of columns: of two with one name the later counts.
HasColumn(name) == \E i \in DOMAIN file.header : file.header[i] = name
Position(name)  == CHOOSE i \in DOMAIN file.header :
                       /\ file.header[i] = name
                       /\ \A j \in DOMAIN file.header :
                              file.header[j] = name => j <= i

\* Mutant: the columns are those of the usual order.
ColumnFixed(name) == CASE name = "Filename"   -> 1
                       [] name = "Size"       -> 2
                       [] name = "Attributes" -> 3

\* A column that the file lacks is the zero value of the map: the first.
Column(name) == IF HasColumn(name) THEN Position(name) ELSE 1

Field(record, column) ==
    IF column \in DOMAIN record THEN record[column] ELSE <<>>

LettersIn(cell) == UNION {Letters[token] : token \in ToSet(cell)}

\* strconv.ParseInt of a whole cell, its error ignored.
SizeOf(cell) == IF Len(cell) = 1 /\ Head(cell) \in DOMAIN Numbers
                  THEN Numbers[Head(cell)] ELSE 0

\* The attributes alone decide: a slash at the end of a path, which the code
\* looks for too, is gone by then.
KindOf(record) ==
    IF "D" \in LettersIn(Field(record, Column("Attributes")))
      THEN "directory" ELSE "file"

EntryOf(record) ==
    LET path == CatalogPath(record[Column("Filename")])
    IN  [path |-> path, parent |-> ParentPath(path), name |-> Base(path),
         kind |-> KindOf(record),
         size |-> IF KindOf(record) = "directory" THEN 0
                  ELSE SizeOf(Field(record, Column("Size")))]

Counted(entry) ==
    [files       |-> totals.files + (IF entry.kind = "file" THEN 1 ELSE 0),
     directories |-> totals.directories
                         + (IF entry.kind = "directory" THEN 1 ELSE 0),
     bytes       |-> totals.bytes + entry.size]

-----------------------------------------------------------------------------
(* EFU, record by record, and its caller.                                  *)

EfuInit(files) ==
    /\ file \in files
    /\ line = 0 /\ imported = <<>>
    /\ totals = [files |-> 0, directories |-> 0, bytes |-> 0]
    /\ efuResult = "none"

Reading == efuResult = "none"
NextRecord == file.records[line + 1]

\* No Filename column, or the reader fails: at the header or at any record.
ReadFails ==
    /\ Reading
    /\ efuResult' = "error"
    /\ UNCHANGED <<file, line, imported, totals>>

\* There is a header with a Filename column and another record.
HasNext == Reading /\ HasColumn("Filename") /\ line < Len(file.records)

\* The record is too short to have a file name, or is the prefix itself.
Skips(record) ==
    Column("Filename") \in DOMAIN record =>
        CatalogPath(record[Column("Filename")]) = <<>>

SkipRecord ==
    /\ HasNext /\ Skips(NextRecord)
    /\ line' = line + 1
    /\ UNCHANGED <<file, imported, totals, efuResult>>

Taken(path) == \E i \in DOMAIN imported : imported[i].path = path

\* The totals are counted, then the writer takes the entry.
Yield ==
    /\ HasNext /\ ~Skips(NextRecord)
    /\ ~Taken(EntryOf(NextRecord).path)
    /\ line' = line + 1
    /\ totals' = Counted(EntryOf(NextRecord))
    /\ imported' = Append(imported, EntryOf(NextRecord))
    /\ UNCHANGED <<file, efuResult>>

\* writer.Add fails, always so for a path it has: EFU returns the error with
\* the totals it has counted.
EfuYieldFails ==
    /\ HasNext /\ ~Skips(NextRecord)
    /\ totals' = Counted(EntryOf(NextRecord))
    /\ efuResult' = "error"
    /\ UNCHANGED <<file, line, imported>>

EndOfFile ==
    /\ Reading /\ HasColumn("Filename") /\ line = Len(file.records)
    /\ efuResult' = "ok"
    /\ UNCHANGED <<file, line, imported, totals>>

\* writer.Complete: the entries become the view of the new drive.
EfuComplete ==
    /\ efuResult = "ok"
    /\ efuResult' = "complete"
    /\ UNCHANGED <<file, line, imported, totals>>

\* writer.Fail, or a Complete that fails: nothing of the file is kept, and the
\* new drive stays without a view.
EfuFail ==
    /\ efuResult \in {"ok", "error"}
    /\ efuResult' = "failed"
    /\ imported' = <<>>
    /\ UNCHANGED <<file, line, totals>>

EfuDone == efuResult \in {"complete", "failed"} /\ UNCHANGED efuVars

EfuNext ==
    \/ ReadFails \/ SkipRecord \/ Yield \/ EfuYieldFails \/ EndOfFile
    \/ EfuComplete \/ EfuFail \/ EfuDone

EfuSpec == EfuInit(EfuFiles) /\ [][EfuNext]_efuVars

-----------------------------------------------------------------------------
(* Properties.                                                             *)

Rooted(text) == text # <<>> /\ Head(text) \in Separators

\* A path below the prefix, in whatever way either is spelled.
IsBelow(text) ==
    /\ IsPrefix(Names(file.prefix), Names(text))
    /\ Names(file.prefix) # <<>> => (Rooted(file.prefix) <=> Rooted(text))

\* docs/EFU_IMPORT.md: the mounted portion is removed from every path.
Relative(text) ==
    IF IsBelow(text)
      THEN SubSeq(Names(text), Len(Names(file.prefix)) + 1, Len(Names(text)))
      ELSE Names(text)

\* A name in the path goes on where the prefix ends.
CutsAName(text) ==
    IsPrefix(Normalize(file.prefix), Normalize(text))
        /\ ~IsPrefix(Names(file.prefix), Names(text))

\* The cell below a heading: of two with one name the later counts.
CellOf(record, name) ==
    IF HasColumn(name) THEN Field(record, Position(name)) ELSE <<>>

Items(n) == {i \in 1 .. n : Relative(CellOf(file.records[i], "Filename")) # <<>>}

\* The entry that record i should have become: records come in order.
EntryFor(i) == imported[Cardinality(Items(i))]

Imported(kind) == {i \in DOMAIN imported : imported[i].kind = kind}

\* A finished import has one entry for each item the list names, in its order,
\* under the names it has below the prefix, and of the kind its own attributes
\* tell, however the columns are ordered, paths are spelled and records are cut
\* short; and it says of how many of each kind (efu.go EFU; docs/EFU_IMPORT.md).
EveryItemArrives ==
    efuResult = "complete" =>
        LET n == Len(file.records)
        IN  /\ Len(imported) = Cardinality(Items(n))
            /\ \A i \in Items(n) :
                   LET text       == CellOf(file.records[i], "Filename")
                       attributes == CellOf(file.records[i], "Attributes")
                   IN  /\ CutsAName(text)
                              \/ Names(EntryFor(i).path) = Relative(text)
                       /\ HasColumn("Attributes") =>
                              (EntryFor(i).kind = "directory"
                               <=> "D" \in LettersIn(attributes))
            /\ totals.files = Cardinality(Imported("file"))
            /\ totals.directories = Cardinality(Imported("directory"))

\* validateImportedEntry of internal/catalog/import.go.  An EFU entry has no
\* hash; its extension is a part of its name; kind and hidden are of the values
\* that are asked for.
ValidImportedEntry(entry) ==
    /\ entry.path # <<>> /\ {"\\", Nul} \cap ToSet(entry.path) = {}
    /\ Head(entry.path) # Slash /\ Last(entry.path) # Slash
    /\ \A i \in 1 .. Len(entry.path) - 1 :
           entry.path[i] # Slash \/ entry.path[i + 1] # Slash
    /\ {<<Dot>>, DotDot} \cap ToSet(Names(entry.path)) = {}
    /\ entry.name # <<>> /\ {"/", "\\", Nul} \cap ToSet(entry.name) = {}
    /\ entry.name = Base(entry.path)
    /\ entry.parent = IF Dir(entry.path) = <<Dot>> THEN <<>> ELSE Dir(entry.path)
    /\ entry.size >= 0

\* What EFU takes as it finds it.
Odd(entry) ==
    \/ entry.size < 0
    \/ Nul \in ToSet(entry.path)
    \/ {<<Dot>>, DotDot} \cap ToSet(Names(entry.path)) # {}

\* Two parts of the program agree on what an entry is: what one computer has
\* imported from a list, another may import with the whole catalog.  It refuses
\* the catalog for three things in a list and no others, a negative size, a NUL
\* and a name that is one dot or two, which EFU takes without a word (efu.go
\* EFU; import.go validateImportedEntry).  Whatever the list and the prefix, the
\* path, the name and the parent are otherwise as the import asks.
EntriesMoveOn ==
    \A i \in DOMAIN imported :
        ValidImportedEntry(imported[i]) <=> ~Odd(imported[i])
=============================================================================
