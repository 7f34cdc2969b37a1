------------------------------- MODULE Ingestion ------------------------------
(***************************************************************************)
(* The import of historical data: the upload route                         *)
(* (api/routes/platform.py) reads a file (data_ingestion/readers), the     *)
(* pipeline (data_ingestion/pipeline/core.py) classifies its records one   *)
(* after the other and reports on them, and the store                      *)
(* (data_ingestion/store.py) keeps those that are not rejected.            *)
(*                                                                         *)
(* A pipeline remembers the contents and the records it has seen.  The     *)
(* route makes a new one for each upload; kept says whether a program      *)
(* keeps one instead, as the class intends.                                *)
(*                                                                         *)
(* Values a record may hold instead of a number are kept apart, because    *)
(* the code treats them differently: many of them raise an exception that  *)
(* ends the import.  Of the prices there are bid, ask and close.           *)
(***************************************************************************)
EXTENDS Integers, Sequences, FiniteSetsExt, SequencesExt, Functions

CONSTANTS
  Files,         \* the files considered: [csv |-> BOOLEAN, records |-> sequence of records]
  KnownSymbols,  \* known_symbols; none: every symbol is known
  Absent,        \* no such field, or null
  Empty,         \* the empty text
  Text,          \* a text that is no number
  Fraction,      \* a text such as 1.5
  MarketOpen, MarketClose,
  MaxImports,    \* bound
  MaxContents    \* bound: the different contents one pipeline meets

ASSUME HoursAssumption == MarketOpen \in Nat /\ MarketClose \in Nat /\ MaxImports \in Nat
ASSUME FilesAssumption == \A file \in Files : file.records \in Seq(ToSet(file.records))

VARIABLES
  kept,      \* one pipeline for all imports
  kind,      \* "underlying" or "option"
  contents,  \* _import_hashes
  seen,      \* _seen_hashes
  imports,   \* the imports that were reported, in order
  rows,      \* the rows of the store: [import, class, print]
  outcome    \* of the last upload

vars == <<kept, kind, contents, seen, imports, rows, outcome>>

Init ==
  /\ kept \in BOOLEAN /\ kind \in {"underlying", "option"}
  /\ contents = {} /\ seen = {}
  /\ imports = <<>> /\ rows = <<>>
  /\ outcome = "none"

-----------------------------------------------------------------------------
\* A CSV reader gives the empty text for what a JSON file leaves out.
AsRead(file) ==
  IF ~file.csv THEN file.records
  ELSE [i \in DOMAIN file.records |->
          [k \in DOMAIN file.records[i] |->
             IF file.records[i][k] = Absent THEN Empty ELSE file.records[i][k]]]

Missing(v) == v \in {Absent, Empty}
Number(v) == v \notin {Absent, Empty, Text, Fraction}
Negative(v) == IF Number(v) THEN v < 0 ELSE FALSE

\* The date or time of a record: a day and an hour.
OutOfHours(r) == r.hour < MarketOpen \/ r.hour > MarketClose

\* bid > ask, where a number is not comparable with a text.
Incomparable(a, b) == a # Absent /\ b # Absent /\ Number(a) # Number(b)
Crossed(r) == IF Number(r.bid) /\ Number(r.ask) THEN r.bid > r.ask ELSE FALSE

Classes == <<"VALID", "CORRECTABLE", "SUSPICIOUS", "REJECTED">>

\* close, or ask where it is missing or 0; here the other prices are missing.
Priced(r) == IF Missing(r.close) \/ r.close = 0 THEN r.ask ELSE r.close
Fingerprint(r) ==
  <<r.symbol, r.day, r.hour, Priced(r), IF kind = "option" THEN <<r.strike, r.type>> ELSE <<>> >>

\* More than 25 percent away from the close before it in the file.
Jump(r, last) ==
  IF r.symbol \notin DOMAIN last \/ ~Number(r.close) THEN FALSE
  ELSE LET before == last[r.symbol]
           change == IF r.close > before THEN r.close - before ELSE before - r.close
       IN r.close # 0 /\ before > 0 /\ 4 * change > before

\* What is wrong with a record of an option.
RejectedAsOption(r) ==
  \/ Missing(r.underlying)
  \/ r.type \notin {"CALL", "PUT"}
  \/ Missing(r.strike)
  \/ ~Number(r.expiration)
  \/ IF Number(r.expiration) THEN r.expiration < r.day ELSE FALSE

Rejected(r) ==
  \/ \E v \in {r.bid, r.ask, r.close} : v = Text \/ Negative(v)
  \/ Crossed(r)
  \/ Negative(r.volume)
  \/ kind = "option" /\ RejectedAsOption(r)

Suspicious(r, s, last) ==
  \/ KnownSymbols # {} /\ r.symbol \notin KnownSymbols
  \/ kind = "underlying" /\ OutOfHours(r)
  \/ Fingerprint(r) \in s
  \/ Jump(r, last)

Class(r, s, last) ==
  CASE Rejected(r) -> "REJECTED"
    [] ~Rejected(r) /\ Suspicious(r, s, last) -> "SUSPICIOUS"
    [] ~Rejected(r) /\ ~Suspicious(r, s, last) /\ r.volume \in {Text, Fraction} -> "CORRECTABLE"
    [] OTHER -> "VALID"

\* _process_one raises: the record without a symbol or a date, which it means to
\* reject, is built with positional arguments, which the class does not take.
Raises(r) ==
  \/ Missing(r.symbol)
  \/ ~Number(r.day)
  \/ Incomparable(r.bid, r.ask)
  \/ kind = "option" /\ r.strike = Text

NothingDone(s) == [raised |-> FALSE, seen |-> s, last |-> <<>>, classes |-> <<>>, prints |-> <<>>]

ProcessOneUnmarked(acc, r) ==
  IF acc.raised \/ Raises(r) THEN [acc EXCEPT !.raised = TRUE]
  ELSE [acc EXCEPT !.classes = Append(@, Class(r, acc.seen, acc.last)),
                   !.prints = Append(@, Fingerprint(r))]
ProcessOne(acc, r) ==
  IF acc.raised \/ Raises(r) THEN [acc EXCEPT !.raised = TRUE]
  ELSE [ raised |-> FALSE,
         seen |-> acc.seen \cup {Fingerprint(r)},
         last |-> IF Number(r.close) /\ r.close # 0
                  THEN [x \in {r.symbol} |-> r.close] @@ acc.last ELSE acc.last,
         classes |-> Append(acc.classes, Class(r, acc.seen, acc.last)),
         prints |-> Append(acc.prints, Fingerprint(r)) ]

\* The records one after the other, until one raises.
Process(s, records) ==
  LET done[n \in 0 .. Len(records)] ==
        IF n = 0 THEN NothingDone(s) ELSE ProcessOne(done[n - 1], records[n])
  IN done[Len(records)]

-----------------------------------------------------------------------------
\* _quality reads the volume of each kept record as a number.
ReportRaises(records, classes) ==
  \E i \in DOMAIN classes : classes[i] # "REJECTED" /\ records[i].volume \in {Empty, Text}

Count(classes, c) == Cardinality({i \in DOMAIN classes : classes[i] = c})

Overall(classes) ==
  LET total == Max({1, Len(classes)})
      rejected == Count(classes, "REJECTED")
  IN IF 100 * rejected < 5 * total /\ 10 * Count(classes, "SUSPICIOUS") < total THEN "GOOD"
     ELSE IF 100 * rejected < 20 * total THEN "FAIR" ELSE "POOR"

\* Times of a symbol more than a weekend apart, with no record of it in between.
Gaps(records, classes) ==
  LET good == {i \in DOMAIN classes : classes[i] # "REJECTED"}
      Time(i) == 24 * records[i].day + records[i].hour
      Apart(i, j) == records[i].symbol = records[j].symbol /\ Time(j) - Time(i) >= 96
      Between(i, j) == {k \in good : records[k].symbol = records[i].symbol
                                      /\ Time(i) < Time(k) /\ Time(k) < Time(j)}
  IN {<<Time(e[1]), Time(e[2])>> :
        e \in {p \in good \X good : Apart(p[1], p[2]) /\ Between(p[1], p[2]) = {}}}

Report(file, allowed, records, result) ==
  [ file |-> file, allowed |-> allowed, classes |-> result.classes,
    overall |-> Overall(result.classes), gaps |-> Gaps(records, result.classes) ]

RowOf(k, result, i) == [import |-> k, class |-> result.classes[i], print |-> result.prints[i]]

RowsOfTheClean(k, result) ==
  LET stored[n \in 0 .. Len(result.classes)] ==
        IF n = 0 THEN <<>>
        ELSE IF result.classes[n] \notin {"VALID", "CORRECTABLE"} THEN stored[n - 1]
        ELSE Append(stored[n - 1], RowOf(k, result, n))
  IN stored[Len(result.classes)]

\* persist
Rows(k, result) ==
  LET stored[n \in 0 .. Len(result.classes)] ==
        IF n = 0 THEN <<>>
        ELSE IF result.classes[n] = "REJECTED" THEN stored[n - 1]
        ELSE Append(stored[n - 1], RowOf(k, result, n))
  IN stored[Len(result.classes)]

-----------------------------------------------------------------------------
KnownContents == IF kept THEN contents ELSE {}
SeenRecords == IF kept THEN seen ELSE {}

Refuse(file, allowed) ==
  /\ file \in KnownContents /\ ~allowed
  /\ outcome' = "refused"
  /\ UNCHANGED <<kept, kind, contents, seen, imports, rows>>

\* The content is remembered before its records are processed.
Import(file, allowed) ==
  LET records == AsRead(file)
      result == Process(SeenRecords, records)
  IN /\ file \notin KnownContents \/ allowed
     /\ contents' = KnownContents \cup {file}
     /\ seen' = result.seen
     /\ IF result.raised \/ ReportRaises(records, result.classes)
        THEN outcome' = "raised" /\ UNCHANGED <<imports, rows>>
        ELSE /\ outcome' = "imported"
             /\ imports' = Append(imports, Report(file, allowed, records, result))
             /\ rows' = rows \o Rows(Len(imports) + 1, result)
     /\ UNCHANGED <<kept, kind>>

Upload(file, allowed) ==
  /\ Len(imports) < MaxImports
  /\ Cardinality(KnownContents \cup {file}) =< MaxContents
  /\ Refuse(file, allowed) \/ Import(file, allowed)

Next == \E file \in Files, allowed \in BOOLEAN : Upload(file, allowed)

Spec == Init /\ [][Next]_vars

-----------------------------------------------------------------------------
\* Imports are reports on files and rows are rows of reported imports.
TypeOK ==
  /\ kept \in BOOLEAN /\ kind \in {"underlying", "option"}
  /\ outcome \in {"none", "refused", "raised", "imported"}
  /\ contents \subseteq Files
  /\ \A k \in DOMAIN imports :
       imports[k].file \in Files /\ ToSet(imports[k].classes) \subseteq ToSet(Classes)
  /\ \A i \in DOMAIN rows :
       rows[i].import \in DOMAIN imports /\ rows[i].class \in ToSet(Classes) \ {"REJECTED"}

\* "Los registros nunca se borran en silencio": an import that ends in a report
\* has classified every record of its file, and the store holds, of each import, exactly
\* the records that were not rejected, in their order; one that raised left nothing.
NothingIsLost ==
  \A k \in DOMAIN imports :
    /\ Len(imports[k].classes) = Len(imports[k].file.records)
    /\ LET accepted == {i \in DOMAIN imports[k].classes : imports[k].classes[i] # "REJECTED"}
           stored == {j \in DOMAIN rows : rows[j].import = k}
       IN \E place \in Bijection(accepted, stored) :
            /\ \A i \in accepted : rows[place[i]].class = imports[k].classes[i]
            /\ \A i, m \in accepted : i < m => place[i] < place[m]

\* What a pipeline lets into the store a second time is marked: a row like an earlier
\* one, from the same file or another, is suspicious, and the same content is imported
\* again only where that was allowed.
DuplicatesAreMarked ==
  /\ \A i, j \in DOMAIN rows :
       /\ i < j /\ rows[i].print = rows[j].print
       /\ kept \/ rows[i].import = rows[j].import
       => rows[j].class = "SUSPICIOUS"
  /\ kept => \A k, m \in DOMAIN imports :
       k < m /\ imports[k].file = imports[m].file => imports[m].allowed
=============================================================================
