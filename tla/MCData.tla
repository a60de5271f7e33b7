------------------------------- MODULE MCData -------------------------------
(***************************************************************************)
(* The data structures side by side: a behaviour exercises one of them.    *)
(* All of them start as they are created, so that their state spaces add   *)
(* up and do not multiply.                                                 *)
(***************************************************************************)
EXTENDS Lists, Tables, Streams, Lines, Codecs, DataTree,
        HttpText, Json, Xml, Sql, Paths

VARIABLES
  part,   \* what the behaviour is about
  input   \* the text or value a format is read from

dataVars ==
  <<listVars, mapVars, slotVars, vectorVars, tableVars, cursorVars, streamVars,
    devVars, smartVars, readVars, lineVars, stringVars, codecVars, treeVars>>

(* Texts grow by one character up to a length, values are all there.       *)
Alphabet ==
  [http |-> HttpCharacters, parsed |-> LineCharacters, paths |-> PathCharacters]
TextLength == [http |-> 4, parsed |-> 6, paths |-> 5]
FormatInit ==
  CASE part = "json" -> input \in JsonValues
    [] part = "bins" -> input \in BinsValues
    [] part = "xml" -> input \in XmlDocuments
    [] part = "sql" -> input \in SqlInputs
    [] part = "dirs" -> input \in DirInputs
    [] part = "schema" -> input \in CreateInputs
    [] OTHER -> input = <<>>
FormatNext ==
  /\ part \in DOMAIN Alphabet
  /\ Len(input) < TextLength[part]
  /\ \E c \in Alphabet[part] : input' = Append(input, c)
  /\ UNCHANGED <<part, dataVars>>

Init ==
  /\ part \in {"list", "map", "slots", "vector", "table", "cursor", "stream",
              "dev", "smart", "read", "lines", "strings", "codecs", "tree",
              "http", "parsed", "json", "bins", "xml", "sql",
              "paths", "dirs", "schema"}
  /\ ListInit /\ MapInit /\ SlotInit /\ VectorInit /\ TableInit
  /\ CursorInit /\ StreamInit /\ DevInit /\ SmartInit /\ ReadInit
  /\ LineInit /\ StringInit /\ CodecInit /\ TreeInit
  /\ FormatInit
  /\ part # "cursor" => cresult = 0
  /\ part # "read" => rfile = 0

Only(p, vars) == part = p /\ UNCHANGED <<part, input, vars>>

Next ==
  \/ FormatNext
  \/ Only("list", <<mapVars, slotVars, vectorVars, tableVars, cursorVars, streamVars, devVars,
           smartVars, readVars, lineVars, stringVars, codecVars, treeVars>>)
     /\ ListNext
  \/ Only("map", <<listVars, slotVars, vectorVars, tableVars, cursorVars, streamVars, devVars,
           smartVars, readVars, lineVars, stringVars, codecVars, treeVars>>)
     /\ MapNext
  \/ Only("slots", <<listVars, mapVars, vectorVars, tableVars, cursorVars, streamVars, devVars,
           smartVars, readVars, lineVars, stringVars, codecVars, treeVars>>)
     /\ SlotNext
  \/ Only("vector", <<listVars, mapVars, slotVars, tableVars, cursorVars, streamVars, devVars,
           smartVars, readVars, lineVars, stringVars, codecVars, treeVars>>)
     /\ VectorNext
  \/ Only("table", <<listVars, mapVars, slotVars, vectorVars, cursorVars, streamVars, devVars,
           smartVars, readVars, lineVars, stringVars, codecVars, treeVars>>)
     /\ TableNext
  \/ Only("cursor", <<listVars, mapVars, slotVars, vectorVars, tableVars, streamVars, devVars,
           smartVars, readVars, lineVars, stringVars, codecVars, treeVars>>)
     /\ RowNext
  \/ Only("stream", <<listVars, mapVars, slotVars, vectorVars, tableVars, cursorVars, devVars,
           smartVars, readVars, lineVars, stringVars, codecVars, treeVars>>)
     /\ StreamNext
  \/ Only("dev", <<listVars, mapVars, slotVars, vectorVars, tableVars, cursorVars, streamVars,
           smartVars, readVars, lineVars, stringVars, codecVars, treeVars>>)
     /\ DevNext
  \/ Only("smart", <<listVars, mapVars, slotVars, vectorVars, tableVars, cursorVars, streamVars,
           devVars, readVars, lineVars, stringVars, codecVars, treeVars>>)
     /\ SmartNext
  \/ Only("read", <<listVars, mapVars, slotVars, vectorVars, tableVars, cursorVars, streamVars,
           devVars, smartVars, lineVars, stringVars, codecVars, treeVars>>)
     /\ ReadStepNext
  \/ Only("lines", <<listVars, mapVars, slotVars, vectorVars, tableVars, cursorVars, streamVars,
           devVars, smartVars, readVars, stringVars, codecVars, treeVars>>)
     /\ LineNext
  \/ Only("strings", <<listVars, mapVars, slotVars, vectorVars, tableVars, cursorVars, streamVars,
           devVars, smartVars, readVars, lineVars, codecVars, treeVars>>)
     /\ StringNext
  \/ Only("codecs", <<listVars, mapVars, slotVars, vectorVars, tableVars, cursorVars, streamVars,
           devVars, smartVars, readVars, lineVars, stringVars, treeVars>>)
     /\ CodecNext
  \/ Only("tree", <<listVars, mapVars, slotVars, vectorVars, tableVars, cursorVars, streamVars,
           devVars, smartVars, readVars, lineVars, stringVars, codecVars>>)
     /\ TreeNext

Spec == Init /\ [][Next]_<<part, input, dataVars>>

Symmetric == Permutations(UItems)

(* The functions of texts, and what the protocols and files are written in *)
(* (src/entc/utils, src/entc/tools): the string functions and transcriptions*)
(* agree with what they are for, a line comes out of a socket as it went in,*)
(* documents are taken apart at the right characters, and what one side    *)
(* writes the other one reads.                                             *)
TextsReturn ==
  /\ TokensAreRuns /\ PartsMakeWhole /\ NumbersAreSpelled
  /\ CodesReturn /\ BlocksArePadded /\ TextIsRead /\ ReadsAgree
  /\ LinesKeepText
  /\ part = "http" => HttpTextKept(input)
  /\ part = "parsed" => LinesAreBetweenBreaks(input)
  /\ part = "json" => JsonReturns(input)
  /\ part = "bins" => BinsReturn(input)
  /\ part = "xml" => XmlReturns(input)
  /\ part = "sql" => SqlMeans(input)
  /\ part = "paths" => PathsMean(input)
  /\ part = "dirs" => DirectoriesGo(input)
  /\ part = "schema" => SchemaRead(input)
=============================================================================
