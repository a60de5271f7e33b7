------------------------------ MODULE HttpFlow ------------------------------
(***************************************************************************)
(* A request from its first line to the end of its answer                  *)
(* (src/entc/tools/echttp.c): the callbacks of the application, what goes  *)
(* to the socket directly and what goes through the answer's stream, the   *)
(* content and its temporary files.  "dev" is a request without a socket   *)
(* (echttp_request_process_dev), whose header the caller fills.            *)
(***************************************************************************)
EXTENDS Mime

CONSTANTS
  HBuffer,   \* the largest content that is kept in memory (32000 in the code)
  HLengths,  \* the content lengths
  HBodies,   \* what clients send after the header, <<type, bytes>>
  HObjects   \* bound on the application's objects in a behaviour

ASSUME HttpConstants ==
  /\ HBuffer \in Nat /\ HLengths \subseteq Nat
  /\ HBodies \subseteq {"plain", "multi"} \X Seq(STRING)

VARIABLES
  hpc,       \* where the request is
  hreq,      \* the request
  hobject,   \* the application's object: how often it was made and cleared
  hstream,   \* what is in the answer's stream
  hsocket,   \* what has been sent
  hfiles,    \* the temporary files on the disk
  hcontent   \* the content and its parts, as <<buffer, file>> each

httpVars == <<hpc, hreq, hobject, hstream, hsocket, hfiles, hcontent>>

Hole == "?"
NoRequest == [dev |-> FALSE, on |-> TRUE, only |-> 0, length |-> 0, body |-> <<"plain", <<>>>>]

HttpInit ==
  /\ hpc = "idle" /\ hreq = NoRequest /\ hobject = [made |-> 0, cleared |-> 0]
  /\ hstream = <<>> /\ hsocket = <<>> /\ hfiles = {} /\ hcontent = <<>>

-----------------------------------------------------------------------------
(* echttp_send_100, _404NotFound, _408, _500: to the socket, and only when *)
(* there is a header.                                                      *)
Direct(code) == hsocket' = IF hreq'.on THEN Append(hsocket, code) ELSE hsocket

(* echttp_send_file: the header and the file, or 404.                      *)
SendFile(found) ==
  IF found THEN hsocket' = hsocket \o <<"200", "file">> ELSE Direct("404")

(* echttp_content_destroy takes the files of all the parts off the disk.   *)
FilesOf(content) == {content[k][2] : k \in DOMAIN content} \ {0}
ContentDestroy == hcontent' = <<>> /\ hfiles' = hfiles \ FilesOf(hcontent)

(* echttp_content_fillBuffer: the buffer is as long as the length says,    *)
(* whatever has come.                                                      *)
Came == SubSeq(hreq.body[2], 1, Smallest(hreq.length, Len(hreq.body[2])))
FillBuffer == [k \in 1 .. hreq.length |-> IF k <= Len(Came) THEN Came[k] ELSE Hole]

(* echttp_content_create of a multipart: the parts behind an empty content *)
(* (echttp_content_create2, echttp_content_add), read in chunks.           *)
Chunks(bytes) ==
  [k \in 1 .. (Len(bytes) + EChunk - 1) \div EChunk |->
     SubSeq(bytes, (k - 1) * EChunk + 1, Smallest(k * EChunk, Len(bytes)))]
Multipart ==
  LET parts == FoldLeft(ProcessBuffer, ParserCreate, Chunks(Came)).parts
  IN  [k \in 1 .. Len(parts) + 1 |-> <<IF k = 1 THEN Absent ELSE parts[k - 1][1], 0>>]

(* echttp_content_create of anything else: in memory or in a file of its   *)
(* own (echttp_content_fillFile), which may fail to open or to be written; *)
(* what was written of it is deleted.                                      *)
ContentCreate ==
  LET name == 1 + Cardinality(hfiles)
  IN  IF hreq.body[1] = "multi" THEN hcontent' = Multipart /\ UNCHANGED hfiles
      ELSE IF hreq.length > HBuffer
      THEN \/ hcontent' = <<<<Came, name>>>> /\ hfiles' = hfiles \cup {name}
           \/ hcontent' = <<>> /\ UNCHANGED hfiles
      ELSE hcontent' = <<<<FillBuffer, 0>>>> /\ UNCHANGED hfiles

(* echttp_content_getFile: content in memory has no path to put a file to, *)
(* so that its file cannot be opened.                                      *)
GetFile(c) == c[2]

-----------------------------------------------------------------------------
(* echttp_request_process, and _flow until the header is read              *)
(* (echttp_request_next); all three callbacks are set.                     *)
HttpProcess ==
  /\ hpc = "idle" /\ hobject.made < HObjects
  /\ \E on \in BOOLEAN, only \in {0, 100}, length \in HLengths, body \in HBodies, parsed \in BOOLEAN :
       /\ hreq' = [dev |-> FALSE, on |-> on, only |-> only, length |-> length, body |-> body]
       /\ hsocket' = IF ~parsed /\ on THEN <<"408">> ELSE <<>>
       /\ hpc' = IF parsed THEN "route" ELSE "end"
  /\ hstream' = <<>> /\ UNCHANGED <<hobject, hfiles, hcontent>>

(* echttp_request_process_dev and _dev_flow.                               *)
HttpProcessDev ==
  /\ hpc = "idle" /\ hobject.made < HObjects
  /\ hreq' = [NoRequest EXCEPT !.dev = TRUE]
  /\ hpc' = "route" /\ hstream' = <<>> /\ hsocket' = <<>>
  /\ UNCHANGED <<hobject, hfiles, hcontent>>

(* echttp_request_flow_stream, _dev_stream: the route callback may leave an*)
(* object, whether it takes the request or not.                            *)
HttpRoute ==
  /\ hpc = "route" /\ UNCHANGED <<hreq, hstream, hfiles, hcontent>>
  /\ \E made \in 0 .. 1 : hobject' = [hobject EXCEPT !.made = @ + made]
  /\ \/ hpc' = "validate" /\ UNCHANGED hsocket
     \/ hpc' = "clear" /\ ~hreq.dev /\ \E found \in BOOLEAN : SendFile(found)
     \/ hpc' = "clear" /\ hreq.dev /\ UNCHANGED hsocket

(* The validate callback writes its error (echttp_send_ErrHeader) into the *)
(* stream.                                                                 *)
HttpValidate ==
  /\ hpc = "validate" /\ UNCHANGED <<hreq, hobject, hfiles, hcontent>>
  /\ \/ /\ hpc' = "content" /\ UNCHANGED hstream
        /\ IF hreq.only = 100 /\ ~hreq.dev THEN Direct("100") ELSE UNCHANGED hsocket
     \/ hpc' = "clear" /\ hstream' = Append(hstream, "401") /\ UNCHANGED hsocket

HttpContent ==
  /\ hpc = "content" /\ UNCHANGED <<hreq, hobject, hstream>>
  /\ IF hreq.length = 0 THEN hpc' = "render" /\ UNCHANGED <<hsocket, hfiles, hcontent>>
     ELSE /\ ContentCreate
          /\ IF hcontent' = <<>> THEN hpc' = "clear" /\ Direct("500")
             ELSE hpc' = "render" /\ UNCHANGED hsocket

(* The render callback takes a buffer out of the content                   *)
(* (echttp_content_extractBuffer, _extractString).                         *)
HttpExtract ==
  /\ hpc = "render"
  /\ \E k \in DOMAIN hcontent : hcontent' = [hcontent EXCEPT ![k][1] = Absent] /\ hcontent' # hcontent
  /\ hpc' = "rendering"
  /\ UNCHANGED <<hreq, hobject, hstream, hsocket, hfiles>>

HttpRender ==
  /\ hpc \in {"render", "rendering"} /\ hpc' = "clear"
  /\ hstream' = Append(hstream, "200")
  /\ UNCHANGED <<hreq, hobject, hsocket, hfiles, hcontent>>

(* Mutation: the object is cleared only when the request was answered.     *)
HttpClearLate ==
  /\ hpc = "clear" /\ hpc' = "end"
  /\ hobject' = IF hstream # <<>> THEN [hobject EXCEPT !.cleared = hobject.made] ELSE hobject
  /\ hsocket' = hsocket \o hstream /\ hstream' = <<>>
  /\ UNCHANGED <<hreq, hfiles, hcontent>>

(* echttp_request_clear, then the stream is given to the socket.           *)
HttpClear ==
  /\ hpc = "clear" /\ hpc' = "end"
  /\ hobject' = [hobject EXCEPT !.cleared = hobject.made]
  /\ hsocket' = hsocket \o hstream /\ hstream' = <<>>
  /\ UNCHANGED <<hreq, hfiles, hcontent>>

(* echttp_header_clear.                                                    *)
HttpEnd ==
  /\ hpc = "end" /\ hpc' = "idle"
  /\ ContentDestroy
  /\ UNCHANGED <<hreq, hobject, hstream, hsocket>>

HttpStepNext ==
  \/ HttpProcess \/ HttpProcessDev \/ HttpRoute \/ HttpValidate \/ HttpContent
  \/ HttpExtract \/ HttpRender \/ HttpClear \/ HttpEnd

-----------------------------------------------------------------------------
(* A request leaves nothing behind and is answered once:                   *)
(*   - behind it every object is cleared and no temporary file is left;    *)
(*     before, the files on the disk are those of the content;             *)
(*   - exactly one answer is sent, behind the "continue" if there is one;  *)
(*     without a header errors that have no stream send nothing;           *)
(*   - the application gets the bytes that were sent, with holes behind    *)
(*     them if fewer came than the length says; a file only for what is    *)
(*     too long.                                                           *)
HttpServes ==
  LET finals == {k \in DOMAIN hsocket : hsocket[k] \notin {"100", "file"}}
  IN  /\ hpc = "idle" => hobject.made = hobject.cleared /\ hfiles = {}
      /\ hfiles = FilesOf(hcontent)
      /\ Cardinality(finals) <= 1
      /\ hpc = "end" /\ hreq.on /\ ~hreq.dev => Cardinality(finals) = 1
      /\ \A k \in DOMAIN hsocket : hsocket[k] = "100" => k = 1
      /\ hpc = "render" /\ hreq.length > 0 /\ hreq.body[1] = "plain" =>
           /\ IsPrefix(Came, hcontent[1][1])
           /\ (GetFile(hcontent[1]) # 0) <=> hreq.length > HBuffer
           /\ Len(Came) = hreq.length => hcontent[1][1] = Came

(* The application gets the parts of a multipart that came completely      *)
(* (echttp_content_create), the empty content before them.                 *)
PartsAreServed(texts) ==
  hpc = "render" /\ hreq.body[1] = "multi" /\ hreq.length >= Len(hreq.body[2]) =>
    [k \in DOMAIN hcontent |-> hcontent[k][1]] = <<Absent>> \o texts
=============================================================================
