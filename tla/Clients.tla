------------------------------ MODULE Clients -------------------------------
(***************************************************************************)
(* The clients of src/entc/tools: ecmail.c hands a mail to a server, line  *)
(* by line; echtml.c fetches a page.  A mail server may answer a command   *)
(* with one line or two, refuse it, or go away; the client takes every line*)
(* for the answer to what it sent last.                                    *)
(***************************************************************************)
EXTENDS HttpText

VARIABLES
  yread,      \* how many answers the client has accepted
  yresult,    \* what ecmail_send has returned
  yopen,      \* the client's socket
  ylines,     \* the lines on their way to the client
  ycommands,  \* the commands on their way to the server
  yserver,    \* the last command the server has agreed to; "gone"
  yaccepted   \* the mails the server has taken

mailVars == <<yread, yresult, yopen, ylines, ycommands, yserver, yaccepted>>

Commands == <<"HELO", "MAIL", "RCPT", "DATA", "text", "QUIT">>
Codes == <<"220", "250", "250", "250", "354", "250", "221">>   \* answers the client expects
CodeOf == [HELO |-> "250", MAIL |-> "250", RCPT |-> "250", DATA |-> "354", text |-> "250", QUIT |-> "221"]
Needs == [HELO |-> {"new", "HELO"}, MAIL |-> {"HELO"}, RCPT |-> {"MAIL"}, DATA |-> {"RCPT"},
          text |-> {"DATA"}, QUIT |-> {"new", "HELO", "MAIL", "RCPT", "DATA", "text"}]

-----------------------------------------------------------------------------
(* The server is not ready, or its greeting has one line or two.           *)
MailInit ==
  /\ yread = 0 /\ yresult = "none" /\ yopen = TRUE /\ ycommands = <<>>
  /\ yserver = "new" /\ yaccepted = 0
  /\ \E code \in {"220", "554"}, n \in 1 .. 2 : ylines = [k \in 1 .. n |-> code]

MailDone(result) ==
  /\ yresult' = result /\ yopen' = FALSE
  /\ UNCHANGED <<yread, ycommands, yserver, yaccepted>>

(* Mutation: the answer to the mail itself is not looked at.               *)
MailReadAny ==
  /\ yresult = "none" /\ ylines # <<>>
  /\ ylines' = Tail(ylines)
  /\ IF Head(ylines) # Codes[yread + 1] /\ yread # 5 THEN MailDone("FALSE")
     ELSE IF yread = 6 THEN MailDone("TRUE")
     ELSE /\ yread' = yread + 1
          /\ ycommands' = Append(ycommands, Commands[yread + 1])
          /\ UNCHANGED <<yresult, yopen, yserver, yaccepted>>

(* ecmail_next: read a line, look at its code, send the next command; the  *)
(* socket is deleted whatever comes (ecmail_send).                         *)
MailRead ==
  /\ yresult = "none" /\ ylines # <<>>
  /\ ylines' = Tail(ylines)
  /\ IF Head(ylines) # Codes[yread + 1] THEN MailDone("FALSE")
     ELSE IF yread = 6 THEN MailDone("TRUE")
     ELSE /\ yread' = yread + 1
          /\ ycommands' = Append(ycommands, Commands[yread + 1])
          /\ UNCHANGED <<yresult, yopen, yserver, yaccepted>>

(* No line comes any more: the server is gone, or the time is over.        *)
MailTimeout ==
  /\ yresult = "none" /\ ylines = <<>>
  /\ MailDone("FALSE") /\ UNCHANGED ylines

(* The server takes the next command: it agrees if the command is in turn, *)
(* and may refuse it anyway.  The text is taken as a whole: it is sent as  *)
(* it is, so none of its lines may be a dot, which would be its end here   *)
(* and leave the rest to be taken for commands.                            *)
MailServer ==
  /\ yserver # "gone" /\ ycommands # <<>>
  /\ ycommands' = Tail(ycommands)
  /\ \E n \in 1 .. 2, agrees \in BOOLEAN :
       LET command == Head(ycommands)
           ok == agrees /\ yserver \in Needs[command]
       IN  /\ ylines' = ylines \o [k \in 1 .. n |-> IF ok THEN CodeOf[command] ELSE "550"]
           /\ yserver' = IF ok THEN command ELSE IF command = "text" THEN "HELO" ELSE yserver
           /\ yaccepted' = yaccepted + (IF ok /\ command = "text" THEN 1 ELSE 0)
  /\ UNCHANGED <<yread, yresult, yopen>>
MailServerGoes ==
  /\ yserver # "gone" /\ yserver' = "gone"
  /\ UNCHANGED <<yread, yresult, yopen, ylines, ycommands, yaccepted>>

MailNext == MailRead \/ MailTimeout \/ MailServer \/ MailServerGoes

(* What ecmail_send says of a mail, though it never looks which command an *)
(* answer belongs to:                                                      *)
(*   - a mail that is reported as sent has been taken by the server, once; *)
(*   - a mail that is reported as not sent may have been taken, but only if*)
(*     it was handed over completely, and the socket is closed.            *)
MailMeansTaken ==
  /\ yaccepted <= 1
  /\ yresult = "TRUE" => yaccepted = 1
  /\ yresult = "FALSE" /\ yaccepted = 1 => yread >= 5
  /\ yresult = "none" <=> yopen

-----------------------------------------------------------------------------
(* echtmlreq_escapeUrl.                                                    *)
EscapeUrl(s) ==
  FlattenSeq([k \in DOMAIN s |-> IF s[k] = " " THEN <<"%", "2", "0">>
                                 ELSE IF s[k] = "#" THEN <<"%", "2", "3">> ELSE <<s[k]>>])

(* echtmlreq_process, echtmlreq_get: the answer's first line must say 200, *)
(* and everything behind the first empty line, or behind the end, is data. *)
(* An answer is the lines of its header, an empty one among them, and its  *)
(* data; it may end anywhere.                                              *)
HtmlGet(lines, data) ==
  LET empty == Pos(lines, "")
  IN  [ok |-> lines # <<>> /\ Head(lines) = "200",
       data |-> IF lines = <<>> \/ Head(lines) # "200" \/ empty = 0 THEN <<>>
                ELSE SubSeq(lines, empty + 1, Len(lines)) \o data]

(* echtmlreq_post never says that it has worked.                           *)
HtmlPost(lines) == FALSE

(* A page that is fetched without an error is the answer's data, but an    *)
(* answer that ends in its header counts as an empty page; an address      *)
(* arrives as it is if there is no percent sign in it.                     *)
HtmlFetches(text) ==
  LET header == [k \in 1 .. 2 |-> <<"200", "">>[k]]
      whole == HtmlGet(header, text)
      cut == HtmlGet(SubSeq(header, 1, 1), <<>>)
  IN  /\ whole.ok /\ whole.data = text
      /\ cut.ok /\ cut.data = <<>>
      /\ ~HtmlGet(<<"404">> \o header, text).ok /\ ~HtmlPost(header)
      /\ "%" \notin ToSet(text) => Unescape(EscapeUrl(text)) = text
=============================================================================
