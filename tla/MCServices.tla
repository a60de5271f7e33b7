----------------------------- MODULE MCServices -----------------------------
(***************************************************************************)
(* Small instances of the parts that are used by one thread at a time.     *)
(* They share no state: a behaviour shows one of them, and the others stay *)
(* as they begin.                                                          *)
(***************************************************************************)
EXTENDS HttpFlow, Clients, Manager, Requests, Objects, Plugins, Ipc

-----------------------------------------------------------------------------
(* Messages, and what a client of the web server sends.                    *)
Texts ==
  {<<>>, <<"x">>, <<"-", "-", "B">>, <<"x", CR, LF, "-">>, <<"x", LF, "y">>}
Sections ==
  {<<kind, text>> : kind \in {"TEXT", "NODE", "NAME"}, text \in Texts}
    \cup {<<"FILE", size>> : size \in {Gone, 0, 4, 7, 12}}
Messages ==
  {<<>>} \cup {<<s>> : s \in Sections}
    \cup {<<<<"FILE", 7>>, s>> : s \in Sections}
    \cup {<<s, <<"TEXT", <<"x">>>>>> : s \in Sections}

Form(text) ==
  PartHead("t") \o text \o Break \o PartHead("n") \o Break \o Boundary \o <<"-", "-">>
Bodies ==
  {<<"plain", [i \in 1 .. n |-> "x"]>> : n \in 0 .. 4}
    \cup {<<"multi", Form(<<"x">>)>>}

-----------------------------------------------------------------------------
(* Libraries and configurations of the database manager.                   *)
Full == {"dbinfo", "dbconnect", "dbdisconnect", "dbquery", "dbcursor_next", "dbbegin",
         "dbsequence_get", "dbrollback", "dbschema", "dbupdate"}
Library(name, methods) == [so |-> TRUE, plugin |-> name, methods |-> methods]
Files ==
  {Library("lite", Full), Library("lite", Full \ {"dbupdate"}),
   Library("my", {"dbinfo", "dbconnect", "dbquery"})}

Entry(name, type, file, prefix, ext) ==
  [name |-> name, type |-> type, file |-> file, prefix |-> prefix, schema |-> "s", ext |-> ext]
Config(format, path, exec, entries) ==
  [format |-> format, path |-> path, exec |-> exec, entries |-> entries]
Configs ==
  {Config("xml", "dir", "none",
     <<Entry("d", "lite", TRUE, "none", "none"), Entry("d", "my", FALSE, "none", "none"),
       Entry("e", "my", TRUE, "p", ".x")>>),
   Config("json", "none", "dir",
     <<Entry("none", "my", FALSE, "none", "none"), Entry("d", "my", FALSE, "none", "none")>>)}

-----------------------------------------------------------------------------
(* Nodes of the object layer, and what is asked for and written.           *)
Keys == <<<<"primary_keys", <<"id">>>>, <<"foreign_keys", <<"ref">>>>, <<"objects", <<"name">>>>>>
Setting(sections, source, exists) ==
  [sections |-> sections, source |-> source, exists |-> exists]
Settings ==
  {Setting(Keys, TRUE, TRUE), Setting(Keys, FALSE, TRUE), Setting(Keys, TRUE, FALSE),
   Setting(<<<<"primary_keys", <<>>>>, <<"objects", <<"name", NoColumn>>>>>>, TRUE, TRUE),
   Setting(<<<<"foreign_keys", <<"ref">>>>, <<"objects", <<"id", "name">>>>>>, TRUE, TRUE),
   Setting(<<<<"foreign_keys", <<"ref">>>>, <<"foreign_keys", <<"id">>>>>>, TRUE, TRUE),
   Setting(<<<<"foreign_keys", <<NoColumn>>>>>>, TRUE, TRUE)}
T(v) == <<"text", v>>
N(v) == <<"number", v>>
Filters ==
  {<<>>, "id" :> N(1), "ref" :> T(1), ("ref" :> N(2)) @@ ("id" :> T(0)),
   ("id" :> T(2)) @@ ("ref" :> N(1)),
   "ref" :> <<"list", <<T(1), N(2)>>>>, "ref" :> <<"list", <<T(0)>>>>}
Items == {<<>>, ("name" :> <<"other", 0>>) @@ ("id" :> N(2))}

-----------------------------------------------------------------------------
VARIABLES
  part,   \* what the behaviour is about
  page    \* the text of a page that is fetched
servicesVars ==
  <<part, page, mimeVars, httpVars, mailVars, managerVars, requestVars, objectVars, pluginVars,
    ipcVars>>

Some(S) == CHOOSE x \in S : TRUE

(* What one side sends the other one gets: the parts of a message          *)
(* (ecmultipart_next, ecmultipartparser_process), the fields of a form that*)
(* came completely, and what the mail and HTML clients tell their callers  *)
(* is what became of the mail and what the page is.                        *)
MessagesArrive ==
  /\ MimeArrives /\ PartsAreServed(<<<<"x">>, <<>>>>)
  /\ MailMeansTaken /\ HtmlFetches(page)

Init ==
  /\ part \in {"mime", "http", "mail", "html", "manager", "requests", "objects", "plugins", "ipc"}
  /\ page = <<>>
  /\ MimeInit /\ HttpInit /\ MailInit /\ ManagerInit /\ RequestInit /\ ObjectInit
  /\ PluginInit /\ IpcInit
  /\ part # "mime" => esections = Some(ESections) /\ eheader
  /\ part # "mail" => ylines = <<"220">>
  /\ part # "requests" => qkind = "query"
  /\ part # "objects" => osetting = Some(OSettings)
  /\ part # "plugins" => pkind = "sqlite"

PageNext ==
  /\ Len(page) < 4
  /\ \E c \in {" ", "#", "%", "a"} : page' = Append(page, c)

Only(p, others) == part = p /\ UNCHANGED <<part, others>>

Next ==
  \/ Only("mime", <<page, httpVars, mailVars, managerVars,
                 requestVars, objectVars, pluginVars, ipcVars>>)
     /\ MimeStepNext
  \/ Only("http", <<page, mimeVars, mailVars, managerVars,
                 requestVars, objectVars, pluginVars, ipcVars>>)
     /\ HttpStepNext
  \/ Only("mail", <<page, mimeVars, httpVars, managerVars,
                 requestVars, objectVars, pluginVars, ipcVars>>)
     /\ MailNext
  \/ Only("html", <<mimeVars, httpVars, mailVars, managerVars,
                 requestVars, objectVars, pluginVars, ipcVars>>)
     /\ PageNext
  \/ Only("manager", <<page, mimeVars, httpVars, mailVars,
                 requestVars, objectVars, pluginVars, ipcVars>>)
     /\ ManagerNext
  \/ Only("requests", <<page, mimeVars, httpVars, mailVars,
                 managerVars, objectVars, pluginVars, ipcVars>>)
     /\ RequestNext
  \/ Only("objects", <<page, mimeVars, httpVars, mailVars,
                 managerVars, requestVars, pluginVars, ipcVars>>)
     /\ ObjectNext
  \/ Only("plugins", <<page, mimeVars, httpVars, mailVars,
                 managerVars, requestVars, objectVars, ipcVars>>)
     /\ PluginNext
  \/ Only("ipc", <<page, mimeVars, httpVars, mailVars,
                 managerVars, requestVars, objectVars, pluginVars>>)
     /\ IpcNext

Spec == Init /\ [][Next]_servicesVars
=============================================================================
