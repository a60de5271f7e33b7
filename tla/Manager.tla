------------------------------ MODULE Manager ------------------------------
(***************************************************************************)
(* The manager of the databases, src/libadbl/core/adbl_manager.c: it loads *)
(* the plugins it finds in a directory (src/entc/system/ecdl.c), reads the *)
(* databases from an XML or a JSON file, opens a connection when a session *)
(* first asks for it, and hands every request to the plugin's method.      *)
(* A file is modelled by what it holds; a library by what it exports.      *)
(***************************************************************************)
EXTENDS Naturals, Sequences, FiniteSets

CONSTANTS
  AFiles,     \* files of the directory: [so, plugin, methods] or of no plugin
  AConfigs,   \* configurations: [format, path, exec, entries]
  ANames,     \* databases somebody asks for
  AThreads,   \* who opens sessions
  AScans      \* bound on the times the manager is told to scan

ASSUME ManagerConstants ==
  /\ IsFiniteSet(AFiles) /\ IsFiniteSet(AThreads) /\ AScans \in Nat
  /\ \A f \in AFiles : f.so \in BOOLEAN /\ f.methods \subseteq STRING
  /\ \A c \in AConfigs : /\ DOMAIN c = {"format", "path", "exec", "entries"}
                         /\ c.format \in {"xml", "json"}
                         /\ c.entries \in Seq({c.entries[i] : i \in DOMAIN c.entries})

VARIABLES
  amodules,      \* modules: name of a plugin -> the library it came from
  aloaded,       \* how often each library is loaded
  acredentials,  \* credentials: name -> [type, connection, origin]
  aopen,         \* connections that are open: <<number, plugin>>
  amade,         \* how many were made
  amixed,        \* those whose database was given another plugin since
  atodo,         \* what is left of a scan: [files, entries], and its config
  ascans, apath, aobserver, alive,
  asession,      \* of each thread: where it is, and the database
  acursor,       \* a cursor or sequence in use: plugin it came from, or none
  acrash         \* the method that was called though the plugin lacks it

managerVars == <<amodules, aloaded, acredentials, aopen, amade, amixed, atodo, ascans, apath,
                 aobserver, alive, asession, acursor, acrash>>
scanVars == <<amodules, aloaded, ascans, apath, aobserver, alive, atodo>>

None == "none"
NoConfig == [format |-> "xml", path |-> None, exec |-> None, entries |-> <<>>]
NotScanning == [files |-> {}, entries |-> <<>>, given |-> NoConfig]
Idle == atodo.files = {} /\ atodo.entries = <<>>
Loaded == {f \in AFiles : aloaded[f] > 0}
Plugin(type) == amodules[type]

ManagerInit ==      \* adbl_new
  /\ amodules = <<>> /\ acredentials = <<>>
  /\ aloaded = [f \in AFiles |-> 0]
  /\ aopen = {} /\ amade = 0 /\ amixed = {}
  /\ atodo = NotScanning
  /\ ascans = 0 /\ apath = None /\ aobserver = None /\ alive = TRUE
  /\ asession = [t \in AThreads |-> [at |-> "idle", name |-> None]]
  /\ acursor = None
  /\ acrash = None

-----------------------------------------------------------------------------
(* Scanning.                                                               *)
Found(path) == IF path = "dir" THEN AFiles ELSE {}

(* Without a path the directory beside the program is taken; without that  *)
(* nothing is done.  The XML databases follow the plugins only here.       *)
ValidateConfig(config, path) ==
  LET way == IF path = None THEN config.exec ELSE path
      given == IF way = None /\ config.format = "xml" THEN [config EXCEPT !.entries = <<>>]
               ELSE config
  IN  /\ apath' = way
      /\ atodo' = [files |-> Found(way), entries |-> given.entries, given |-> given]

MayScan == alive /\ Idle /\ ascans < AScans /\ ascans' = ascans + 1

(* The observer is new each time; the path stays if the file names none.   *)
Scan(config) ==
  /\ config.format = "xml" /\ MayScan
  /\ aobserver' = "adbl.xml"
  /\ ValidateConfig(config, IF config.path = None THEN apath ELSE config.path)
  /\ UNCHANGED <<amodules, aloaded, acredentials, aopen, amade, amixed, alive, asession, acursor>>

(* The path is replaced whatever the file says; if there is an observer    *)
(* its XML databases are read too: the same run does one or the other.     *)
ScanJson(config) ==
  /\ config.format = "json" /\ aobserver = None /\ MayScan
  /\ ValidateConfig(config, config.path)
  /\ UNCHANGED <<amodules, aloaded, acredentials, aopen, amade, amixed, aobserver, alive, asession,
                 acursor>>

(* ecdl_new takes libraries only; one without dbinfo is closed again.      *)
DlNew(f) == f.so
DlMethod(f, method) == method \in f.methods
DlDelete(f) == [aloaded EXCEPT ![f] = @ - 1]

(* Mutation: the library of a plugin that is known already stays loaded.   *)
AddPluginTwice(f, loaded) ==
  /\ amodules' = IF f.plugin \in DOMAIN amodules THEN amodules
                 ELSE [n \in DOMAIN amodules \cup {f.plugin} |->
                         IF n = f.plugin THEN f ELSE amodules[n]]
  /\ aloaded' = loaded

AddPlugin(f, loaded) ==
  IF f.plugin \in DOMAIN amodules
  THEN aloaded' = [loaded EXCEPT ![f] = @ - 1] /\ UNCHANGED amodules
  ELSE /\ aloaded' = loaded
       /\ amodules' = [n \in DOMAIN amodules \cup {f.plugin} |->
                         IF n = f.plugin THEN f ELSE amodules[n]]

ScanPlugin ==
  \E f \in atodo.files :
    /\ atodo' = [atodo EXCEPT !.files = @ \ {f}]
    /\ IF DlNew(f) /\ DlMethod(f, "dbinfo")
       THEN AddPlugin(f, [aloaded EXCEPT ![f] = @ + 1])
       ELSE UNCHANGED <<amodules, aloaded>>
    /\ UNCHANGED <<acredentials, aopen, amade, amixed, ascans, apath, aobserver, alive, asession,
                   acursor>>

(* A file is named after prefix, schema and extension, beside the config.  *)
FileName(entry) ==
  IF ~entry.file THEN None
  ELSE (IF entry.prefix = None THEN "" ELSE entry.prefix \o "_") \o entry.schema
       \o (IF entry.ext = None THEN ".db" ELSE entry.ext)

Credentials(entry) == [type |-> entry.type, connection |-> <<>>, file |-> FileName(entry)]
With(name, credentials) ==
  [n \in DOMAIN acredentials \cup {name} |-> IF n = name THEN credentials ELSE acredentials[n]]
Named(entry) == entry.name # None /\ entry.type # None
Rest(entries) == [atodo EXCEPT !.entries = entries]

(* Mutation: the later of two entries of a name wins.                      *)
ParseDatabaseLater(entry) ==
  acredentials' = IF Named(entry) /\ entry.type \in DOMAIN amodules
                  THEN With(entry.name, Credentials(entry)) ELSE acredentials

(* A name without a plugin is left out, a name twice keeps the first.      *)
ParseDatabase(entry) ==
  acredentials' = IF /\ Named(entry) /\ entry.type \in DOMAIN amodules
                     /\ entry.name \notin DOMAIN acredentials
                  THEN With(entry.name, Credentials(entry)) ELSE acredentials

(* The XML parser goes on after an unknown type ...                        *)
ParseXml ==
  /\ atodo.files = {} /\ atodo.entries # <<>> /\ atodo.given.format = "xml"
  /\ ParseDatabase(Head(atodo.entries))
  /\ atodo' = Rest(Tail(atodo.entries))
  /\ UNCHANGED <<amodules, aloaded, aopen, amade, amixed, ascans, apath, aobserver, alive, asession,
                 acursor>>

(* ... the JSON one returns: what comes after it is not read.              *)
ScanJsonParse ==
  /\ atodo.files = {} /\ atodo.entries # <<>> /\ atodo.given.format = "json"
  /\ ParseDatabase(Head(atodo.entries))
  /\ LET entry == Head(atodo.entries)
     IN  atodo' = Rest(IF Named(entry) /\ entry.type \notin DOMAIN amodules THEN <<>>
                       ELSE Tail(atodo.entries))
  /\ UNCHANGED <<amodules, aloaded, aopen, amade, amixed, ascans, apath, aobserver, alive, asession,
                 acursor>>

-----------------------------------------------------------------------------
(* Sessions.                                                               *)
Ready == alive /\ Idle

(* adbl_setCredentialsFile: type, plugin and file change, the connection   *)
(* stays if there is one.                                                  *)
SetCredentialsFile(name, type) ==
  /\ Ready /\ type \in DOMAIN amodules
  /\ acredentials' = With(name,
       [type |-> type, file |-> "set",
        connection |-> IF name \in DOMAIN acredentials THEN acredentials[name].connection
                       ELSE <<>>])
  /\ amixed' = amixed \cup {acredentials[n].connection[1] : n \in
                   {m \in DOMAIN acredentials \cap {name} :
                      acredentials[m].connection # <<>> /\ acredentials[m].type # type}}
  /\ UNCHANGED <<scanVars, aopen, amade, asession, acursor>>

(* adbl_openSession: the database is looked up before the mutex is taken.  *)
OpenSession(t, name) ==
  /\ Ready /\ asession[t].at = "idle"
  /\ name \in DOMAIN acredentials
  /\ asession' = [asession EXCEPT ![t] = [at |-> "opens", name |-> name]]
  /\ UNCHANGED <<scanVars, acredentials, aopen, amade, amixed, acursor>>

Connects(name) ==
  LET connection == <<amade + 1, acredentials[name].type>>
  IN  /\ amade' = amade + 1
      /\ aopen' = aopen \cup {connection}
      /\ acredentials' = [acredentials EXCEPT ![name].connection = connection]
      /\ UNCHANGED amixed
Answers(t, at) == asession' = [asession EXCEPT ![t].at = at]

(* Mutation: that there is no connection is known from before the mutex.   *)
ConnectAgain(t) ==
  /\ asession[t].at = "opens"
  /\ LET pc == acredentials[asession[t].name]
     IN  /\ DlMethod(Plugin(pc.type), "dbconnect")
         /\ Connects(asession[t].name) /\ Answers(t, "open")
  /\ UNCHANGED <<scanVars, acursor>>

(* Under the mutex: connect unless another session has done so.            *)
Connect(t) ==
  /\ asession[t].at = "opens"
  /\ LET pc == acredentials[asession[t].name]
     IN  IF pc.connection # <<>>
         THEN Answers(t, "open") /\ UNCHANGED <<acredentials, aopen, amade, amixed>>
         ELSE \/ /\ DlMethod(Plugin(pc.type), "dbconnect")
                 /\ Connects(asession[t].name) /\ Answers(t, "open")
              \/ Answers(t, "idle") /\ UNCHANGED <<acredentials, aopen, amade, amixed>>
  /\ UNCHANGED <<scanVars, acursor>>

CloseSession(t) ==
  /\ asession[t].at = "open"
  /\ Answers(t, "idle")
  /\ UNCHANGED <<scanVars, acredentials, aopen, amade, amixed, acursor>>

-----------------------------------------------------------------------------
(* Requests.  Whether the plugin has the method is asked of another method *)
(* for some of them, and the call then goes to an address that is NULL.    *)
Does(t, method, checked, cursor) ==
  LET pc == acredentials[asession[t].name]
      library == Plugin(pc.type)
  IN  /\ asession[t].at = "open"
      /\ acrash' = IF \/ pc.connection = <<>> \/ ~DlMethod(library, checked)    \* declined
                      \/ DlMethod(library, method)                             \* done
                   THEN None ELSE method
      /\ acursor' = IF cursor /\ DlMethod(library, method) THEN pc.type ELSE acursor
      /\ UNCHANGED <<scanVars, acredentials, aopen, amade, amixed, asession>>

Query(t) == acursor = None /\ Does(t, "dbquery", "dbquery", TRUE)
Procedure(t) == Does(t, "dbprocedure", "dbprocedure", FALSE)
TableSize(t) == Does(t, "dbtable_size", "dbtable_size", FALSE)
SequenceGet(t) == acursor = None /\ Does(t, "dbsequence_get", "dbsequence_get", TRUE)
Change(t) ==
  \E method \in {"dbupdate", "dbinsert", "dbdelete"} : Does(t, method, "dbquery", FALSE)
Transaction(t) ==
  \E method \in {"dbbegin", "dbcommit", "dbrollback"} : Does(t, method, method, FALSE)
Describe(t) ==
  \E method \in {"dbschema", "dbtable"} : Does(t, method, "dbrollback", FALSE)

(* A cursor or sequence goes on with the plugin it came from, and is       *)
(* declined when that lacks the method.                                    *)
ManagerFetch == acursor # None /\ UNCHANGED managerVars

Release ==
  /\ acursor # None
  /\ acursor' = None
  /\ UNCHANGED <<scanVars, acredentials, aopen, amade, amixed, asession>>

(* Mutation: the connections are left to the plugins.                      *)
DeleteLeaves ==
  /\ Ready /\ acursor = None /\ \A t \in AThreads : asession[t].at = "idle"
  /\ alive' = FALSE /\ aobserver' = None
  /\ acredentials' = <<>> /\ amodules' = <<>>
  /\ aloaded' = [f \in AFiles |-> IF \E n \in DOMAIN amodules : amodules[n] = f
                                  THEN aloaded[f] - 1 ELSE aloaded[f]]
  /\ UNCHANGED <<aopen, amade, amixed, atodo, ascans, apath, asession, acursor>>

(* adbl_delete, when the sessions are closed: connections are closed by    *)
(* the plugin the credentials name now, then the libraries are unloaded.   *)
ManagerDelete ==
  /\ Ready /\ acursor = None /\ \A t \in AThreads : asession[t].at = "idle"
  /\ alive' = FALSE /\ aobserver' = None
  /\ aopen' = aopen \ {acredentials[n].connection :
                        n \in {m \in DOMAIN acredentials :
                                 DlMethod(Plugin(acredentials[m].type), "dbdisconnect")}}
  /\ acredentials' = <<>> /\ amodules' = <<>>
  /\ aloaded' = [f \in AFiles |-> IF \E n \in DOMAIN amodules : amodules[n] = f
                                  THEN aloaded[f] - 1 ELSE aloaded[f]]
  /\ UNCHANGED <<amade, amixed, atodo, ascans, apath, asession, acursor>>

Requests ==
  \/ \E t \in AThreads : \/ Query(t) \/ Procedure(t) \/ TableSize(t) \/ SequenceGet(t)
                        \/ Change(t) \/ Transaction(t) \/ Describe(t)
  \/ ManagerFetch
Others ==
  \/ \E config \in AConfigs : Scan(config) \/ ScanJson(config)
  \/ ScanPlugin \/ ParseXml \/ ScanJsonParse
  \/ \E name \in ANames, type \in DOMAIN amodules : SetCredentialsFile(name, type)
  \/ \E t \in AThreads :
       \/ \E name \in ANames : OpenSession(t, name)
       \/ Connect(t) \/ CloseSession(t)
  \/ Release \/ ManagerDelete

ManagerNext == acrash = None /\ (Requests \/ (Others /\ UNCHANGED acrash))

-----------------------------------------------------------------------------
(* Every library that stays loaded is the one of a plugin, loaded once     *)
(* however often the directory was scanned; nothing stays when the manager *)
(* is gone.                                                                *)
LibrariesAreHeld ==
  aloaded = [f \in AFiles |-> Cardinality({n \in DOMAIN amodules : amodules[n] = f})]

(* A connection that is open is the one of exactly one database, and there *)
(* is none that nobody knows: two sessions that open a database together   *)
(* get the same.  Its plugin serves it unless another was set for the      *)
(* database since.  When the manager is gone only a connection whose plugin*)
(* cannot close, or was changed, stays open.                               *)
ConnectionsAreHeld ==
  /\ alive => aopen = {acredentials[n].connection :
                         n \in {m \in DOMAIN acredentials : acredentials[m].connection # <<>>}}
  /\ \A n, m \in DOMAIN acredentials :
       acredentials[n].connection = acredentials[m].connection /\ n # m
         => acredentials[n].connection = <<>>
  /\ \A n \in DOMAIN acredentials :
       LET connection == acredentials[n].connection
       IN  connection = <<>> \/ connection[1] \in amixed \/ connection[2] = acredentials[n].type
  /\ ~alive => \A c \in aopen :
       c[1] \in amixed \/ \E f \in AFiles : f.plugin = c[2] /\ ~DlMethod(f, "dbdisconnect")
  /\ \A t \in AThreads : asession[t].at = "open" =>
       acredentials[asession[t].name].connection \in aopen

(* The databases after a scan are the first of each name that has a plugin *)
(* (of a JSON file, up to the first entry without one), unless a file was  *)
(* set for it since.                                                       *)
KnownEntries(config) ==
  LET entries == config.entries
      named == {i \in DOMAIN entries : Named(entries[i])}
      unknown == {i \in named : entries[i].type \notin DOMAIN amodules}
      read == IF config.format = "xml" THEN named \ unknown
              ELSE {i \in named : \A j \in unknown : i < j}
  IN  {i \in read : \A j \in read : entries[j].name = entries[i].name => i <= j}
ConfigIsTaken ==
  (ascans = 1 /\ Idle /\ alive) =>
    LET known == {atodo.given.entries[i] : i \in KnownEntries(atodo.given)}
    IN  /\ \A e \in known : /\ e.name \in DOMAIN acredentials
                            /\ \/ acredentials[e.name].file = "set"
                               \/ /\ acredentials[e.name].type = e.type
                                  /\ acredentials[e.name].file = FileName(e)
        /\ \A n \in DOMAIN acredentials :
             acredentials[n].file = "set" \/ \E e \in known : e.name = n

(* A request ends in a method the plugin has, or is declined: but for the  *)
(* five that ask for another method than they call.                        *)
RequestsAreChecked ==
  acrash \in {None, "dbupdate", "dbinsert", "dbdelete", "dbschema", "dbtable"}

(* All of it.                                                              *)
ManagerKeeps ==
  LibrariesAreHeld /\ ConnectionsAreHeld /\ ConfigIsTaken /\ RequestsAreChecked
=============================================================================
