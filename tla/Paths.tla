-------------------------------- MODULE Paths --------------------------------
(***************************************************************************)
(* The names of files and the directories: src/entc/system/ecfile.c,       *)
(* ecfile_unix.c and ecdl.c, and the opening of files below a configured   *)
(* directory, src/entc/utils/ecsecfile.c.  A path is a sequence of         *)
(* characters, or Absent.                                                  *)
(***************************************************************************)
EXTENDS Strings

Slash == "/"
PathCharacters == {Slash, ".", "c", "x"}
ConfDir == <<Slash, "c">>
Missing == <<"none">>

-----------------------------------------------------------------------------
(* ecfs_mergeToPath, ecfs_getDirectory, ecfs_extractFile, and the parts of *)
(* a file's name: ecfs_extractFileExtension and ecfs_extractFileName.      *)
MergeToPath(path, file) ==
  IF file # <<>> /\ Head(file) = Slash THEN path \o file ELSE path \o <<Slash>> \o file
GetDirectory(path) == IF LastPos(path, Slash) = 0 THEN Absent ELSE Part(path, 0, LastPos(path, Slash) - 1)
ExtractFile(path) == SubSeq(path, LastPos(path, Slash) + 1, Len(path))
ExtractExtension(path) ==
  LET file == ExtractFile(path)
  IN  IF LastPos(file, ".") = 0 THEN Absent ELSE SubSeq(file, LastPos(file, ".") + 1, Len(file))
ExtractName(path) ==
  LET file == ExtractFile(path)
  IN  IF file = <<>> THEN Absent ELSE IF LastPos(file, ".") = 0 THEN file
      ELSE Part(file, 0, LastPos(file, ".") - 1)

(* ecdl_new takes a file with the extension "so" (here "x"), ecdl_fromName *)
(* puts a prefix ("c") before a name and the extension behind it.          *)
IsLibrary(path) == path # <<>> /\ ExtractExtension(path) = <<"x">>
LibraryPath(path, name) == MergeToPath(path, <<"c">> \o name \o <<".", "x">>)

-----------------------------------------------------------------------------
(* ecsec_file_checkpath and ecsec_checkPath compare characters, not names. *)
CheckPath(path) == IF IsPrefix(ConfDir, path) THEN 0 ELSE 1

(* ecsec_extractPathAndCheck: a name without a directory is checked as if  *)
(* it were in the configured one.                                          *)
ExtractPathAndCheck(filename) ==
  LET full == IF LastPos(filename, Slash) = 0 THEN MergeToPath(ConfDir, filename) ELSE filename
  IN  CheckPath(GetDirectory(full))

(* ecsec_fopen: "real" is the real path of a file that is there, Missing if *)
(* there is none; only what is written may be missing, and it is opened by *)
(* the name as it was given.                                               *)
SecOpen(filename, real, writing) ==
  LET opened == IF real = Missing THEN filename ELSE real
  IN  IF real = Missing /\ ~writing THEN Missing
      ELSE IF ExtractPathAndCheck(opened) # 0 THEN Missing ELSE opened

(* ecsec_dopen opens a directory that is there, ecd_observer_open once;    *)
(* ecsec_mkdir makes one wherever it is told to.                           *)
SecDirOpen(real) == IF real = Missing \/ CheckPath(real) # 0 THEN Missing ELSE real
DirObserverOpen(path, handle) == IF handle # Missing THEN handle ELSE SecDirOpen(path)
SecMakeDir(path, there) == IF there THEN Missing ELSE path

-----------------------------------------------------------------------------
(* A directory is a sequence of entries: what it is (kind), whether the    *)
(* file system says so (known), and what is in it.  A link may lead to     *)
(* nothing, or to a directory elsewhere.                                   *)
DirEntry(kind, known, in) == [kind |-> kind, known |-> known, in |-> in]
StatFails(e) == e.kind = "dangling"
StatType(e) == IF e.kind \in {"dir", "linked"} THEN "dir" ELSE "file"

(* ecdh_scan with ecdh_next: the entries of a type, up to the first that   *)
(* cannot be looked at.                                                    *)
DirScan(entries, type) ==
  LET failing == {k \in DOMAIN entries : StatFails(entries[k])} \cup {Len(entries) + 1}
  IN  SelectSeq(SubSeq(entries, 1, Min(failing) - 1), LAMBDA e : StatType(e) = type)

(* Mutation: what follows an entry that stays is still removed.            *)
RECURSIVE RmdirGoesOn(_)
RmdirGoesOn(entries) ==
  LET Left(e) == IF e.kind \in {"dir", "linked"} THEN RmdirGoesOn(e.in).left ELSE <<>>
      Stays(e) == e.kind \in {"stuck", "linked"} \/ (e.kind = "dir" /\ Left(e) # <<>>)
      left == FoldLeft(LAMBDA out, e : IF Stays(e) THEN Append(out, [e EXCEPT !.in = Left(e)]) ELSE out,
                       <<>>, entries)
  IN  [left |-> left, ok |-> left = <<>>]

(* ecfs_rmdir with force: entry by entry (ecfs_rmdir_loop) until one stays;*)
(* a directory with what is in it.  What a link leads to is only looked at *)
(* when the type is not known: a directory is emptied then, and the link   *)
(* itself stays.                                                           *)
RECURSIVE Rmdir(_)
Rmdir(entries) ==
  LET Enters(e) == e.kind = "dir" \/ (e.kind = "linked" /\ ~e.known)
      Stays(e) == \/ e.kind = "stuck"
                  \/ e.kind = "dangling" /\ ~e.known
                  \/ e.kind = "linked" /\ ~e.known
                  \/ e.kind = "dir" /\ ~Rmdir(e.in).ok
      Step(r, e) ==
        IF ~r.ok THEN [r EXCEPT !.left = Append(@, e)]
        ELSE IF Stays(e)
             THEN [ok |-> FALSE,
                   left |-> Append(r.left, IF Enters(e) THEN [e EXCEPT !.in = Rmdir(e.in).left] ELSE e)]
        ELSE r
  IN  FoldLeft(Step, [left |-> <<>>, ok |-> TRUE], entries)

Small == {DirEntry(kind, known, <<>>) : kind \in {"file", "stuck", "dangling"}, known \in BOOLEAN}
Nested == {DirEntry(kind, known, in) : kind \in {"dir", "linked"}, known \in BOOLEAN,
                                       in \in {<<>>} \cup {<<e>> : e \in Small}}
DirInputs == {<<>>} \cup {<<e>> : e \in Small \cup Nested}
                    \cup {<<e, f>> : e, f \in Small \cup Nested}

-----------------------------------------------------------------------------
(* A path is put together from the parts it is taken apart into, and what  *)
(* is opened to be read lies in a directory whose name begins with the     *)
(* configured one: everything below that one does.                         *)
PathsMean(s) ==
  LET file == ExtractFile(s)
      dir == GetDirectory(s)
  IN  /\ Slash \notin ToSet(file)
      /\ dir # Absent => MergeToPath(dir, file) = s
      /\ dir = Absent => s = file
      /\ MergeToPath(ConfDir, file) = ConfDir \o <<Slash>> \o file
      /\ ExtractExtension(s) # Absent => ExtractName(s) \o <<".">> \o ExtractExtension(s) = file
      /\ file # <<>> /\ ExtractExtension(s) = Absent => ExtractName(s) = file
      /\ IsLibrary(LibraryPath(s, file))
      /\ SecOpen(<<"x">>, s, FALSE) # Missing /\ dir # Absent => IsPrefix(ConfDir, dir)
      /\ IsPrefix(ConfDir \o <<Slash>>, s) => SecOpen(<<"x">>, s, FALSE) = s /\ SecDirOpen(s) = s
      /\ SecOpen(s, Missing, FALSE) = Missing
      /\ SecOpen(s, Missing, TRUE) \in {Missing, s}
      /\ DirObserverOpen(s, Missing) = SecDirOpen(s) /\ DirObserverOpen(s, ConfDir) = ConfDir

(* A directory is said to be removed when nothing of it is left; what is   *)
(* said to stay did stay, with all that comes after it; and a scan leaves  *)
(* nothing out unless something cannot be looked at.                       *)
DirectoriesGo(entries) ==
  LET r == Rmdir(entries)
  IN  /\ r.ok <=> r.left = <<>>
      /\ \E k \in 0 .. Len(entries) :
           /\ \A j \in 1 .. k : Rmdir(<<entries[j]>>).ok
           /\ Len(r.left) = Len(entries) - k
           /\ \A j \in k + 2 .. Len(entries) : r.left[j - k] = entries[j]
      /\ (\A k \in DOMAIN entries : ~StatFails(entries[k])) =>
           Len(DirScan(entries, "file")) + Len(DirScan(entries, "dir")) = Len(entries)
=============================================================================
