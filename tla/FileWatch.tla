------------------------------ MODULE FileWatch -----------------------------
(***************************************************************************)
(* The file observer: ecf_observer_* of src/entc/utils/ecobserver.c on top *)
(* of the notification thread of src/entc/system/ecevents_linux.c          *)
(* (ece_files_new and others).  An application opens a file; other         *)
(* programs write it, move it away, remove or replace it; the kernel       *)
(* reports that as events of a watch; a thread handles the events and      *)
(* opens the file anew.  The application and the thread share the handle   *)
(* and the table of watches without a lock.                                *)
(***************************************************************************)
EXTENDS Naturals, Sequences

CONSTANTS
  WFiles,      \* bound on the files that exist one after the other
  WMaxWatches, \* bound on the watches that are added
  WMaxOps,     \* bound on what other programs do
  WTries       \* how often onDelete finds no file before it gives up (5)

NoFile == 0
Watches == 1 .. WMaxWatches

ASSUME WatchConstants == {WFiles, WMaxWatches, WMaxOps, WTries} \subseteq Nat

VARIABLES
  wat,      \* the file that has the observed name, or NoFile
  wmade,    \* files made so far
  wgone,    \* files that have no name any more
  winode,   \* the file of each watch, NoFile when it was removed
  wadded,   \* watches added so far: a number is used once
  wslots,   \* watches whose entry of the matrix is filled
  wevents,  \* what the kernel has to report
  wread,    \* how many of these the thread has read
  whandle,  \* fhandle
  wleaked,  \* files that a lost descriptor keeps open
  wthread,  \* the thread: idle, retry, opened, added, ended, crashed
  wopener,  \* the application: idle, opened, added
  wnew,     \* the watch that each of them is about to fill in
  wtries,   \* counter of onDelete
  wabort,   \* ece_context_setAbort was called
  wlost,    \* the observer holds a file that it cannot follow
  wunread,  \* a change the application was not told of
  wops      \* what other programs did

watchVars == <<wat, wmade, wgone, winode, wadded, wslots, wevents, wread, whandle, wleaked,
               wthread, wopener, wnew, wtries, wabort, wlost, wunread, wops>>
wkernel   == <<winode, wadded, wevents>>
wfiles    == <<wat, wmade, wgone>>

WatchInit ==
  /\ wat = 1 /\ wmade = 1 /\ wgone = {}
  /\ winode = [w \in Watches |-> NoFile] /\ wadded = 0 /\ wslots = {}
  /\ wevents = <<>> /\ wread = 0
  /\ whandle = NoFile /\ wleaked = {}
  /\ wthread = "idle" /\ wopener = "idle" /\ wnew = [thread |-> 0, opener |-> 0]
  /\ wtries = 0 /\ wops = 0
  /\ wabort = FALSE /\ wlost = FALSE /\ wunread = FALSE

-----------------------------------------------------------------------------
(* inotify: a file has at most one watch.                                  *)
WatchOf(f) == {w \in Watches : f # NoFile /\ winode[w] = f}
Report(w, kind) == <<[wd |-> w, kind |-> kind]>>
Reports(f, kind) == IF WatchOf(f) = {} THEN <<>> ELSE Report(CHOOSE w \in WatchOf(f) : TRUE, kind)

(* inotify_add_watch: the watch that the file has, or a new one.           *)
AddWatch(w) ==
  /\ wat # NoFile
  /\ IF WatchOf(wat) # {} THEN w \in WatchOf(wat) /\ UNCHANGED <<winode, wadded>>
     ELSE /\ wadded < WMaxWatches /\ w = wadded + 1
          /\ wadded' = w /\ winode' = [winode EXCEPT ![w] = wat]

(* A file without a name goes when nobody has it open: its watch goes, too.*)
Gone(f) == Reports(f, "DELETE_SELF") \o Reports(f, "IGNORED")
WithoutWatch(f) == [w \in Watches |-> IF f # NoFile /\ winode[w] = f THEN NoFile ELSE winode[w]]

(* ecfh_close in the thread, with rm_watch before it: "ignored" is what    *)
(* that reports.                                                           *)
CloseHandle(inodes, ignored) ==
  LET f == whandle
      last == f \in wgone /\ f \notin wleaked /\ \E w \in Watches : inodes[w] = f
      w == CHOOSE w \in Watches : inodes[w] = f
  IN  /\ whandle' = NoFile
      /\ IF last THEN /\ winode' = [inodes EXCEPT ![w] = NoFile]
                      /\ wevents' = Tail(wevents) \o ignored
                                      \o Report(w, "DELETE_SELF") \o Report(w, "IGNORED")
         ELSE winode' = inodes /\ wevents' = Tail(wevents) \o ignored

-----------------------------------------------------------------------------
(* Other programs.  What is done to a file between the moment when it is   *)
(* opened and the moment when its watch is there is not reported, nor is   *)
(* the end of a file that is still open.                                   *)
Unwatched == wopener # "idle" \/ wthread = "opened"
Operated == wops < WMaxOps /\ wops' = wops + 1
Told(w) == w \in wslots
Notice(f) == wunread' = (wunread \/ \E w \in WatchOf(f) : Told(w))
Rest == UNCHANGED <<wadded, wslots, wread, whandle, wleaked, wthread, wopener, wnew, wtries, wabort>>

WriteFile ==
  /\ Operated /\ wat # NoFile
  /\ wevents' = wevents \o Reports(wat, "MODIFY")
  /\ Notice(wat)
  /\ Rest /\ UNCHANGED <<wfiles, winode, wlost>>

MoveAway ==
  /\ Operated /\ wat # NoFile
  /\ wevents' = wevents \o Reports(wat, "MOVE_SELF")
  /\ wat' = NoFile
  /\ Notice(wat) /\ wlost' = (wlost \/ Unwatched)
  /\ Rest /\ UNCHANGED <<wmade, wgone, winode>>

(* Removed, or replaced by a new file that is renamed to its name.         *)
Unlink(next) ==
  /\ Operated /\ wat # NoFile
  /\ wgone' = wgone \cup {wat} /\ wat' = next
  /\ IF wat = whandle \/ wat \in wleaked
     THEN wevents' = wevents \o Reports(wat, "ATTRIB") /\ UNCHANGED winode
     ELSE wevents' = wevents \o Reports(wat, "ATTRIB") \o Gone(wat) /\ winode' = WithoutWatch(wat)
  /\ Notice(wat) /\ wlost' = (wlost \/ Unwatched \/ wat = whandle \/ wat \in wleaked)
  /\ Rest
RemoveFile == Unlink(NoFile) /\ UNCHANGED wmade
ReplaceFile == wmade < WFiles /\ Unlink(wmade + 1) /\ wmade' = wmade + 1

CreateFile ==
  /\ Operated /\ wat = NoFile /\ wmade < WFiles
  /\ wat' = wmade + 1 /\ wmade' = wmade + 1
  /\ Rest /\ UNCHANGED <<wgone, winode, wevents, wlost, wunread>>

-----------------------------------------------------------------------------
(* ecf_observer_open: the handle there is, or the file is opened           *)
(* (ecsec_fopen), watched, and the entry of the matrix filled in.          *)
OpenFile ==
  /\ wopener = "idle" /\ whandle = NoFile /\ wat # NoFile
  /\ whandle' = wat /\ wopener' = "opened"
  /\ UNCHANGED <<wfiles, wkernel, wslots, wread, wleaked, wthread, wnew, wtries, wabort, wlost,
                 wunread, wops>>

RegisterFails(actor) ==
  /\ wat = NoFile
  /\ UNCHANGED <<winode, wadded, wnew>>

(* ece_files_register up to the filling in.                                *)
Registers(actor) == \E w \in Watches : AddWatch(w) /\ wnew' = [wnew EXCEPT ![actor] = w]

OpenerWatches ==
  /\ wopener = "opened"
  /\ \/ Registers("opener") /\ wopener' = "added"
     \/ RegisterFails("opener") /\ wopener' = "idle"
  /\ UNCHANGED <<wfiles, wevents, wslots, wread, whandle, wleaked, wthread, wtries, wabort, wlost,
                 wunread, wops>>

OpenerFills ==
  /\ wopener = "added" /\ wopener' = "idle"
  /\ wslots' = wslots \cup {wnew.opener}
  /\ UNCHANGED <<wfiles, wkernel, wread, whandle, wleaked, wthread, wnew, wtries, wabort, wlost,
                 wunread, wops>>

-----------------------------------------------------------------------------
(* The thread.  ece_files_nextEvent waits (ece_context_wait) and reads all *)
(* there is; an abort is seen before the events.                           *)
ReadEvents ==
  /\ wthread = "idle" /\ wread = 0 /\ ~wabort /\ wevents # <<>>
  /\ wread' = Len(wevents)
  /\ UNCHANGED <<wfiles, wkernel, wslots, whandle, wleaked, wthread, wopener, wnew, wtries, wabort,
                 wlost, wunread, wops>>

StopThread ==
  /\ wthread = "idle" /\ wread = 0 /\ wabort
  /\ wthread' = "ended"
  /\ UNCHANGED <<wfiles, wkernel, wslots, wread, whandle, wleaked, wopener, wnew, wtries, wabort,
                 wlost, wunread, wops>>

NextEvent(kinds) ==
  /\ wthread = "idle" /\ wread > 0 /\ Head(wevents).kind \in kinds
  /\ wread' = wread - 1

(* A changed file: onChange.                                               *)
Changed ==
  /\ NextEvent({"MODIFY", "ATTRIB"})
  /\ wunread' = (wunread /\ ~Told(Head(wevents).wd))
  /\ wevents' = Tail(wevents)
  /\ UNCHANGED <<wfiles, winode, wadded, wslots, whandle, wleaked, wthread, wopener, wnew, wtries,
                 wabort, wlost, wops>>

(* A file that is gone: its watch is removed, which is reported as well,   *)
(* unless it is removed already; onDelete closes the handle, and crashes   *)
(* without one.                                                            *)
Deleted ==
  /\ NextEvent({"DELETE_SELF", "MOVE_SELF"})
  /\ LET w == Head(wevents).wd
         ignored == IF winode[w] = NoFile THEN <<>> ELSE Report(w, "IGNORED")
         inodes == [winode EXCEPT ![w] = NoFile]
     IN  IF Told(w) /\ whandle # NoFile
         THEN CloseHandle(inodes, ignored) /\ wthread' = "retry" /\ wtries' = 0
         ELSE /\ winode' = inodes /\ wevents' = Tail(wevents) \o ignored
              /\ wthread' = IF Told(w) THEN "crashed" ELSE "idle"
              /\ UNCHANGED <<whandle, wtries>>
  /\ UNCHANGED <<wfiles, wadded, wslots, wleaked, wopener, wnew, wabort, wlost, wunread, wops>>

(* A watch that is gone: a new one for the name, with a copy of the entry. *)
Ignored ==
  /\ NextEvent({"IGNORED"})
  /\ wevents' = Tail(wevents)
  /\ IF Told(Head(wevents).wd) /\ wat # NoFile
     THEN \E w \in Watches : AddWatch(w) /\ wslots' = wslots \cup {w}
     ELSE UNCHANGED <<winode, wadded, wslots>>
  /\ UNCHANGED <<wfiles, whandle, wleaked, wthread, wopener, wnew, wtries, wabort, wlost, wunread,
                 wops>>

(* Mutation: the file is opened once more when it was not there yet, but   *)
(* its watch is left to the one that was removed.                          *)
ReopenOnly ==
  /\ wthread = "retry" /\ wat # NoFile
  /\ whandle' = wat /\ wthread' = IF wtries > 0 THEN "idle" ELSE "opened"
  /\ wleaked' = wleaked \cup ({whandle} \ {NoFile})
  /\ wlost' = (wopener # "idle")
  /\ UNCHANGED <<wfiles, wkernel, wslots, wread, wopener, wnew, wtries, wabort, wunread, wops>>

(* onDelete: the file is opened again, once a second, some times.          *)
Reopen ==
  /\ wthread = "retry" /\ wat # NoFile
  /\ whandle' = wat /\ wthread' = "opened"
  /\ wleaked' = wleaked \cup ({whandle} \ {NoFile})
  /\ wlost' = (wopener # "idle")
  /\ UNCHANGED <<wfiles, wkernel, wslots, wread, wopener, wnew, wtries, wabort, wunread, wops>>

NotYet ==
  /\ wthread = "retry" /\ wat = NoFile
  /\ IF wtries < WTries THEN wtries' = wtries + 1 /\ UNCHANGED <<wthread, wunread>>
     ELSE wthread' = "idle" /\ wunread' = FALSE /\ UNCHANGED wtries
  /\ UNCHANGED <<wfiles, wkernel, wslots, wread, whandle, wleaked, wopener, wnew, wabort, wlost, wops>>

Rewatch ==
  /\ wthread = "opened"
  /\ \/ Registers("thread") /\ wthread' = "added" /\ UNCHANGED wunread
     \/ RegisterFails("thread") /\ wthread' = "idle" /\ wunread' = FALSE
  /\ UNCHANGED <<wfiles, wevents, wslots, wread, whandle, wleaked, wopener, wtries, wabort, wlost, wops>>

(* Mutation: the application is not told.                                  *)
RefilledSilently ==
  /\ wthread = "added" /\ wthread' = "idle"
  /\ wslots' = wslots \cup {wnew.thread}
  /\ UNCHANGED <<wfiles, wkernel, wread, whandle, wleaked, wopener, wnew, wtries, wabort, wlost, wunread,
                 wops>>

(* The entry is filled in and the application told (fct).                  *)
Refilled ==
  /\ wthread = "added" /\ wthread' = "idle"
  /\ wslots' = wslots \cup {wnew.thread} /\ wunread' = FALSE
  /\ UNCHANGED <<wfiles, wkernel, wread, whandle, wleaked, wopener, wnew, wtries, wabort, wlost, wops>>

(* ece_files_delete asks the thread to end and waits for it.               *)
AbortThread ==
  /\ ~wabort /\ wabort' = TRUE
  /\ UNCHANGED <<wfiles, wkernel, wslots, wread, whandle, wleaked, wthread, wopener, wnew, wtries,
                 wlost, wunread, wops>>

ThreadStep ==
  \/ ReadEvents \/ StopThread \/ Changed \/ Deleted \/ Ignored
  \/ Reopen \/ NotYet \/ Rewatch \/ Refilled

WatchNext ==
  /\ wthread # "crashed"
  /\ \/ WriteFile \/ MoveAway \/ RemoveFile \/ ReplaceFile \/ CreateFile
     \/ OpenFile \/ OpenerWatches \/ OpenerFills \/ AbortThread
     \/ ThreadStep

(* The thread is scheduled.                                                *)
WatchFairness == WF_watchVars(ThreadStep)

-----------------------------------------------------------------------------
(* Once everything is reported, an open handle is the file that has the    *)
(* name, and that file is watched with its entry filled in: unless it was  *)
(* changed in a moment when nothing is reported.  And the thread stumbles  *)
(* over a closed handle only after onDelete gave the file up.              *)
ObserverFollows ==
  /\ (wthread = "idle" /\ wopener = "idle" /\ wevents = <<>> /\ ~wlost
        /\ whandle # NoFile /\ wat # NoFile)
      => whandle = wat /\ WatchOf(wat) # {} /\ WatchOf(wat) \subseteq wslots
  /\ wthread = "crashed" => wtries = WTries

(* What happens to a file that is watched is told to the application in    *)
(* the end, or the file is given up, or the events are shut down.          *)
ChangesTold == wunread ~> (~wunread \/ wthread \in {"ended", "crashed"})
=============================================================================
