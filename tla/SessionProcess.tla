-------------------------- MODULE SessionProcess --------------------------
(***************************************************************************)
(* The life of horyzond processes that are started with one configuration  *)
(* root: main() of src/main.rs with what it calls in crates/wm-config      *)
(* (instance lock, installation of defaults), crates/wm-diagnostics        *)
(* (session marker and latest.log) and crates/wm-ipc (socket file).        *)
(*                                                                         *)
(* Every step that another process, the user or a crash can come before is *)
(* an action.  A process ends in one of three ways: main returns and its   *)
(* locals are dropped, a panic drops them too but closes nothing, or       *)
(* process::exit (which exit_with_error calls on every error) and signals  *)
(* leave everything on disk as it is.                                      *)
(*                                                                         *)
(* The user saves and deletes configuration files at any time, those that  *)
(* are being installed too, and deletes a lock file only when no process   *)
(* holds it.  Directories, the contents of logs, crash reports and file    *)
(* permissions are left out.                                               *)
(***************************************************************************)
EXTENDS Naturals

CONSTANTS
  Process,       \* processes; one that has ended may be started again
  NoProcess,
  LastDefault    \* the packaged defaults are numbered 1 .. LastDefault

Default == 1 .. LastDefault

ASSUME ProcessAssumption ==
  /\ NoProcess \notin Process
  /\ LastDefault \in Nat

VARIABLES
  step,          \* where each process is
  next_default,  \* the packaged default an installing process looks at
  replaced,      \* since it created this, another file or none is in its place
  previous_session_unclean,  \* main's process found a marker
  \* files
  lock,          \* the process that created the lock file, or NoProcess
  defaults,      \* default file -> what is in it
  marker,        \* .session-active exists
  latest_log,    \* what latest.log says of the session before
  socket,        \* the process that created the socket file, or NoProcess
  \* history, which no step reads
  ended,         \* how the last session that set a marker ended
  ended_before,  \* how the one before that had ended
  torn           \* defaults left as a process that died writing them left them

localVars == <<next_default, replaced, previous_session_unclean>>
fileVars == <<lock, defaults, marker, latest_log, socket>>
historyVars == <<ended, ended_before, torn>>
sessionVars == <<step, localVars, fileVars, historyVars>>

Step == {"off", "refused", "installing", "writing", "opening", "marking", "archiving",
         "logging", "loading", "binding", "running", "dropping", "unlocking"}

\* The user's text is "edited", and "mixed" when a default was written into it.
Content == {"absent", "partial", "shipped", "edited", "mixed"}

\* An ended session closed its marker, left it behind, or left it behind to a
\* start that died after it had removed it.
Ending == {"closed", "unclosed", "lost"}

\* The processes that own an InstanceLock.
Holding(p) == step[p] \notin {"off", "refused"}

\* The ones whose IpcServer is alive and accepts connections.
Listening(p) == step[p] \in {"running", "dropping"}

\* The ones that run with an open SessionLogger.
Opened(p) == step[p] \in {"loading", "binding", "running"}

Goto(p, s) == step' = [step EXCEPT ![p] = s]
-----------------------------------------------------------------------------
SessionInit ==
  /\ step = [p \in Process |-> "off"]
  /\ next_default = [p \in Process |-> 1]
  /\ replaced = [p \in Process |-> FALSE]
  /\ previous_session_unclean = [p \in Process |-> FALSE]
  /\ lock = NoProcess
  /\ defaults \in [Default -> {"absent", "edited"}]
  /\ marker = FALSE
  /\ latest_log = "none"
  /\ socket = NoProcess
  /\ ended = "closed"
  /\ ended_before = "closed"
  /\ torn = {}

\* Mutant: the lock file is opened whether or not it exists.
AcquireLockAnyway(p) ==
  /\ step[p] = "off"
  /\ lock' = p
  /\ Goto(p, "installing")
  /\ UNCHANGED <<localVars, defaults, marker, latest_log, socket, historyVars>>

\* Creates the lock file, which must not exist.
AcquireLock(p) ==
  /\ step[p] = "off"
  /\ lock = NoProcess
  /\ lock' = p
  /\ Goto(p, "installing")
  /\ UNCHANGED <<localVars, defaults, marker, latest_log, socket, historyVars>>

\* AlreadyRunning: the file exists, whoever left it there.
RefuseStart(p) ==
  /\ step[p] = "off"
  /\ lock # NoProcess
  /\ Goto(p, "refused")
  /\ UNCHANGED <<localVars, fileVars, historyVars>>

LeaveRefused(p) ==
  /\ step[p] = "refused"
  /\ Goto(p, "off")
  /\ UNCHANGED <<localVars, fileVars, historyVars>>

\* Mutant: the default is created over whatever is there.
CreateDefaultOver(p) ==
  /\ step[p] = "installing"
  /\ next_default[p] \in Default
  /\ defaults' = [defaults EXCEPT ![next_default[p]] = "partial"]
  /\ Goto(p, "writing")
  /\ UNCHANGED <<localVars, lock, marker, latest_log, socket, historyVars>>

\* install_defaults and write_if_absent.
CreateDefault(p) ==
  /\ step[p] = "installing"
  /\ next_default[p] \in Default
  /\ defaults[next_default[p]] = "absent"
  /\ defaults' = [defaults EXCEPT ![next_default[p]] = "partial"]
  /\ Goto(p, "writing")
  /\ UNCHANGED <<localVars, lock, marker, latest_log, socket, historyVars>>

\* What has been written when a write ends, or is cut short, may be over the
\* text that the user meanwhile saved into the same file.
OverwriteEdit(p) ==
  IF step[p] = "writing" /\ ~replaced[p] /\ defaults[next_default[p]] = "edited"
  THEN \E content \in {"edited", "mixed", "shipped"} :
         defaults' = [defaults EXCEPT ![next_default[p]] = content]
  ELSE UNCHANGED defaults

\* Mutant: the default is written to its path, whatever file is there now.
WriteDefaultAtPath(p) ==
  /\ step[p] = "writing"
  /\ defaults' = [defaults EXCEPT ![next_default[p]] = "shipped"]
  /\ next_default' = [next_default EXCEPT ![p] = @ + 1]
  /\ replaced' = [replaced EXCEPT ![p] = FALSE]
  /\ Goto(p, "installing")
  /\ UNCHANGED <<previous_session_unclean, lock, marker, latest_log, socket, historyVars>>

\* It is written to the file that was created, wherever this is by now.
WriteDefault(p) ==
  /\ step[p] = "writing"
  /\ IF defaults[next_default[p]] = "partial"
     THEN defaults' = [defaults EXCEPT ![next_default[p]] = "shipped"]
     ELSE OverwriteEdit(p)
  /\ next_default' = [next_default EXCEPT ![p] = @ + 1]
  /\ replaced' = [replaced EXCEPT ![p] = FALSE]
  /\ Goto(p, "installing")
  /\ UNCHANGED <<previous_session_unclean, lock, marker, latest_log, socket, historyVars>>

\* Mutant: the file that could not be written stays.
WriteFailsHalfway(p) ==
  /\ step[p] = "writing"
  /\ Goto(p, "off")
  /\ next_default' = [next_default EXCEPT ![p] = 1]
  /\ replaced' = [replaced EXCEPT ![p] = FALSE]
  /\ UNCHANGED <<previous_session_unclean, fileVars, historyVars>>

\* The write fails: what is at the path is removed, and main exits.
WriteFails(p) ==
  /\ step[p] = "writing"
  /\ defaults' = [defaults EXCEPT ![next_default[p]] = "absent"]
  /\ Goto(p, "off")
  /\ next_default' = [next_default EXCEPT ![p] = 1]
  /\ replaced' = [replaced EXCEPT ![p] = FALSE]
  /\ UNCHANGED <<previous_session_unclean, lock, marker, latest_log, socket, historyVars>>

PreserveDefault(p) ==
  /\ step[p] = "installing"
  /\ next_default[p] \in Default
  /\ defaults[next_default[p]] # "absent"
  /\ next_default' = [next_default EXCEPT ![p] = @ + 1]
  /\ UNCHANGED <<step, replaced, previous_session_unclean, fileVars, historyVars>>

Installed(p) ==
  /\ step[p] = "installing"
  /\ next_default[p] \notin Default
  /\ Goto(p, "opening")
  /\ next_default' = [next_default EXCEPT ![p] = 1]
  /\ UNCHANGED <<replaced, previous_session_unclean, fileVars, historyVars>>

\* SessionLogger::open: removes a marker left behind ...
ClearMarker(p) ==
  /\ step[p] = "opening"
  /\ previous_session_unclean' = [previous_session_unclean EXCEPT ![p] = marker]
  /\ marker' = FALSE
  /\ Goto(p, "marking")
  /\ UNCHANGED <<next_default, replaced, lock, defaults, latest_log, socket, historyVars>>

\* ... creates its own ...
WriteMarker(p) ==
  /\ step[p] = "marking"
  /\ ~marker
  /\ marker' = TRUE
  /\ ended_before' = ended
  /\ ended' = "unclosed"
  /\ Goto(p, "archiving")
  /\ UNCHANGED <<localVars, lock, defaults, latest_log, socket,
                 torn>>

\* ... moves the previous log away ...
ArchiveLog(p) ==
  /\ step[p] = "archiving"
  /\ latest_log' = "none"
  /\ Goto(p, "logging")
  /\ UNCHANGED <<localVars, lock, defaults, marker, socket, historyVars>>

\* ... and begins its own, saying so when it found a marker.
StartLog(p) ==
  /\ step[p] = "logging"
  /\ latest_log = "none"
  /\ latest_log' = IF previous_session_unclean[p] THEN "after unclean" ELSE "after clean"
  /\ Goto(p, "loading")
  /\ previous_session_unclean' = [previous_session_unclean EXCEPT ![p] = FALSE]
  /\ UNCHANGED <<next_default, replaced, lock, defaults, marker, socket, historyVars>>

\* load_initial, from_config and the startup hook.
LoadConfiguration(p) ==
  /\ step[p] = "loading"
  /\ Goto(p, "binding")
  /\ UNCHANGED <<localVars, fileVars, historyVars>>

\* Anything but the packaged text may be rejected: main exits.
RejectConfiguration(p) ==
  /\ step[p] = "loading"
  /\ \E d \in Default : defaults[d] # "shipped"
  /\ Goto(p, "off")
  /\ UNCHANGED <<localVars, fileVars, historyVars>>

\* IpcServer::bind removes what is at the path and creates its own socket.
BindSocket(p) ==
  /\ step[p] = "binding"
  /\ socket' = p
  /\ Goto(p, "running")
  /\ UNCHANGED <<localVars, lock, defaults, marker, latest_log, historyVars>>

\* Mutant: a clean end leaves the marker.
CloseSessionOnly(p) ==
  /\ step[p] = "running"
  /\ ended' = "closed"
  /\ Goto(p, "dropping")
  /\ UNCHANGED <<localVars, fileVars, ended_before, torn>>

\* Mutant: the lock is released before the socket is.
CloseSessionUnlocking(p) ==
  /\ step[p] = "running"
  /\ marker' = FALSE
  /\ ended' = "closed"
  /\ lock' = NoProcess
  /\ Goto(p, "dropping")
  /\ UNCHANGED <<localVars, defaults, latest_log, socket, ended_before, torn>>

\* logger.close() once the loop has returned, or at once with --once.
CloseSession(p) ==
  /\ step[p] = "running"
  /\ marker' = FALSE
  /\ ended' = "closed"
  /\ Goto(p, "dropping")
  /\ UNCHANGED <<localVars, lock, defaults, latest_log, socket,
                 ended_before, torn>>

\* The locals of main are dropped, the lock being the oldest.
DropServer(p) ==
  /\ step[p] = "dropping"
  /\ socket' = NoProcess
  /\ Goto(p, "unlocking")
  /\ UNCHANGED <<localVars, lock, defaults, marker, latest_log, historyVars>>

DropLock(p) ==
  /\ step[p] = "unlocking"
  /\ lock' = NoProcess
  /\ Goto(p, "off")
  /\ UNCHANGED <<localVars, defaults, marker, latest_log, socket, historyVars>>

\* What a process leaves half done when it stops where it is.
LeaveHalfDone(p) ==
  /\ ended' = IF step[p] = "marking" /\ previous_session_unclean[p] THEN "lost" ELSE ended
  /\ torn' = IF step[p] = "writing" /\ defaults[next_default[p]] = "partial"
             THEN torn \cup {next_default[p]} ELSE torn
  /\ OverwriteEdit(p)
  /\ next_default' = [next_default EXCEPT ![p] = 1]
  /\ replaced' = [replaced EXCEPT ![p] = FALSE]
  /\ previous_session_unclean' = [previous_session_unclean EXCEPT ![p] = FALSE]
  /\ UNCHANGED <<lock, marker, latest_log, socket, ended_before>>

\* A signal, an abort, or exit_with_error after an error: no destructor runs.
Die(p) ==
  /\ Holding(p)
  /\ Goto(p, "off")
  /\ LeaveHalfDone(p)

\* A panic unwinds main: what has been bound is dropped, the marker stays.
Panic(p) ==
  /\ Holding(p)
  /\ step[p] \notin {"dropping", "unlocking"}
  /\ Goto(p, IF step[p] = "running" THEN "dropping" ELSE "unlocking")
  /\ LeaveHalfDone(p)

\* The user deletes a default, or saves it as a new file in its place.
EditDefault(d) ==
  /\ \E content \in {"absent", "edited"} : defaults' = [defaults EXCEPT ![d] = content]
  /\ replaced' = [p \in Process |-> replaced[p] \/ (step[p] = "writing" /\ next_default[p] = d)]
  /\ torn' = torn \ {d}
  /\ UNCHANGED <<step, next_default, previous_session_unclean, lock, marker, latest_log,
                 socket, ended, ended_before>>

\* ... or saves it in place: a process that is writing it has the same file.
SaveInPlace(d) ==
  /\ defaults[d] # "absent"
  /\ defaults' = [defaults EXCEPT ![d] = "edited"]
  /\ torn' = torn \ {d}
  /\ UNCHANGED <<step, localVars, lock, marker, latest_log, socket, ended, ended_before>>

\* The error message names the lock file; the user deletes it.
RemoveStaleLock ==
  /\ lock # NoProcess
  /\ \A p \in Process : ~Holding(p)
  /\ lock' = NoProcess
  /\ UNCHANGED <<step, localVars, defaults, marker, latest_log,
                 socket, historyVars>>
-----------------------------------------------------------------------------
Start(p) ==
  \/ AcquireLock(p)
  \/ RefuseStart(p)
  \/ LeaveRefused(p)

Install(p) ==
  \/ CreateDefault(p)
  \/ WriteDefault(p)
  \/ WriteFails(p)
  \/ PreserveDefault(p)
  \/ Installed(p)

OpenLogger(p) ==
  \/ ClearMarker(p)
  \/ WriteMarker(p)
  \/ ArchiveLog(p)
  \/ StartLog(p)

End(p) ==
  \/ CloseSession(p)
  \/ DropServer(p)
  \/ DropLock(p)
  \/ Die(p)
  \/ Panic(p)

Configure(p) == RejectConfiguration(p) \/ LoadConfiguration(p) \/ BindSocket(p)

SessionNext ==
  \/ \E p \in Process : Start(p) \/ Install(p) \/ OpenLogger(p) \/ Configure(p) \/ End(p)
  \/ \E d \in Default : EditDefault(d) \/ SaveInPlace(d)
  \/ RemoveStaleLock

SessionSpec == SessionInit /\ [][SessionNext]_sessionVars
-----------------------------------------------------------------------------
SessionTypeOK ==
  /\ step \in [Process -> Step]
  /\ next_default \in [Process -> 1 .. LastDefault + 1]
  /\ \A p \in Process : step[p] = "writing" => next_default[p] \in Default
  /\ replaced \in [Process -> BOOLEAN]
  /\ previous_session_unclean \in [Process -> BOOLEAN]
  /\ lock \in Process \cup {NoProcess}
  /\ defaults \in [Default -> Content]
  /\ marker \in BOOLEAN
  /\ latest_log \in {"none", "after clean", "after unclean"}
  /\ socket \in Process \cup {NoProcess}
  /\ ended \in Ending
  /\ ended_before \in Ending
  /\ torn \subseteq Default

\* One instance per configuration root: two processes never work on its files
\* at the same time, and the lock file is there, and is its own, for as long
\* as a process works on them.
OneInstance ==
  \A p, q \in Process : Holding(p) => lock = p /\ (Holding(q) => q = p)

\* The socket file belongs to the process that serves it: nobody's start or
\* end removes or replaces the socket of a live instance.
SocketIsServed == \A p \in Process : Listening(p) => socket = p

\* latest.log says that the session before did not end cleanly exactly when
\* that is so.  The one exception is a start that died after it had removed
\* the marker and before it had created its own.
UncleanEndIsReported ==
  \A p \in Process :
    Opened(p) => (latest_log = "after unclean" <=> ended_before = "unclosed")

\* A configuration is only ever loaded from whole defaults, unless a process
\* died while it was writing one: an I/O error leaves none behind.
TornOnlyByDeath ==
  \A d \in Default :
    defaults[d] = "partial" =>
      \/ d \in torn
      \/ \E p \in Process : step[p] = "writing" /\ next_default[p] = d

\* A process takes nothing of the user's, but for one instant: what it does
\* never changes a default with the user's text, unless this is the very file
\* that it found absent, created and has not written yet.  Even then it does not
\* write into a file that the user saved in the place of its own; it may write
\* into one saved in place, and if the write fails it removes either.
UserFilesAreKept ==
  [][\A p \in Process, d \in Default :
       step'[p] # step[p] /\ defaults[d] = "edited" /\ defaults'[d] # "edited" =>
         /\ step[p] = "writing"
         /\ next_default[p] = d
         /\ replaced[p] => defaults'[d] = "absent" /\ step'[p] = "off"]_sessionVars
=============================================================================
