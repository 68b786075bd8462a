---------------------- MODULE SessionProcessTheorems ----------------------
(***************************************************************************)
(* The properties of SessionProcess, for any number of processes and       *)
(* packaged defaults.                                                      *)
(*                                                                         *)
(* SessionInv adds to the type what ties the marker to the history of      *)
(* endings at every point of a start: between ClearMarker and StartLog     *)
(* only the starting process knows that the session before did not close.  *)
(* That nobody interferes in between is LockIsHeld, on which the others    *)
(* rest: whatever takes a step on the files is the holder's, or the user's.*)
(***************************************************************************)
EXTENDS SessionProcess, TLAPS

LockIsHeld == \A p \in Process : Holding(p) => lock = p

MarkerTellsEnding ==
  (\A p \in Process : step[p] # "marking") => (marker <=> ended = "unclosed")

StarterKnowsEnding ==
  \A p \in Process :
    /\ step[p] = "marking" =>
         ~marker /\ (previous_session_unclean[p] <=> ended = "unclosed")
    /\ step[p] \in {"archiving", "logging"} =>
         (previous_session_unclean[p] <=> ended_before = "unclosed")

SessionInv ==
  /\ SessionTypeOK
  /\ LockIsHeld
  /\ SocketIsServed
  /\ MarkerTellsEnding
  /\ StarterKnowsEnding
  /\ UncleanEndIsReported
  /\ TornOnlyByDeath
-----------------------------------------------------------------------------
\* The positions an installing process goes through.
LEMMA Positions ==
  /\ 1 \in 1 .. LastDefault + 1
  /\ \A n \in Default : n + 1 \in 1 .. LastDefault + 1
  BY ProcessAssumption DEF Default

\* Setting one process's position keeps all of them in range.
LEMMA CounterStep ==
  ASSUME next_default \in [Process -> 1 .. LastDefault + 1],
         NEW p \in Process, NEW n \in 1 .. LastDefault + 1
  PROVE  [next_default EXCEPT ![p] = n] \in [Process -> 1 .. LastDefault + 1]
  OBVIOUS

\* What a write does to the text of the user leaves the file a file, whole or
\* mixed, and no other file is touched.
LEMMA OverwriteEffect ==
  ASSUME SessionTypeOK, NEW p \in Process, OverwriteEdit(p)
  PROVE  /\ defaults' \in [Default -> Content]
         /\ \A d \in Default : defaults'[d] = "partial" => defaults[d] = "partial"
         /\ \A d \in Default :
              defaults'[d] # defaults[d] =>
                step[p] = "writing" /\ next_default[p] = d /\ ~replaced[p]
  BY DEF OverwriteEdit, SessionTypeOK, Content

\* Every step of SessionNext keeps the type.
LEMMA TypeStep ==
  ASSUME SessionTypeOK, [SessionNext]_sessionVars
  PROVE  SessionTypeOK'
  <1> USE ProcessAssumption DEF SessionTypeOK, Step, Content, Ending, Default, Goto, localVars, fileVars, historyVars
  <1>1. ASSUME NEW p \in Process, Start(p) PROVE SessionTypeOK'
    <2>1. CASE AcquireLock(p) BY <2>1 DEF AcquireLock
    <2>2. CASE RefuseStart(p) BY <2>2 DEF RefuseStart
    <2>3. CASE LeaveRefused(p) BY <2>3 DEF LeaveRefused
    <2> QED BY <1>1, <2>1, <2>2, <2>3 DEF Start
  <1>2. ASSUME NEW p \in Process, Install(p) PROVE SessionTypeOK'
    <2>1. CASE CreateDefault(p)
      <3> USE <2>1 DEF CreateDefault
      <3>1. step' \in [Process -> Step]
        OBVIOUS
      <3>2. next_default' \in [Process -> 1 .. LastDefault + 1]
        OBVIOUS
      <3>3. \A q \in Process : step'[q] = "writing" => next_default'[q] \in Default
        OBVIOUS
      <3>4. defaults' \in [Default -> Content] /\ torn' \subseteq Default
        OBVIOUS
      <3>5. previous_session_unclean' \in [Process -> BOOLEAN] /\ replaced' \in [Process -> BOOLEAN]
        OBVIOUS
      <3> QED BY <3>1, <3>2, <3>3, <3>4, <3>5
    <2>2. CASE WriteDefault(p)
      <3> USE <2>2 DEF WriteDefault
      <3>1. step' \in [Process -> Step]
        OBVIOUS
      <3>2. next_default' \in [Process -> 1 .. LastDefault + 1]
        <4>1. next_default[p] \in Default
          OBVIOUS
        <4> HIDE DEF Default
        <4> QED BY <4>1, CounterStep, Positions
      <3>3. \A q \in Process : step'[q] = "writing" => next_default'[q] \in Default
        OBVIOUS
      <3>4. defaults' \in [Default -> Content] /\ torn' \subseteq Default
        BY OverwriteEffect
      <3>5. previous_session_unclean' \in [Process -> BOOLEAN] /\ replaced' \in [Process -> BOOLEAN]
        OBVIOUS
      <3> QED BY <3>1, <3>2, <3>3, <3>4, <3>5
    <2>3. CASE WriteFails(p)
      <3> USE <2>3 DEF WriteFails
      <3>1. step' \in [Process -> Step]
        OBVIOUS
      <3>2. next_default' \in [Process -> 1 .. LastDefault + 1]
        BY CounterStep, Positions
      <3>3. \A q \in Process : step'[q] = "writing" => next_default'[q] \in Default
        OBVIOUS
      <3>4. defaults' \in [Default -> Content] /\ torn' \subseteq Default
        OBVIOUS
      <3>5. previous_session_unclean' \in [Process -> BOOLEAN] /\ replaced' \in [Process -> BOOLEAN]
        OBVIOUS
      <3> QED BY <3>1, <3>2, <3>3, <3>4, <3>5
    <2>4. CASE PreserveDefault(p)
      <3> USE <2>4 DEF PreserveDefault
      <3>1. step' \in [Process -> Step]
        OBVIOUS
      <3>2. next_default' \in [Process -> 1 .. LastDefault + 1]
        <4>1. next_default[p] \in Default
          OBVIOUS
        <4> HIDE DEF Default
        <4> QED BY <4>1, CounterStep, Positions
      <3>3. \A q \in Process : step'[q] = "writing" => next_default'[q] \in Default
        OBVIOUS
      <3>4. defaults' \in [Default -> Content] /\ torn' \subseteq Default
        OBVIOUS
      <3>5. previous_session_unclean' \in [Process -> BOOLEAN] /\ replaced' \in [Process -> BOOLEAN]
        OBVIOUS
      <3> QED BY <3>1, <3>2, <3>3, <3>4, <3>5
    <2>5. CASE Installed(p)
      <3> USE <2>5 DEF Installed
      <3>1. step' \in [Process -> Step]
        OBVIOUS
      <3>2. next_default' \in [Process -> 1 .. LastDefault + 1]
        BY CounterStep, Positions
      <3>3. \A q \in Process : step'[q] = "writing" => next_default'[q] \in Default
        OBVIOUS
      <3>4. defaults' \in [Default -> Content] /\ torn' \subseteq Default
        OBVIOUS
      <3>5. previous_session_unclean' \in [Process -> BOOLEAN] /\ replaced' \in [Process -> BOOLEAN]
        OBVIOUS
      <3> QED BY <3>1, <3>2, <3>3, <3>4, <3>5
    <2> QED BY <1>2, <2>1, <2>2, <2>3, <2>4, <2>5 DEF Install
  <1>3. ASSUME NEW p \in Process, OpenLogger(p) PROVE SessionTypeOK'
    <2>1. CASE ClearMarker(p) BY <2>1 DEF ClearMarker
    <2>2. CASE WriteMarker(p) BY <2>2 DEF WriteMarker
    <2>3. CASE ArchiveLog(p) BY <2>3 DEF ArchiveLog
    <2>4. CASE StartLog(p) BY <2>4 DEF StartLog
    <2> QED BY <1>3, <2>1, <2>2, <2>3, <2>4 DEF OpenLogger
  <1>4. ASSUME NEW p \in Process, Configure(p) PROVE SessionTypeOK'
    <2>1. CASE RejectConfiguration(p) BY <2>1 DEF RejectConfiguration
    <2>2. CASE LoadConfiguration(p) BY <2>2 DEF LoadConfiguration
    <2>3. CASE BindSocket(p) BY <2>3 DEF BindSocket
    <2> QED BY <1>4, <2>1, <2>2, <2>3 DEF Configure
  <1>5. ASSUME NEW p \in Process, End(p) PROVE SessionTypeOK'
    <2>1. CASE CloseSession(p) BY <2>1 DEF CloseSession
    <2>2. CASE DropServer(p) BY <2>2 DEF DropServer
    <2>3. CASE DropLock(p) BY <2>3 DEF DropLock
    <2>4. CASE Die(p)
      <3> USE <2>4 DEF Die, LeaveHalfDone
      <3>1. step' \in [Process -> Step]
        OBVIOUS
      <3>2. next_default' \in [Process -> 1 .. LastDefault + 1]
        BY CounterStep, Positions
      <3>3. \A q \in Process : step'[q] = "writing" => next_default'[q] \in Default
        OBVIOUS
      <3>4. defaults' \in [Default -> Content] /\ torn' \subseteq Default
        <4>1. defaults' \in [Default -> Content]
          <5>1. OverwriteEdit(p)
            OBVIOUS
          <5> QED BY ONLY <5>1, OverwriteEffect, SessionTypeOK, p \in Process DEF SessionTypeOK
        <4>2. torn' \subseteq Default
          OBVIOUS
        <4> QED BY <4>1, <4>2
      <3>5. previous_session_unclean' \in [Process -> BOOLEAN] /\ replaced' \in [Process -> BOOLEAN]
        OBVIOUS
      <3> QED BY <3>1, <3>2, <3>3, <3>4, <3>5
    <2>5. CASE Panic(p)
      <3> USE <2>5 DEF Panic, LeaveHalfDone
      <3>1. step' \in [Process -> Step]
        OBVIOUS
      <3>2. next_default' \in [Process -> 1 .. LastDefault + 1]
        BY CounterStep, Positions
      <3>3. \A q \in Process : step'[q] = "writing" => next_default'[q] \in Default
        OBVIOUS
      <3>4. defaults' \in [Default -> Content] /\ torn' \subseteq Default
        <4>1. defaults' \in [Default -> Content]
          <5>1. OverwriteEdit(p)
            OBVIOUS
          <5> QED BY ONLY <5>1, OverwriteEffect, SessionTypeOK, p \in Process DEF SessionTypeOK
        <4>2. torn' \subseteq Default
          OBVIOUS
        <4> QED BY <4>1, <4>2
      <3>5. previous_session_unclean' \in [Process -> BOOLEAN] /\ replaced' \in [Process -> BOOLEAN]
        OBVIOUS
      <3> QED BY <3>1, <3>2, <3>3, <3>4, <3>5
    <2> QED BY <1>5, <2>1, <2>2, <2>3, <2>4, <2>5 DEF End
  <1>6. ASSUME NEW d \in Default, EditDefault(d) \/ SaveInPlace(d) PROVE SessionTypeOK' BY <1>6 DEF EditDefault, SaveInPlace
  <1>7. CASE RemoveStaleLock BY <1>7 DEF RemoveStaleLock
  <1>8. CASE UNCHANGED sessionVars BY <1>8 DEF sessionVars
  <1> QED BY <1>1, <1>2, <1>3, <1>4, <1>5, <1>6, <1>7, <1>8 DEF SessionNext

\* No step takes the lock from a process that works with it: only the holder
\* ends, and a user removes a lock that nobody holds.
LEMMA LockStep ==
  ASSUME SessionTypeOK, LockIsHeld, [SessionNext]_sessionVars
  PROVE  LockIsHeld'
  <1> USE ProcessAssumption DEF SessionTypeOK, LockIsHeld, Holding, Goto, localVars, fileVars, historyVars
  <1>1. ASSUME NEW p \in Process, Start(p) PROVE LockIsHeld'
    <2>1. CASE AcquireLock(p) BY <2>1 DEF AcquireLock
    <2>2. CASE RefuseStart(p) BY <2>2 DEF RefuseStart
    <2>3. CASE LeaveRefused(p) BY <2>3 DEF LeaveRefused
    <2> QED BY <1>1, <2>1, <2>2, <2>3 DEF Start
  <1>2. ASSUME NEW p \in Process, Install(p) PROVE LockIsHeld'
    <2>1. CASE CreateDefault(p) BY <2>1 DEF CreateDefault
    <2>2. CASE WriteDefault(p) BY <2>2 DEF WriteDefault
    <2>3. CASE WriteFails(p) BY <2>3 DEF WriteFails
    <2>4. CASE PreserveDefault(p) BY <2>4 DEF PreserveDefault
    <2>5. CASE Installed(p) BY <2>5 DEF Installed
    <2> QED BY <1>2, <2>1, <2>2, <2>3, <2>4, <2>5 DEF Install
  <1>3. ASSUME NEW p \in Process, OpenLogger(p) PROVE LockIsHeld'
    <2>1. CASE ClearMarker(p) BY <2>1 DEF ClearMarker
    <2>2. CASE WriteMarker(p) BY <2>2 DEF WriteMarker
    <2>3. CASE ArchiveLog(p) BY <2>3 DEF ArchiveLog
    <2>4. CASE StartLog(p) BY <2>4 DEF StartLog
    <2> QED BY <1>3, <2>1, <2>2, <2>3, <2>4 DEF OpenLogger
  <1>4. ASSUME NEW p \in Process, Configure(p) PROVE LockIsHeld'
    <2>1. CASE RejectConfiguration(p) BY <2>1 DEF RejectConfiguration
    <2>2. CASE LoadConfiguration(p) BY <2>2 DEF LoadConfiguration
    <2>3. CASE BindSocket(p) BY <2>3 DEF BindSocket
    <2> QED BY <1>4, <2>1, <2>2, <2>3 DEF Configure
  <1>5. ASSUME NEW p \in Process, End(p) PROVE LockIsHeld'
    <2>1. CASE CloseSession(p) BY <2>1 DEF CloseSession
    <2>2. CASE DropServer(p) BY <2>2 DEF DropServer
    <2>3. CASE DropLock(p) BY <2>3 DEF DropLock
    <2>4. CASE Die(p) BY <2>4 DEF Die, LeaveHalfDone
    <2>5. CASE Panic(p) BY <2>5 DEF Panic, LeaveHalfDone
    <2> QED BY <1>5, <2>1, <2>2, <2>3, <2>4, <2>5 DEF End
  <1>6. ASSUME NEW d \in Default, EditDefault(d) \/ SaveInPlace(d) PROVE LockIsHeld' BY <1>6 DEF EditDefault, SaveInPlace
  <1>7. CASE RemoveStaleLock BY <1>7 DEF RemoveStaleLock
  <1>8. CASE UNCHANGED sessionVars BY <1>8 DEF sessionVars
  <1> QED BY <1>1, <1>2, <1>3, <1>4, <1>5, <1>6, <1>7, <1>8 DEF SessionNext

\* Who replaces or removes a socket holds the lock, so that nobody else
\* listens.
LEMMA SocketStep ==
  ASSUME SessionTypeOK, LockIsHeld, SocketIsServed, [SessionNext]_sessionVars
  PROVE  SocketIsServed'
  <1> USE ProcessAssumption DEF SessionTypeOK, LockIsHeld, SocketIsServed, Holding, Listening, Goto, localVars, fileVars, historyVars
  <1>1. ASSUME NEW p \in Process, Start(p) PROVE SocketIsServed'
    <2>1. CASE AcquireLock(p) BY <2>1 DEF AcquireLock
    <2>2. CASE RefuseStart(p) BY <2>2 DEF RefuseStart
    <2>3. CASE LeaveRefused(p) BY <2>3 DEF LeaveRefused
    <2> QED BY <1>1, <2>1, <2>2, <2>3 DEF Start
  <1>2. ASSUME NEW p \in Process, Install(p) PROVE SocketIsServed'
    <2>1. CASE CreateDefault(p) BY <2>1 DEF CreateDefault
    <2>2. CASE WriteDefault(p) BY <2>2 DEF WriteDefault
    <2>3. CASE WriteFails(p) BY <2>3 DEF WriteFails
    <2>4. CASE PreserveDefault(p) BY <2>4 DEF PreserveDefault
    <2>5. CASE Installed(p) BY <2>5 DEF Installed
    <2> QED BY <1>2, <2>1, <2>2, <2>3, <2>4, <2>5 DEF Install
  <1>3. ASSUME NEW p \in Process, OpenLogger(p) PROVE SocketIsServed'
    <2>1. CASE ClearMarker(p) BY <2>1 DEF ClearMarker
    <2>2. CASE WriteMarker(p) BY <2>2 DEF WriteMarker
    <2>3. CASE ArchiveLog(p) BY <2>3 DEF ArchiveLog
    <2>4. CASE StartLog(p) BY <2>4 DEF StartLog
    <2> QED BY <1>3, <2>1, <2>2, <2>3, <2>4 DEF OpenLogger
  <1>4. ASSUME NEW p \in Process, Configure(p) PROVE SocketIsServed'
    <2>1. CASE RejectConfiguration(p) BY <2>1 DEF RejectConfiguration
    <2>2. CASE LoadConfiguration(p) BY <2>2 DEF LoadConfiguration
    <2>3. CASE BindSocket(p) BY <2>3 DEF BindSocket
    <2> QED BY <1>4, <2>1, <2>2, <2>3 DEF Configure
  <1>5. ASSUME NEW p \in Process, End(p) PROVE SocketIsServed'
    <2>1. CASE CloseSession(p) BY <2>1 DEF CloseSession
    <2>2. CASE DropServer(p) BY <2>2 DEF DropServer
    <2>3. CASE DropLock(p) BY <2>3 DEF DropLock
    <2>4. CASE Die(p) BY <2>4 DEF Die, LeaveHalfDone
    <2>5. CASE Panic(p) BY <2>5 DEF Panic, LeaveHalfDone
    <2> QED BY <1>5, <2>1, <2>2, <2>3, <2>4, <2>5 DEF End
  <1>6. ASSUME NEW d \in Default, EditDefault(d) \/ SaveInPlace(d) PROVE SocketIsServed' BY <1>6 DEF EditDefault, SaveInPlace
  <1>7. CASE RemoveStaleLock BY <1>7 DEF RemoveStaleLock
  <1>8. CASE UNCHANGED sessionVars BY <1>8 DEF sessionVars
  <1> QED BY <1>1, <1>2, <1>3, <1>4, <1>5, <1>6, <1>7, <1>8 DEF SessionNext

\* The marker and what its starter remembers of it follow the endings.
LEMMA MarkerStep ==
  ASSUME SessionTypeOK, LockIsHeld, MarkerTellsEnding, StarterKnowsEnding, [SessionNext]_sessionVars
  PROVE  (MarkerTellsEnding /\ StarterKnowsEnding)'
  <1> USE ProcessAssumption DEF SessionTypeOK, LockIsHeld, MarkerTellsEnding, StarterKnowsEnding, Holding, Goto, localVars, fileVars, historyVars
  <1>1. ASSUME NEW p \in Process, Start(p) PROVE (MarkerTellsEnding /\ StarterKnowsEnding)'
    <2>1. CASE AcquireLock(p) BY <2>1 DEF AcquireLock
    <2>2. CASE RefuseStart(p) BY <2>2 DEF RefuseStart
    <2>3. CASE LeaveRefused(p) BY <2>3 DEF LeaveRefused
    <2> QED BY <1>1, <2>1, <2>2, <2>3 DEF Start
  <1>2. ASSUME NEW p \in Process, Install(p) PROVE (MarkerTellsEnding /\ StarterKnowsEnding)'
    <2>1. CASE CreateDefault(p) BY <2>1 DEF CreateDefault
    <2>2. CASE WriteDefault(p) BY <2>2 DEF WriteDefault
    <2>3. CASE WriteFails(p) BY <2>3 DEF WriteFails
    <2>4. CASE PreserveDefault(p) BY <2>4 DEF PreserveDefault
    <2>5. CASE Installed(p) BY <2>5 DEF Installed
    <2> QED BY <1>2, <2>1, <2>2, <2>3, <2>4, <2>5 DEF Install
  <1>3. ASSUME NEW p \in Process, OpenLogger(p) PROVE (MarkerTellsEnding /\ StarterKnowsEnding)'
    <2>1. CASE ClearMarker(p) BY <2>1 DEF ClearMarker
    <2>2. CASE WriteMarker(p) BY <2>2 DEF WriteMarker
    <2>3. CASE ArchiveLog(p) BY <2>3 DEF ArchiveLog
    <2>4. CASE StartLog(p) BY <2>4 DEF StartLog
    <2> QED BY <1>3, <2>1, <2>2, <2>3, <2>4 DEF OpenLogger
  <1>4. ASSUME NEW p \in Process, Configure(p) PROVE (MarkerTellsEnding /\ StarterKnowsEnding)'
    <2>1. CASE RejectConfiguration(p) BY <2>1 DEF RejectConfiguration
    <2>2. CASE LoadConfiguration(p) BY <2>2 DEF LoadConfiguration
    <2>3. CASE BindSocket(p) BY <2>3 DEF BindSocket
    <2> QED BY <1>4, <2>1, <2>2, <2>3 DEF Configure
  <1>5. ASSUME NEW p \in Process, End(p) PROVE (MarkerTellsEnding /\ StarterKnowsEnding)'
    <2>1. CASE CloseSession(p) BY <2>1 DEF CloseSession
    <2>2. CASE DropServer(p) BY <2>2 DEF DropServer
    <2>3. CASE DropLock(p) BY <2>3 DEF DropLock
    <2>4. CASE Die(p) BY <2>4 DEF Die, LeaveHalfDone
    <2>5. CASE Panic(p) BY <2>5 DEF Panic, LeaveHalfDone
    <2> QED BY <1>5, <2>1, <2>2, <2>3, <2>4, <2>5 DEF End
  <1>6. ASSUME NEW d \in Default, EditDefault(d) \/ SaveInPlace(d)
        PROVE  (MarkerTellsEnding /\ StarterKnowsEnding)'
    <2>1. UNCHANGED <<step, marker, previous_session_unclean, ended, ended_before>>
      BY <1>6 DEF EditDefault, SaveInPlace
    <2> QED BY <2>1
  <1>7. CASE RemoveStaleLock BY <1>7 DEF RemoveStaleLock
  <1>8. CASE UNCHANGED sessionVars BY <1>8 DEF sessionVars
  <1> QED BY <1>1, <1>2, <1>3, <1>4, <1>5, <1>6, <1>7, <1>8 DEF SessionNext

\* A log says what its session found, and nobody else writes it meanwhile.
LEMMA ReportStep ==
  ASSUME SessionTypeOK, LockIsHeld, StarterKnowsEnding, UncleanEndIsReported, [SessionNext]_sessionVars
  PROVE  UncleanEndIsReported'
  <1> USE ProcessAssumption DEF SessionTypeOK, LockIsHeld, StarterKnowsEnding, UncleanEndIsReported, Holding, Opened, Goto, localVars, fileVars, historyVars
  <1>1. ASSUME NEW p \in Process, Start(p) PROVE UncleanEndIsReported'
    <2>1. CASE AcquireLock(p) BY <2>1 DEF AcquireLock
    <2>2. CASE RefuseStart(p) BY <2>2 DEF RefuseStart
    <2>3. CASE LeaveRefused(p) BY <2>3 DEF LeaveRefused
    <2> QED BY <1>1, <2>1, <2>2, <2>3 DEF Start
  <1>2. ASSUME NEW p \in Process, Install(p) PROVE UncleanEndIsReported'
    <2>1. CASE CreateDefault(p) BY <2>1 DEF CreateDefault
    <2>2. CASE WriteDefault(p) BY <2>2 DEF WriteDefault
    <2>3. CASE WriteFails(p) BY <2>3 DEF WriteFails
    <2>4. CASE PreserveDefault(p) BY <2>4 DEF PreserveDefault
    <2>5. CASE Installed(p) BY <2>5 DEF Installed
    <2> QED BY <1>2, <2>1, <2>2, <2>3, <2>4, <2>5 DEF Install
  <1>3. ASSUME NEW p \in Process, OpenLogger(p) PROVE UncleanEndIsReported'
    <2>1. CASE ClearMarker(p) BY <2>1 DEF ClearMarker
    <2>2. CASE WriteMarker(p) BY <2>2 DEF WriteMarker
    <2>3. CASE ArchiveLog(p) BY <2>3 DEF ArchiveLog
    <2>4. CASE StartLog(p) BY <2>4 DEF StartLog
    <2> QED BY <1>3, <2>1, <2>2, <2>3, <2>4 DEF OpenLogger
  <1>4. ASSUME NEW p \in Process, Configure(p) PROVE UncleanEndIsReported'
    <2>1. CASE RejectConfiguration(p) BY <2>1 DEF RejectConfiguration
    <2>2. CASE LoadConfiguration(p) BY <2>2 DEF LoadConfiguration
    <2>3. CASE BindSocket(p) BY <2>3 DEF BindSocket
    <2> QED BY <1>4, <2>1, <2>2, <2>3 DEF Configure
  <1>5. ASSUME NEW p \in Process, End(p) PROVE UncleanEndIsReported'
    <2>1. CASE CloseSession(p) BY <2>1 DEF CloseSession
    <2>2. CASE DropServer(p) BY <2>2 DEF DropServer
    <2>3. CASE DropLock(p) BY <2>3 DEF DropLock
    <2>4. CASE Die(p) BY <2>4 DEF Die, LeaveHalfDone
    <2>5. CASE Panic(p) BY <2>5 DEF Panic, LeaveHalfDone
    <2> QED BY <1>5, <2>1, <2>2, <2>3, <2>4, <2>5 DEF End
  <1>6. ASSUME NEW d \in Default, EditDefault(d) \/ SaveInPlace(d) PROVE UncleanEndIsReported' BY <1>6 DEF EditDefault, SaveInPlace
  <1>7. CASE RemoveStaleLock BY <1>7 DEF RemoveStaleLock
  <1>8. CASE UNCHANGED sessionVars BY <1>8 DEF sessionVars
  <1> QED BY <1>1, <1>2, <1>3, <1>4, <1>5, <1>6, <1>7, <1>8 DEF SessionNext

\* A default is partial while it is written, or once its writer has died.
LEMMA TornStep ==
  ASSUME SessionTypeOK, TornOnlyByDeath, [SessionNext]_sessionVars
  PROVE  TornOnlyByDeath'
  <1> USE ProcessAssumption DEF SessionTypeOK, TornOnlyByDeath, Goto, localVars, fileVars, historyVars
  <1>1. ASSUME NEW p \in Process, Start(p) PROVE TornOnlyByDeath'
    <2>1. CASE AcquireLock(p) BY <2>1 DEF AcquireLock
    <2>2. CASE RefuseStart(p) BY <2>2 DEF RefuseStart
    <2>3. CASE LeaveRefused(p) BY <2>3 DEF LeaveRefused
    <2> QED BY <1>1, <2>1, <2>2, <2>3 DEF Start
  <1>2. ASSUME NEW p \in Process, Install(p) PROVE TornOnlyByDeath'
    <2>1. CASE CreateDefault(p) BY <2>1 DEF CreateDefault
    <2>2. CASE WriteDefault(p)
      <3>1. next_default[p] \in Default /\ defaults'[next_default[p]] # "partial"
        BY <2>2, OverwriteEffect DEF WriteDefault
      <3>2. \A d \in Default : defaults'[d] = "partial" => defaults[d] = "partial"
        BY <2>2, OverwriteEffect DEF WriteDefault
      <3> QED BY <2>2, <3>1, <3>2 DEF WriteDefault
    <2>3. CASE WriteFails(p) BY <2>3 DEF WriteFails
    <2>4. CASE PreserveDefault(p) BY <2>4 DEF PreserveDefault
    <2>5. CASE Installed(p) BY <2>5 DEF Installed
    <2> QED BY <1>2, <2>1, <2>2, <2>3, <2>4, <2>5 DEF Install
  <1>3. ASSUME NEW p \in Process, OpenLogger(p) PROVE TornOnlyByDeath'
    <2>1. CASE ClearMarker(p) BY <2>1 DEF ClearMarker
    <2>2. CASE WriteMarker(p) BY <2>2 DEF WriteMarker
    <2>3. CASE ArchiveLog(p) BY <2>3 DEF ArchiveLog
    <2>4. CASE StartLog(p) BY <2>4 DEF StartLog
    <2> QED BY <1>3, <2>1, <2>2, <2>3, <2>4 DEF OpenLogger
  <1>4. ASSUME NEW p \in Process, Configure(p) PROVE TornOnlyByDeath'
    <2>1. CASE RejectConfiguration(p) BY <2>1 DEF RejectConfiguration
    <2>2. CASE LoadConfiguration(p) BY <2>2 DEF LoadConfiguration
    <2>3. CASE BindSocket(p) BY <2>3 DEF BindSocket
    <2> QED BY <1>4, <2>1, <2>2, <2>3 DEF Configure
  <1>5. ASSUME NEW p \in Process, End(p) PROVE TornOnlyByDeath'
    <2>1. CASE CloseSession(p) BY <2>1 DEF CloseSession
    <2>2. CASE DropServer(p) BY <2>2 DEF DropServer
    <2>3. CASE DropLock(p) BY <2>3 DEF DropLock
    <2>4. CASE Die(p)
      <3>1. \A d \in Default : defaults'[d] = "partial" => defaults[d] = "partial"
        BY <2>4, OverwriteEffect DEF Die, LeaveHalfDone
      <3> QED BY <2>4, <3>1 DEF Die, LeaveHalfDone
    <2>5. CASE Panic(p)
      <3>1. \A d \in Default : defaults'[d] = "partial" => defaults[d] = "partial"
        BY <2>5, OverwriteEffect DEF Panic, LeaveHalfDone
      <3> QED BY <2>5, <3>1 DEF Panic, LeaveHalfDone
    <2> QED BY <1>5, <2>1, <2>2, <2>3, <2>4, <2>5 DEF End
  <1>6. ASSUME NEW d \in Default, EditDefault(d) \/ SaveInPlace(d) PROVE TornOnlyByDeath' BY <1>6 DEF EditDefault, SaveInPlace
  <1>7. CASE RemoveStaleLock BY <1>7 DEF RemoveStaleLock
  <1>8. CASE UNCHANGED sessionVars BY <1>8 DEF sessionVars
  <1> QED BY <1>1, <1>2, <1>3, <1>4, <1>5, <1>6, <1>7, <1>8 DEF SessionNext

-----------------------------------------------------------------------------
\* The first processes find no lock, no marker and no default half written.
LEMMA SessionInitInv == SessionInit => SessionInv
  <1> SUFFICES ASSUME SessionInit PROVE SessionInv
    OBVIOUS
  <1> USE ProcessAssumption DEF SessionInit
  <1>1. SessionTypeOK
    BY Positions DEF SessionTypeOK, Step, Content, Ending
  <1>2. LockIsHeld /\ SocketIsServed
    BY DEF LockIsHeld, SocketIsServed, Holding, Listening
  <1>3. MarkerTellsEnding /\ StarterKnowsEnding /\ UncleanEndIsReported
    BY DEF MarkerTellsEnding, StarterKnowsEnding, UncleanEndIsReported, Opened
  <1>4. TornOnlyByDeath
    BY DEF TornOnlyByDeath
  <1> QED BY <1>1, <1>2, <1>3, <1>4 DEF SessionInv

\* In every state a session can be in, at most one process works on the files,
\* and what the files and that process say of each other is right.
THEOREM SessionInvariant == SessionSpec => []SessionInv
  <1>1. SessionInit => SessionInv
    BY SessionInitInv
  <1>2. SessionInv /\ [SessionNext]_sessionVars => SessionInv'
    BY TypeStep, LockStep, SocketStep, MarkerStep, ReportStep, TornStep
    DEF SessionInv
  <1> QED BY <1>1, <1>2, PTL DEF SessionSpec

\* However many processes are started, killed and started again with one
\* configuration root, never do two of them hold it.
THEOREM OneInstanceHolds == SessionSpec => []OneInstance
  <1>1. SessionInv => OneInstance
    BY DEF SessionInv, LockIsHeld, OneInstance
  <1> QED BY <1>1, SessionInvariant, PTL

\* Variables are of their types: no process installs past the last default.
THEOREM SessionTypeHolds == SessionSpec => []SessionTypeOK
  <1>1. SessionInv => SessionTypeOK
    BY DEF SessionInv
  <1> QED BY <1>1, SessionInvariant, PTL

\* The socket file is that of the process that accepts connections.
THEOREM SocketHolds == SessionSpec => []SocketIsServed
  <1>1. SessionInv => SocketIsServed
    BY DEF SessionInv
  <1> QED BY <1>1, SessionInvariant, PTL

\* latest.log tells how the session before ended, unless a start died between
\* the removal of its marker and the creation of the next.
THEOREM UncleanEndHolds == SessionSpec => []UncleanEndIsReported
  <1>1. SessionInv => UncleanEndIsReported
    BY DEF SessionInv
  <1> QED BY <1>1, SessionInvariant, PTL

\* Only a death leaves a default half written.
THEOREM TornHolds == SessionSpec => []TornOnlyByDeath
  <1>1. SessionInv => TornOnlyByDeath
    BY DEF SessionInv
  <1> QED BY <1>1, SessionInvariant, PTL

\* A step of a process changes a default that holds the user's text only between
\* the creation of this default by the process and the end of its writing; and
\* a file that the user put in its place it then at most removes.
THEOREM UserFilesHold == SessionSpec => UserFilesAreKept
  <1>1. ASSUME SessionInv, [SessionNext]_sessionVars, NEW p \in Process, NEW d \in Default,
               step'[p] # step[p], defaults[d] = "edited", defaults'[d] # "edited"
        PROVE  /\ step[p] = "writing"
               /\ next_default[p] = d
               /\ replaced[p] => defaults'[d] = "absent" /\ step'[p] = "off"
    <2> USE <1>1 DEF SessionInv, SessionTypeOK, Goto
    <2>1. ASSUME NEW q \in Process, Install(q)
          PROVE  /\ q = p /\ step[q] = "writing" /\ next_default[q] = d
                 /\ replaced[q] => defaults'[d] = "absent" /\ step'[q] = "off"
      <3>1. ~CreateDefault(q)
        BY DEF CreateDefault
      <3>2. CASE WriteDefault(q)
        BY <3>2, OverwriteEffect DEF WriteDefault
      <3>3. CASE WriteFails(q)
        BY <3>3 DEF WriteFails
      <3>4. ~PreserveDefault(q) /\ ~Installed(q)
        BY DEF PreserveDefault, Installed, fileVars
      <3> QED BY <2>1, <3>1, <3>2, <3>3, <3>4 DEF Install
    <2>2. ASSUME NEW q \in Process, Die(q) \/ Panic(q)
          PROVE  q = p /\ step[q] = "writing" /\ next_default[q] = d /\ ~replaced[q]
      BY <2>2, OverwriteEffect DEF Die, Panic, LeaveHalfDone
    <2>3. ASSUME NEW q \in Process,
                 Start(q) \/ OpenLogger(q) \/ Configure(q)
                   \/ CloseSession(q) \/ DropServer(q) \/ DropLock(q)
          PROVE  FALSE
      <3>1. defaults' = defaults
        BY <2>3 DEF Start, OpenLogger, Configure, AcquireLock, RefuseStart, LeaveRefused,
          ClearMarker, WriteMarker, ArchiveLog, StartLog, LoadConfiguration, RejectConfiguration,
          BindSocket, CloseSession, DropServer, DropLock, fileVars
      <3> QED BY <3>1
    <2>4. ~((\E e \in Default : EditDefault(e) \/ SaveInPlace(e)) \/ RemoveStaleLock
              \/ UNCHANGED sessionVars)
      BY DEF EditDefault, SaveInPlace, RemoveStaleLock, sessionVars
    <2> QED BY <2>1, <2>2, <2>3, <2>4 DEF SessionNext, End
  <1>2. SessionInv /\ [SessionNext]_sessionVars =>
          [\A p \in Process, d \in Default :
             step'[p] # step[p] /\ defaults[d] = "edited" /\ defaults'[d] # "edited" =>
               /\ step[p] = "writing"
               /\ next_default[p] = d
               /\ replaced[p] => defaults'[d] = "absent" /\ step'[p] = "off"]_sessionVars
    BY <1>1
  <1> QED BY <1>2, SessionInvariant, PTL DEF SessionSpec, UserFilesAreKept
=============================================================================
