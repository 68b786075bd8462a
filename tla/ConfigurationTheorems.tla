----------------------- MODULE ConfigurationTheorems -----------------------
(***************************************************************************)
(* Proofs about Configuration, for every set of texts, layouts, modes and  *)
(* chords and any number of edits.  The runs check the same properties on  *)
(* one instance.                                                           *)
EXTENDS Configuration, TLAPS

\* Every provider in use was validated, whether or not the generation that
\* brought it was accepted.
ProvidersValidated == \A l \in Layout : providers[l] # NoProvider => providers[l] \in ValidProvider

\* A generation that is being taken over is not the runtime's yet.
CommittedIsPending == phase = "committed" => ~synchronized

IInv == TypeOK /\ ProvidersValidated /\ CommittedIsPending /\ RuntimeHoldsItsGeneration
-----------------------------------------------------------------------------
\* A reload gives a layout a validated provider that the user saved, leaves it
\* the one it has, or takes it away where the layout is no longer configured.
LEMMA ReloadedProvider ==
  ASSUME TypeOK, NEW l \in Layout
  PROVE  /\ Reloaded(l) \in Provider \cup {NoProvider}
         /\ Reloaded(l) \in ValidProvider \/ Reloaded(l) = NoProvider \/ Reloaded(l) = providers[l]
         /\ Reloaded(l) # NoProvider => l \in active.layouts
         /\ l \in active.layouts /\ Reloaded(l) = NoProvider => providers[l] = NoProvider
<1>1. CASE l \notin active.layouts
  BY <1>1 DEF Reloaded
<1>2. CASE l \in active.layouts /\ Validates(l)
  <2>1. PICK text \in ValidProvider : Holds(l, text)
    BY <1>2 DEF Validates
  <2>2. disk[l].text = text
    BY <2>1 DEF Holds
  <2>3. Reloaded(l) = text
    BY <1>2, <2>2 DEF Reloaded
  <2>. QED
    BY <1>2, <2>3, ConfigurationAssumption
<1>3. CASE l \in active.layouts /\ ~Validates(l)
  BY <1>3 DEF Reloaded, TypeOK
<1>. QED
  BY <1>1, <1>2, <1>3

\* The mode after a configuration is replaced is a mode it defines.
LEMMA ModeAfterIsDefined ==
  ASSUME TypeOK
  PROVE  ModeAfter(active.modes) \in DOMAIN active.modes /\ ModeAfter(active.modes) \in Mode
<1>1. active \in ScriptText
  BY ConfigurationAssumption DEF TypeOK
<1>2. active.modes \in ModeTable
  BY <1>1 DEF ScriptText
<1>3. NormalMode \in DOMAIN active.modes
  BY <1>2 DEF ModeTable
<1>. QED
  BY <1>3, ConfigurationAssumption DEF ModeAfter, TypeOK
-----------------------------------------------------------------------------
\* The variables have their types: in particular the mode is always a mode's
\* name and never the absence of one.
LEMMA TypeInit == Init => TypeOK
<1>. SUFFICES ASSUME Init PROVE TypeOK
  OBVIOUS
<1>1. 0 \in 0 .. MaxEdits
  BY ConfigurationAssumption
<1>2. disk \in [File -> [stamp : 0 .. MaxEdits, text : Script \cup Provider] \cup {NoFile}]
  <2>1. [stamp : {0}, text : Script \cup Provider] \subseteq [stamp : 0 .. MaxEdits, text : Script \cup Provider]
    BY <1>1
  <2>. QED
    BY <2>1 DEF Init
<1>3. active \in Script
  <2>1. ConfigFile \in File /\ Exists(ConfigFile)
    BY DEF Init, File
  <2>. QED
    BY <2>1 DEF Init, Saved
<1>4. DOMAIN stamps \subseteq File
  <2>1. active.layouts \subseteq Layout
    BY <1>3, ConfigurationAssumption DEF ScriptText
  <2>2. DOMAIN stamps = {ConfigFile} \cup active.layouts
    BY DEF Init
  <2>. QED
    BY <2>1, <2>2 DEF File
<1>5. \A f \in DOMAIN stamps : stamps[f] \in 0 .. MaxEdits
  BY <1>1 DEF Init
<1>6. providers \in [Layout -> Provider \cup {NoProvider}]
  <2>. SUFFICES ASSUME NEW l \in Layout
                PROVE  (IF l \in active.layouts /\ Validates(l) THEN disk[l].text ELSE NoProvider)
                         \in Provider \cup {NoProvider}
    BY DEF Init
  <2>. QED
    BY ConfigurationAssumption DEF Validates, Holds
<1>. QED
  BY <1>1, <1>2, <1>3, <1>4, <1>5, <1>6, ConfigurationAssumption DEF Init, TypeOK

LEMMA TypeStep == TypeOK /\ [Next]_vars => TypeOK'
<1>. SUFFICES ASSUME TypeOK, [Next]_vars PROVE TypeOK'
  OBVIOUS
<1>. USE DEF diskVars, managerVars, runtimeVars
<1>1. ASSUME NEW f \in File, NEW text \in Saved(f), Save(f, text) PROVE TypeOK'
  <2>1. edits + 1 \in 0 .. MaxEdits
    BY <1>1, ConfigurationAssumption DEF Save, TypeOK
  <2>2. text \in Script \cup Provider
    BY DEF Saved
  <2>3. [stamp |-> edits + 1, text |-> text] \in [stamp : 0 .. MaxEdits, text : Script \cup Provider]
    BY <2>1, <2>2
  <2>4. disk' \in [File -> [stamp : 0 .. MaxEdits, text : Script \cup Provider] \cup {NoFile}]
    BY <1>1, <2>3 DEF Save, TypeOK
  <2>5. \A g \in File : disk'[g] # NoFile => disk'[g].text \in Saved(g)
    <3>. SUFFICES ASSUME NEW g \in File, disk'[g] # NoFile PROVE disk'[g].text \in Saved(g)
      OBVIOUS
    <3>1. CASE g = f
      BY <1>1, <3>1 DEF Save, TypeOK
    <3>2. CASE g # f
      BY <1>1, <3>2 DEF Save, TypeOK, Exists
    <3>. QED
      BY <3>1, <3>2
  <2>. QED
    BY <1>1, <2>1, <2>4, <2>5 DEF Save, TypeOK, Exists
<1>2. ASSUME NEW f \in File, Remove(f) PROVE TypeOK'
  <2>1. edits + 1 \in 0 .. MaxEdits
    BY <1>2, ConfigurationAssumption DEF Remove, TypeOK
  <2>2. disk' \in [File -> [stamp : 0 .. MaxEdits, text : Script \cup Provider] \cup {NoFile}]
    BY <1>2 DEF Remove, TypeOK
  <2>3. \A g \in File : disk'[g] # NoFile => disk'[g].text \in Saved(g)
    BY <1>2 DEF Remove, TypeOK, Exists
  <2>. QED
    BY <1>2, <2>1, <2>2, <2>3 DEF Remove, TypeOK, Exists
<1>3. ASSUME NEW forced \in BOOLEAN, StartReload(forced) PROVE TypeOK'
  BY <1>3 DEF StartReload, TypeOK, Exists
<1>4. ASSUME Read PROVE TypeOK'
  <2>1. Exists(ConfigFile) => disk[ConfigFile].text \in Script
    BY DEF TypeOK, File, Saved
  <2>. QED
    BY <1>4, <2>1 DEF Read, TypeOK, Exists
<1>5. ASSUME CommitCandidate PROVE TypeOK'
  <2>1. candidate.layouts \subseteq Layout
    BY ConfigurationAssumption DEF TypeOK, ScriptText
  <2>2. DOMAIN stamps' \subseteq File
    <3>1. DOMAIN stamps' = {g \in {ConfigFile} \cup candidate.layouts : Exists(g)}
      BY <1>5 DEF CommitCandidate
    <3>. QED
      BY <2>1, <3>1 DEF File
  <2>3. \A f \in DOMAIN stamps' : stamps'[f] \in 0 .. MaxEdits
    <3>. SUFFICES ASSUME NEW f \in DOMAIN stamps' PROVE stamps'[f] \in 0 .. MaxEdits
      OBVIOUS
    <3>1. f \in File /\ Exists(f) /\ stamps'[f] = disk[f].stamp
      BY <1>5, <2>2 DEF CommitCandidate
    <3>2. disk[f] \in [stamp : 0 .. MaxEdits, text : Script \cup Provider]
      BY <3>1 DEF TypeOK, Exists
    <3>. QED
      BY <3>1, <3>2
  <2>. QED
    BY <1>5, <2>2, <2>3 DEF CommitCandidate, TypeOK, Exists
<1>6. ASSUME Synchronize PROVE TypeOK'
  <2>1. [l \in Layout |-> Reloaded(l)] \in [Layout -> Provider \cup {NoProvider}]
    BY ReloadedProvider
  <2>2. ModeAfter(active.modes) \in Mode
    BY ModeAfterIsDefined
  <2>3. providers' \in [Layout -> Provider \cup {NoProvider}]
    BY <1>6, <2>1 DEF Synchronize, RefusedHalfway, TypeOK
  <2>4. synchronized' \in BOOLEAN /\ in_force' \in Script /\ mode' \in Mode /\ consumed' \subseteq Chord
    BY <1>6, <2>2 DEF Synchronize, RefusedHalfway, ReplaceInput, TypeOK
  <2>. QED
    BY <1>6, <2>3, <2>4 DEF Synchronize, TypeOK, Exists
<1>7. ASSUME NEW c \in Chord, Press(c) PROVE TypeOK'
  <2>1. mode \in DOMAIN in_force.modes /\ c \in DOMAIN in_force.modes[mode]
    BY <1>7 DEF Press, Bound
  <2>2. in_force.modes \in ModeTable
    BY ConfigurationAssumption DEF TypeOK, ScriptText
  <2>3. PICK M \in SUBSET Mode : in_force.modes \in [M -> Bindings]
    BY <2>2 DEF ModeTable
  <2>4. in_force.modes[mode] \in Bindings
    BY <2>1, <2>3
  <2>5. PICK C \in SUBSET Chord : in_force.modes[mode] \in [C -> Mode \cup {NoMode}]
    BY <2>4 DEF Bindings
  <2>6. in_force.modes[mode][c] \in Mode \cup {NoMode}
    BY <2>1, <2>5
  <2>7. mode' \in Mode
    BY <1>7, <2>6 DEF Press, TypeOK
  <2>. QED
    BY <1>7, <2>7 DEF Press, TypeOK, Exists
<1>8. ASSUME NEW c \in Chord, Release(c) PROVE TypeOK'
  BY <1>8 DEF Release, TypeOK, Exists
<1>9. CASE UNCHANGED vars
  BY <1>9 DEF vars, TypeOK, Exists
<1>. QED
  BY <1>1, <1>2, <1>3, <1>4, <1>5, <1>6, <1>7, <1>8, <1>9 DEF Next, User, Reload

\* The variables have their types in every state: in particular the mode is
\* always a mode's name, whatever bindings are replaced while it is in force.
THEOREM TypeCorrect == Spec => []TypeOK
<1>1. Init => TypeOK
  BY TypeInit
<1>2. TypeOK /\ [Next]_vars => TypeOK'
  BY TypeStep
<1>. QED
  BY <1>1, <1>2, PTL DEF Spec
-----------------------------------------------------------------------------
\* The runtime of a session that starts holds the first generation.
LEMMA InvInit == Init => IInv
<1>. SUFFICES ASSUME Init PROVE IInv
  OBVIOUS
<1>1. TypeOK
  BY TypeInit
<1>2. \A l \in Layout : providers[l] # NoProvider => l \in active.layouts /\ providers[l] \in ValidProvider
  <2>. SUFFICES ASSUME NEW l \in Layout, providers[l] # NoProvider
                PROVE  l \in active.layouts /\ providers[l] \in ValidProvider
    OBVIOUS
  <2>1. l \in active.layouts /\ Validates(l) /\ providers[l] = disk[l].text
    BY DEF Init
  <2>. QED
    BY <2>1 DEF Validates, Holds
<1>. QED
  BY <1>1, <1>2 DEF Init, IInv, ProvidersValidated, CommittedIsPending, RuntimeHoldsItsGeneration

\* Every step keeps the runtime at the generation it reports.
LEMMA InvStep == IInv /\ [Next]_vars => IInv'
<1>. SUFFICES ASSUME IInv, [Next]_vars PROVE IInv'
  OBVIOUS
<1>. USE DEF diskVars, managerVars, runtimeVars
<1>. TypeOK
  BY DEF IInv
<1>0. TypeOK'
  BY TypeStep
<1>. DEFINE Rest == ProvidersValidated /\ CommittedIsPending /\ RuntimeHoldsItsGeneration
<1>1. ASSUME UNCHANGED <<managerVars, synchronized, in_force, providers>>, phase' # "committed"
      PROVE  Rest'
  BY <1>1 DEF IInv, ProvidersValidated, CommittedIsPending, RuntimeHoldsItsGeneration
<1>2. ASSUME UNCHANGED <<managerVars, synchronized, in_force, providers, phase>>
      PROVE  Rest'
  BY <1>2 DEF IInv, ProvidersValidated, CommittedIsPending, RuntimeHoldsItsGeneration
<1>3. ASSUME CommitCandidate PROVE Rest'
  BY <1>3 DEF CommitCandidate, IInv, ProvidersValidated, CommittedIsPending, RuntimeHoldsItsGeneration
<1>4. ASSUME Synchronize PROVE Rest'
  <2>1. phase = "committed" /\ ~synchronized /\ phase' = "idle" /\ active' = active
    BY <1>4 DEF Synchronize, IInv, CommittedIsPending
  <2>2. CASE UNCHANGED runtimeVars
    BY <2>1, <2>2 DEF IInv, ProvidersValidated, CommittedIsPending, RuntimeHoldsItsGeneration
  <2>3. ASSUME providers' = [l \in Layout |-> Reloaded(l)]
        PROVE  \A l \in Layout : providers'[l] # NoProvider =>
                 l \in active.layouts /\ providers'[l] \in ValidProvider
    <3>. SUFFICES ASSUME NEW l \in Layout, Reloaded(l) # NoProvider
                  PROVE  l \in active.layouts /\ Reloaded(l) \in ValidProvider
      BY <2>3
    <3>1. Reloaded(l) \in ValidProvider \/ Reloaded(l) = providers[l]
      BY ReloadedProvider
    <3>2. l \in active.layouts
      BY ReloadedProvider
    <3>. QED
      BY <3>1, <3>2 DEF IInv, ProvidersValidated
  <2>4. CASE RefusedHalfway
    BY <2>1, <2>3, <2>4 DEF RefusedHalfway, ProvidersValidated, CommittedIsPending, RuntimeHoldsItsGeneration
  <2>5. CASE /\ providers' = [l \in Layout |-> Reloaded(l)]
             /\ in_force' = active /\ synchronized' = TRUE
    BY <2>1, <2>3, <2>5 DEF ProvidersValidated, CommittedIsPending, RuntimeHoldsItsGeneration
  <2>. QED
    BY <1>4, <2>2, <2>4, <2>5 DEF Synchronize
<1>5. Rest'
  <2>1. ASSUME NEW f \in File, NEW text \in Saved(f), Save(f, text) PROVE Rest'
    BY <1>2, <2>1 DEF Save
  <2>2. ASSUME NEW f \in File, Remove(f) PROVE Rest'
    BY <1>2, <2>2 DEF Remove
  <2>3. ASSUME NEW forced \in BOOLEAN, StartReload(forced) PROVE Rest'
    BY <1>1, <2>3 DEF StartReload
  <2>4. ASSUME Read PROVE Rest'
    BY <1>1, <2>4 DEF Read
  <2>5. ASSUME NEW c \in Chord, Press(c) \/ Release(c) PROVE Rest'
    BY <1>2, <2>5 DEF Press, Release
  <2>6. CASE UNCHANGED vars
    BY <1>2, <2>6 DEF vars
  <2>. QED
    BY <1>3, <1>4, <2>1, <2>2, <2>3, <2>4, <2>5, <2>6 DEF Next, User, Reload
<1>. QED
  BY <1>0, <1>5 DEF IInv

\* A runtime that reports the manager's generation runs that generation.
THEOREM HoldsItsGeneration == Spec => []RuntimeHoldsItsGeneration
<1>1. IInv => RuntimeHoldsItsGeneration
  BY DEF IInv
<1>. QED
  BY <1>1, InvInit, InvStep, PTL DEF Spec
-----------------------------------------------------------------------------
\* A layout that stays configured never loses a working provider.
THEOREM LastGoodProvider == Spec => ProvidersAreLastGood
<1>1. TypeOK /\ [Next]_vars =>
        [\A l \in Layout :
           providers[l] # NoProvider /\ providers'[l] = NoProvider => l \notin active.layouts]_vars
  <2>. SUFFICES ASSUME TypeOK, [Next]_vars, NEW l \in Layout,
                       providers[l] # NoProvider, providers'[l] = NoProvider
                PROVE  l \notin active.layouts
    OBVIOUS
  <2>1. Synchronize /\ providers' # providers
    BY DEF Next, User, Reload, vars, diskVars, managerVars, runtimeVars,
           Save, Remove, StartReload, Read, CommitCandidate, Press, Release
  <2>2. providers'[l] = Reloaded(l)
    BY <2>1 DEF Synchronize, RefusedHalfway, runtimeVars
  <2>. QED
    BY <2>2, ReloadedProvider
<1>. QED
  BY <1>1, TypeCorrect, PTL DEF Spec, ProvidersAreLastGood

\* A generation that is taken over leaves the user in a mode it defines.
THEOREM ModeRecovered == Spec => ModeIsRecovered
<1>1. TypeOK /\ [Next]_vars =>
        [~synchronized /\ synchronized' => mode' \in DOMAIN in_force'.modes]_vars
  <2>. SUFFICES ASSUME TypeOK, [Next]_vars, ~synchronized, synchronized'
                PROVE  mode' \in DOMAIN in_force'.modes
    OBVIOUS
  <2>1. Synchronize /\ synchronized' # synchronized
    BY DEF Next, User, Reload, vars, diskVars, managerVars, runtimeVars,
           Save, Remove, StartReload, Read, CommitCandidate, Press, Release
  <2>2. in_force' = active /\ mode' = ModeAfter(active.modes)
    BY <2>1 DEF Synchronize, RefusedHalfway, ReplaceInput, runtimeVars
  <2>. QED
    BY <2>2, ModeAfterIsDefined
<1>. QED
  BY <1>1, TypeCorrect, PTL DEF Spec, ModeIsRecovered

\* Bindings replaced while a chord is held never leave its release to be
\* swallowed: what is consumed is bound by the configuration in force.
THEOREM ConsumedBound == Spec => []ConsumedAreBound
<1>1. Init => ConsumedAreBound
  BY DEF Init, ConsumedAreBound
<1>2. ConsumedAreBound /\ [Next]_vars => ConsumedAreBound'
  <2>. SUFFICES ASSUME ConsumedAreBound, [Next]_vars PROVE ConsumedAreBound'
    OBVIOUS
  <2>1. ASSUME in_force' = in_force, consumed' \subseteq consumed PROVE ConsumedAreBound'
    BY <2>1 DEF ConsumedAreBound
  <2>2. ASSUME NEW c \in Chord, Press(c) PROVE ConsumedAreBound'
    BY <2>2 DEF Press, Bound, ConsumedAreBound
  <2>3. ASSUME NEW c \in Chord, Release(c) PROVE ConsumedAreBound'
    BY <2>1, <2>3 DEF Release
  <2>4. CASE Synchronize
    <3>1. CASE consumed' = {}
      BY <3>1 DEF ConsumedAreBound
    <3>2. CASE UNCHANGED <<in_force, consumed>>
      BY <2>1, <3>2
    <3>. QED
      BY <2>4, <3>1, <3>2 DEF Synchronize, RefusedHalfway, ReplaceInput, runtimeVars
  <2>. QED
    BY <2>1, <2>2, <2>3, <2>4 DEF Next, User, Reload, vars, diskVars, managerVars, runtimeVars,
           Save, Remove, StartReload, Read, CommitCandidate
<1>. QED
  BY <1>1, <1>2, PTL DEF Spec
=============================================================================
