--------------------------- MODULE Configuration ---------------------------
(***************************************************************************)
(* Live configuration: ConfigManager of crates/wm-config/src/lib.rs, the   *)
(* loader of crates/wm-script/src/lib.rs, LayoutRuntime::synchronize of    *)
(* crates/wm-runtime/src/lib.rs, LayoutProviders::reload of                *)
(* crates/wm-layout/src/lib.rs and InputState of crates/wm-input/src/lib.rs *)
(* in one event loop, and a user who edits the files at any time.          *)
(*                                                                         *)
(* A configuration text is the data the loader extracts from it; imports   *)
(* are part of it.  Files are read independently of one another, so edits  *)
(* matter only between two accesses to the same file: between the loader's *)
(* reading of config.lua, the fingerprints, and the reading of providers.  *)
(* The generation counters are only ever compared for equality, which      *)
(* `synchronized` is.                                                      *)
(* A version's stamp is new with every edit, as modification times are      *)
(* taken to be.  Rules are part of `in_force` and not looked into; hooks    *)
(* are dependencies like any other file.                                   *)
(***************************************************************************)
EXTENDS Naturals

CONSTANTS
  ConfigFile,     \* config.lua
  Layout,         \* layout identifiers, each naming its provider file too
  Script,         \* configuration texts the user may save
  Provider,       \* provider texts the user may save
  ValidProvider,  \* those LuaLayout::validate accepts
  Mode, NormalMode, Chord,
  NoMode, NoFile, NoProvider,
  MaxEdits        \* bound on the number of edits

File == {ConfigFile} \cup Layout

Bindings == UNION {[C -> Mode \cup {NoMode}] : C \in SUBSET Chord}

ModeTable ==
  {t \in UNION {[M -> Bindings] : M \in SUBSET Mode} : NormalMode \in DOMAIN t}

\* What the loader extracts: whether evaluation succeeds, whether the runtime
\* will accept the default layout's name and the bindings, which providers it
\* names, and in each mode the chords bound and the mode they switch to.
ScriptText == [loads : BOOLEAN, default_ok : BOOLEAN, bindings_ok : BOOLEAN,
               layouts : SUBSET Layout, modes : ModeTable]

ASSUME ConfigurationAssumption ==
  /\ ConfigFile \notin Layout
  /\ Script \subseteq ScriptText
  /\ ValidProvider \subseteq Provider
  /\ NoProvider \notin Provider
  /\ NormalMode \in Mode
  /\ NoMode \notin Mode
  /\ MaxEdits \in Nat
  /\ NoFile \notin [stamp : Nat, text : Script \cup Provider]

VARIABLES
  disk,          \* file -> its version, or NoFile
  edits,         \* number of edits, the newest file stamp
  \* ConfigManager
  active,        \* the candidate committed last
  stamps,        \* fingerprints of its dependencies
  \* LayoutRuntime
  synchronized,  \* its generation is the manager's
  in_force,      \* the candidate its default layout, rules and input come from
  providers,     \* layout -> the provider text in use, or NoProvider
  mode, consumed,
  \* the load under way
  phase, candidate

diskVars == <<disk, edits>>
managerVars == <<active, stamps>>
runtimeVars == <<synchronized, in_force, providers, mode, consumed>>
vars == <<diskVars, managerVars, runtimeVars, phase, candidate>>
-----------------------------------------------------------------------------
Exists(f) == disk[f] # NoFile

\* The version of f has this text; this fingerprint.
Holds(f, text) == IF Exists(f) THEN disk[f].text = text ELSE FALSE
Stamped(f, stamp) == IF Exists(f) THEN disk[f].stamp = stamp ELSE FALSE

\* load() succeeds on the files as they are.
Loads(text) == text.loads /\ \A l \in text.layouts : Exists(l)

Acceptable(text) == text.default_ok /\ text.bindings_ok

\* from_file and validate.
Validates(l) == \E text \in ValidProvider : Holds(l, text)

Saved(f) == IF f = ConfigFile THEN Script ELSE Provider

\* A session that has started: the first load succeeded and was accepted.
Init ==
  /\ disk \in [File -> [stamp : {0}, text : Script \cup Provider] \cup {NoFile}]
  /\ \A f \in File : Exists(f) => disk[f].text \in Saved(f)
  /\ edits = 0
  /\ Exists(ConfigFile)
  /\ active = disk[ConfigFile].text
  /\ Loads(active) /\ Acceptable(active)
  /\ stamps = [f \in {ConfigFile} \cup active.layouts |-> 0]
  /\ synchronized = TRUE
  /\ in_force = active
  /\ providers = [l \in Layout |->
                    IF l \in active.layouts /\ Validates(l) THEN disk[l].text ELSE NoProvider]
  /\ mode = NormalMode
  /\ consumed = {}
  /\ phase = "idle"
  /\ candidate = active
-----------------------------------------------------------------------------
(* The user.                                                               *)

Save(f, text) ==
  /\ edits < MaxEdits
  /\ edits' = edits + 1
  /\ disk' = [disk EXCEPT ![f] = [stamp |-> edits + 1, text |-> text]]
  /\ UNCHANGED <<managerVars, runtimeVars, phase, candidate>>

Remove(f) ==
  /\ Exists(f)
  /\ edits < MaxEdits
  /\ edits' = edits + 1
  /\ disk' = [disk EXCEPT ![f] = NoFile]
  /\ UNCHANGED <<managerVars, runtimeVars, phase, candidate>>
-----------------------------------------------------------------------------
(* The event loop: loading.                                                *)

\* Mutant: only config.lua is compared with its fingerprint.
ConfigFileChanged == ~\A f \in DOMAIN stamps \cap {ConfigFile} : Stamped(f, stamps[f])

\* Some dependency was changed, removed or replaced.
Changed == ~\A f \in DOMAIN stamps : Stamped(f, stamps[f])

\* reload_if_changed, or the IPC request that reloads regardless.
StartReload(forced) ==
  /\ phase = "idle"
  /\ forced \/ Changed
  /\ phase' = "reading"
  /\ UNCHANGED <<diskVars, managerVars, runtimeVars, candidate>>

\* ScriptLoader::load; on an error nothing has happened.
Read ==
  /\ phase = "reading"
  /\ IF Exists(ConfigFile) /\ Loads(disk[ConfigFile].text)
       THEN candidate' = disk[ConfigFile].text /\ phase' = "evaluated"
       ELSE phase' = "idle" /\ UNCHANGED candidate
  /\ UNCHANGED <<diskVars, managerVars, runtimeVars>>

\* Mutant: the candidate's files are fingerprinted, and the old one is kept.
CommitFingerprintsOnly ==
  /\ phase = "evaluated"
  /\ stamps' = [f \in {g \in {ConfigFile} \cup candidate.layouts : Exists(g)} |->
                  disk[f].stamp]
  /\ phase' = "idle"
  /\ UNCHANGED <<diskVars, active, runtimeVars, candidate>>

\* reload(): the dependencies that exist by now are fingerprinted, then the
\* candidate becomes the next generation.
CommitCandidate ==
  /\ phase = "evaluated"
  /\ stamps' = [f \in {g \in {ConfigFile} \cup candidate.layouts : Exists(g)} |->
                  disk[f].stamp]
  /\ active' = candidate
  /\ synchronized' = FALSE
  /\ phase' = "committed"
  /\ UNCHANGED <<diskVars, in_force, providers, mode, consumed, candidate>>
-----------------------------------------------------------------------------
(* The event loop: taking the generation over.                             *)

\* Mutant: a provider whose file does not validate is dropped.
ReloadedWithoutRetaining(l) ==
  IF l \in active.layouts /\ Validates(l) THEN disk[l].text ELSE NoProvider

\* LayoutProviders::reload: each valid file replaces the provider, an invalid
\* or missing one leaves the old provider, an id no longer named loses it.
Reloaded(l) ==
  IF l \notin active.layouts THEN NoProvider
  ELSE IF Validates(l) THEN disk[l].text ELSE providers[l]

\* Mutant: the current mode survives even where it is gone.
ModeKept(modes) == mode

\* InputState::replace: the current mode if it still exists, or the initial one.
ModeAfter(modes) == IF mode \in DOMAIN modes THEN mode ELSE NormalMode

\* Mutant: consumed presses survive the bindings that consumed them.
ReplaceInputKeepingConsumed ==
  /\ mode' = ModeAfter(active.modes)
  /\ UNCHANGED consumed

ReplaceInput ==
  /\ mode' = ModeAfter(active.modes)
  /\ consumed' = {}

\* Mutant: a refused generation is marked as taken over.
RefusedAndForgotten ==
  /\ providers' = [l \in Layout |-> Reloaded(l)]
  /\ synchronized' = TRUE
  /\ UNCHANGED <<in_force, mode, consumed>>

\* The input configuration is refused, after the providers were replaced.
RefusedHalfway ==
  /\ providers' = [l \in Layout |-> Reloaded(l)]
  /\ UNCHANGED <<synchronized, in_force, mode, consumed>>

\* synchronize: the default layout's name is checked first, the input
\* configuration last.
Synchronize ==
  /\ phase = "committed"
  /\ phase' = "idle"
  /\ \/ /\ ~active.default_ok
        /\ UNCHANGED runtimeVars
     \/ /\ active.default_ok /\ ~active.bindings_ok
        /\ RefusedHalfway
     \/ /\ Acceptable(active)
        /\ providers' = [l \in Layout |-> Reloaded(l)]
        /\ ReplaceInput
        /\ in_force' = active
        /\ synchronized' = TRUE
  /\ UNCHANGED <<diskVars, managerVars, candidate>>
-----------------------------------------------------------------------------
(* The event loop: input.                                                  *)

Bound(c) == mode \in DOMAIN in_force.modes /\ c \in DOMAIN in_force.modes[mode]

\* Mutant: every binding switches the mode.
PressAlwaysSwitches(c) ==
  /\ phase = "idle"
  /\ Bound(c)
  /\ consumed' = consumed \cup {c}
  /\ mode' = in_force.modes[mode][c]
  /\ UNCHANGED <<diskVars, managerVars, synchronized, in_force, providers, phase, candidate>>

\* press: a bound chord is consumed and may switch the mode; the mode it
\* switches to need not exist.
Press(c) ==
  /\ phase = "idle"
  /\ Bound(c)
  /\ consumed' = consumed \cup {c}
  /\ LET next == in_force.modes[mode][c]
     IN  mode' = IF next = NoMode THEN mode ELSE next
  /\ UNCHANGED <<diskVars, managerVars, synchronized, in_force, providers, phase, candidate>>

Release(c) ==
  /\ phase = "idle"
  /\ consumed' = consumed \ {c}
  /\ UNCHANGED <<diskVars, managerVars, synchronized, in_force, providers, mode, phase,
                 candidate>>
-----------------------------------------------------------------------------
User ==
  \/ \E f \in File : \E text \in Saved(f) : Save(f, text)
  \/ \E f \in File : Remove(f)

Reload == StartReload(FALSE) \/ Read \/ CommitCandidate \/ Synchronize

Next ==
  \/ User
  \/ Reload
  \/ StartReload(TRUE)
  \/ \E c \in Chord : Press(c) \/ Release(c)

Spec == Init /\ [][Next]_vars

\* The loop polls the files again and again and does not block.
FairSpec == Spec /\ WF_vars(Reload)
-----------------------------------------------------------------------------
TypeOK ==
  /\ disk \in [File -> [stamp : 0 .. MaxEdits, text : Script \cup Provider] \cup {NoFile}]
  /\ \A f \in File : Exists(f) => disk[f].text \in Saved(f)
  /\ edits \in 0 .. MaxEdits
  /\ active \in Script
  /\ DOMAIN stamps \subseteq File
  /\ \A f \in DOMAIN stamps : stamps[f] \in 0 .. MaxEdits
  /\ synchronized \in BOOLEAN
  /\ in_force \in Script
  /\ providers \in [Layout -> Provider \cup {NoProvider}]
  /\ mode \in Mode
  /\ consumed \subseteq Chord
  /\ phase \in {"idle", "reading", "evaluated", "committed"}
  /\ candidate \in Script

\* A runtime that reports the manager's generation runs that generation: its
\* input, rules and default layout, and none but its providers, all of them
\* validated.
RuntimeHoldsItsGeneration ==
  synchronized =>
    /\ in_force = active
    /\ \A l \in Layout :
         providers[l] # NoProvider => l \in active.layouts /\ providers[l] \in ValidProvider

\* Every chord whose release will be swallowed is still bound in some mode, so
\* that bindings replaced while it is held do not swallow a key that is now
\* the client's.
ConsumedAreBound ==
  \A c \in consumed :
    \E m \in DOMAIN in_force.modes : c \in DOMAIN in_force.modes[m]

\* A layout that stays configured never loses a working provider, whatever
\* state its file is in when it is reloaded.
ProvidersAreLastGood ==
  [][\A l \in Layout :
       providers[l] # NoProvider /\ providers'[l] = NoProvider => l \notin active.layouts]_vars

\* A generation that is taken over leaves the user in a mode it defines, even
\* one who had been switched to a mode that does not exist.
ModeIsRecovered == [][~synchronized /\ synchronized' => mode' \in DOMAIN in_force'.modes]_vars

\* An edit of config.lua the loop can see from its fingerprint is loaded unless
\* another edit comes first: no rejected candidate and no reload of something
\* else hides it.
ConfigEditsAreLoaded ==
  \A text \in Script :
       /\ phase = "idle" /\ Holds(ConfigFile, text) /\ Loads(text)
       /\ \E f \in DOMAIN stamps \cap {ConfigFile} : ~Stamped(f, stamps[f])
    ~> active = text \/ ~Holds(ConfigFile, text) \/ ~Loads(text)

\* A valid edit of the provider file of a configured layout comes into use
\* unless it is edited again, or the configuration stops loading or naming it,
\* or is refused.
ProviderEditsAreApplied ==
  \A l \in Layout, text \in ValidProvider :
       /\ phase = "idle" /\ synchronized /\ Holds(l, text)
       /\ \E f \in DOMAIN stamps \cap {l} : ~Stamped(f, stamps[f])
    ~> \/ providers[l] = text \/ ~Holds(l, text)
       \/ \A script \in Script : Holds(ConfigFile, script) => ~Loads(script)
       \/ l \notin active.layouts
       \/ phase = "idle" /\ ~synchronized

\* What the runtime uses comes from one generation: no provider is in use that
\* the configuration in force does not name.
ConfigurationIsOneGeneration ==
  phase = "idle" =>
    \A l \in Layout : providers[l] # NoProvider => l \in in_force.layouts
=============================================================================
