------------------------------ MODULE Startup ------------------------------
(***************************************************************************)
(* From the command line to a session that can capture (main and           *)
(* setupInputCapture of main.go, Parse of config.go): the process is       *)
(* started again and again by a user who edits config.json, passes flags,  *)
(* answers the wizard or interrupts it, and plugs devices in and out.  The *)
(* disk is what outlives the process.                                      *)
(***************************************************************************)
EXTENDS Config, Discovery

CONSTANTS
    Files,      \* what the user may write into a config.json
    FlagSets,   \* the flags the user may give, as the fields they set
    Typed,      \* the answers the user may type into the wizard
    MaxStarts,  \* bound on the starts of the process
    MaxEdits    \* bound on the files the user edits

\* The wizard asks for all four; what is typed may still be refused.
ASSUME StartupAssumption ==
    /\ MaxStarts \in Nat /\ MaxEdits \in Nat
    /\ \A a \in Typed : {"key", "id", "remote", "mode"} \subseteq DOMAIN a

Paths == {"exe", "cwd", "parent", "elsewhere"}

VARIABLES
    disk,     \* disk[p]: the config.json in the directory p
    phase,    \* where the process is, "off" when there is none
    special,  \* "none", or the flag --version, --list-devices or --demo
    config,   \* the path of --config, or ""
    flags,    \* the fields set by flags
    cfg,      \* *Config
    handles,  \* mouseDevs and kbdDevs
    own,      \* the virtual devices that exist
    asked,    \* the wizard has run in this process
    saved,    \* what the wizard saved last and nobody has edited since, or <<>>
    starts, edits

vars == <<disk, phase, special, config, flags, cfg, asked, handles, own, saved, starts, edits>>
lineVars == <<special, config, flags>>
inputVars == <<handles, own>>
countVars == <<starts, edits>>

Phases == {"off", "wizard", "save", "writing", "flags", "check", "connect", "devices",
           "discover", "ready", "demo"}

TypeOK ==
    /\ phase \in Phases
    /\ DOMAIN cfg = Fields
    /\ DOMAIN disk = Paths
    /\ handles.mice \subseteq Devices /\ handles.kbds \subseteq Devices
    /\ own \in {{}, Virtual}
    /\ starts \in 0..MaxStarts /\ edits \in 0..MaxEdits

Init ==
    /\ disk = [p \in Paths |-> Absent]
    /\ phase = "off"
    /\ special = "none"
    /\ config = ""
    /\ flags = [x \in {} |-> ""]
    /\ cfg = Defaults
    /\ asked = FALSE
    /\ handles = NoHandles
    /\ own = {}
    /\ saved = <<>>
    /\ starts = 0
    /\ edits = 0

\* The process ends, and its devices and open files with it.
Exit ==
    /\ phase' = "off"
    /\ handles' = NoHandles
    /\ own' = {}

-----------------------------------------------------------------------------
\* Parse, up to the file: the flags are read, the file is looked for, and the
\* wizard starts when none was loaded.
Parse(s, p, f) ==
    /\ phase = "off"
    /\ starts < MaxStarts
    /\ starts' = starts + 1
    /\ special' = s /\ config' = p /\ flags' = f
    /\ LET load == loadFromJSON(disk, searchPaths(p))
       IN  /\ cfg' = load.cfg
           /\ phase' = IF load.loaded THEN "flags" ELSE "wizard"
    /\ asked' = FALSE
    /\ UNCHANGED <<disk, inputVars, saved, edits>>

\* runOnboarding: the answers.
runOnboarding(a) ==
    /\ phase = "wizard"
    /\ Answers(a)
    /\ cfg' = Override(cfg, a)
    /\ asked' = TRUE
    /\ phase' = "save"
    /\ UNCHANGED <<disk, lineVars, inputVars, saved, countVars>>

\* saveToJSON: os.WriteFile empties the file and then writes it; when it fails
\* a warning is all.
OpenForWriting ==
    /\ phase = "save"
    /\ \/ /\ disk' = [disk EXCEPT ![savePath] = Truncated]
          /\ saved' = <<>>
          /\ phase' = "writing"
       \/ phase' = "flags" /\ UNCHANGED <<disk, saved>>
    /\ UNCHANGED <<lineVars, cfg, asked, inputVars, countVars>>

WriteFile ==
    /\ phase = "writing"
    /\ \/ /\ disk' = [disk EXCEPT ![savePath] = saveToJSON(cfg)]
          /\ saved' = <<cfg>>
       \/ UNCHANGED <<disk, saved>>
    /\ phase' = "flags"
    /\ UNCHANGED <<lineVars, cfg, asked, inputVars, countVars>>

\* The rest of Parse; os.Hostname may fail.
ApplyFlags ==
    /\ phase = "flags"
    /\ \E h \in {"", "host"} : cfg' = WithName(Override(cfg, flags), h)
    /\ phase' = "check"
    /\ UNCHANGED <<disk, lineVars, asked, inputVars, saved, countVars>>

\* main: --version and --list-devices print and end; then Validate ends the
\* program with an error, or the demo or a connection begins.
Check ==
    /\ phase = "check"
    /\ \/ special \in {"version", "list-devices"} /\ Exit
       \/ special = "demo" /\ phase' = "demo" /\ UNCHANGED inputVars
       \/ special = "none" /\ Validate(cfg) /\ phase' = "connect" /\ UNCHANGED inputVars
       \/ special = "none" /\ ~Validate(cfg) /\ Exit
    /\ UNCHANGED <<disk, lineVars, cfg, asked, saved, countVars>>

\* connectClient succeeds; a mode nobody knows is an error for ever.  The TUI
\* has no devices.
Connect ==
    /\ phase = "connect"
    /\ cfg.mode \in {"client", "server"}
    /\ phase' = "devices"
    /\ UNCHANGED <<disk, lineVars, cfg, asked, inputVars, saved, countVars>>

\* runDemo and runSession: NewVirtualInput, fatal when it fails.
NewVirtualInput ==
    /\ phase \in {"devices", "demo"}
    /\ \/ /\ phase = "devices"
          /\ phase' = "discover"
          /\ own' = Virtual
          /\ UNCHANGED handles
       \/ Exit
    /\ UNCHANGED <<disk, lineVars, cfg, asked, saved, countVars>>

\* What is plugged in, and the own devices whose nodes udev has made readable.
Present == {p \cup o : p \in SUBSET (Devices \ Virtual), o \in SUBSET own}

\* setupInputCapture, fatal when it fails.
setupInputCapture ==
    /\ phase = "discover"
    /\ \E present \in Present : \E gone \in SUBSET present :
         \/ /\ cfg.mouse = "" /\ cfg.keyboard = ""
            /\ Usable(present, gone)
            /\ handles' = DiscoverAndOpen(present, gone)
            /\ phase' = "ready"
            /\ UNCHANGED own
         \/ /\ cfg.mouse = "" /\ cfg.keyboard = ""
            /\ ~Usable(present, gone)
            /\ Exit
         \/ /\ cfg.mouse # "" \/ cfg.keyboard # ""
            /\ \E pair \in PathPairs(cfg.mouse, cfg.keyboard, present) :
                 /\ {pair[1], pair[2]} \subseteq present \ gone
                 /\ handles' = [mice |-> {pair[1]}, kbds |-> {pair[2]}]
            /\ phase' = "ready"
            /\ UNCHANGED own
    /\ UNCHANGED <<disk, lineVars, cfg, asked, saved, countVars>>

\* A configured path cannot be opened, or nothing is found for the other.
OpenFails ==
    /\ phase = "discover"
    /\ cfg.mouse # "" \/ cfg.keyboard # ""
    /\ Exit
    /\ UNCHANGED <<disk, lineVars, cfg, asked, saved, countVars>>

-----------------------------------------------------------------------------
\* The user ends the process, or it is killed: in the wizard or in the middle
\* of the write too.
Kill ==
    /\ phase # "off"
    /\ Exit
    /\ UNCHANGED <<disk, lineVars, cfg, asked, saved, countVars>>

EditFile(p, f) ==
    /\ phase = "off"
    /\ edits < MaxEdits
    /\ edits' = edits + 1
    /\ disk' = [disk EXCEPT ![p] = f]
    /\ saved' = IF p = savePath THEN <<>> ELSE saved
    /\ UNCHANGED <<phase, lineVars, cfg, asked, inputVars, starts>>

Next ==
    \/ \E s \in {"none", "version", "list-devices", "demo"}, p \in {"", "elsewhere"},
          f \in FlagSets : Parse(s, p, f)
    \/ \E a \in Typed : runOnboarding(a)
    \/ OpenForWriting \/ WriteFile \/ ApplyFlags \/ Check \/ Connect
    \/ NewVirtualInput \/ setupInputCapture \/ OpenFails \/ Kill
    \/ \E p \in Paths, f \in Files : EditFile(p, f)

Spec == Init /\ [][Next]_vars

-----------------------------------------------------------------------------
\* The wizard asks for all that Validate needs: without flags, whatever files
\* were passed over before it, only a sensitivity one of them has left behind
\* can still be refused.
WizardSuffices ==
    asked /\ phase = "check" /\ DOMAIN flags = {} /\ cfg.sensitivity > 0 => Validate(cfg)

\* What the wizard saved is what later starts run with: as long as nobody edits
\* the file, a start without --config finds it before any other config.json,
\* does not ask again, and takes every saved field from it that no flag
\* overrides.
SavedIsReloaded ==
    saved # <<>> /\ config = "" /\ phase # "off" =>
        /\ phase # "wizard"
        /\ phase \in {"check", "connect"} =>
             \A x \in SavedFields \ {"name"} :
                 cfg[x] = IF x \in DOMAIN flags THEN flags[x] ELSE saved[1][x]

\* The wizard never destroys a config.json it could have used, wherever the
\* process is killed: unless --config sent the search elsewhere, the file it
\* overwrites was absent or unusable.
GoodFileSurvives ==
    [][disk[savePath].kind = "good" /\ disk'[savePath] # disk[savePath] =>
          phase = "off" \/ config # ""]_vars
=============================================================================
