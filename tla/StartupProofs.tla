--------------------------- MODULE StartupProofs ---------------------------
(***************************************************************************)
(* Proofs about Startup for any files, flags, answers and devices, and any *)
(* number of starts, edits and kills.                                      *)
(***************************************************************************)
EXTENDS Startup, TLAPS

-----------------------------------------------------------------------------
\* A file that was loaded ends the search: what comes after it is not read.
LEMMA FirstGoodFile ==
    ASSUME NEW d, NEW paths, Len(paths) = 2 \/ Len(paths) = 3,
           d[paths[1]].kind = "good"
    PROVE  loadFromJSON(d, paths)
             = [cfg |-> Override(Defaults, d[paths[1]].has), loaded |-> TRUE]
  <1> DEFINE a0 == [cfg |-> Defaults, loaded |-> FALSE]
             a1 == [cfg |-> Override(Defaults, d[paths[1]].has), loaded |-> TRUE]
             step(g, n) == IF n = 0 THEN a0 ELSE ReadJSON(g[n - 1], d[paths[n]])
             after == CHOOSE g : g = [n \in 0..Len(paths) |-> step(g, n)]
             h == [n \in 0..Len(paths) |-> IF n = 0 THEN a0 ELSE a1]
  <1>1. ReadJSON(a0, d[paths[1]]) = a1
    <2>1. a0.cfg = Defaults /\ a0.loaded = FALSE
      OBVIOUS
    <2> HIDE DEF a0
    <2> QED BY <2>1 DEF ReadJSON
  <1>2. \A f : ReadJSON(a1, f) = a1
    <2>1. a1.loaded
      OBVIOUS
    <2> HIDE DEF a1
    <2> QED BY <2>1 DEF ReadJSON
  <1>3. loadFromJSON(d, paths) = after[Len(paths)]
    BY DEF loadFromJSON
  <1> HIDE DEF a0, a1
  <1>4. h = [n \in 0..Len(paths) |-> step(h, n)]
    <2>1. ASSUME NEW n \in 0..Len(paths) PROVE h[n] = step(h, n)
      <3>1. CASE n = 0
        BY <3>1
      <3>2. CASE n = 1
        BY <1>1, <3>2
      <3>3. CASE n > 1
        <4>1. n - 1 \in 0..Len(paths) /\ n - 1 # 0 /\ n # 0
          BY <3>3
        <4>2. h[n - 1] = a1 /\ h[n] = a1
          BY <4>1
        <4> HIDE DEF h
        <4> QED BY <1>2, <4>1, <4>2
      <3> QED BY <3>1, <3>2, <3>3
    <2> QED BY <2>1
  <1>5. after = [n \in 0..Len(paths) |-> step(after, n)]
    <2> HIDE DEF h
    <2> QED BY <1>4, Zenon
  <1> HIDE DEF after, h
  <1>6. after[0] = a0
    BY <1>5
  <1>7. after[1] = a1
    BY <1>1, <1>5, <1>6
  <1>8. after[2] = a1
    BY <1>2, <1>5, <1>7
  <1>9. Len(paths) = 3 => after[3] = a1
    BY <1>2, <1>5, <1>8
  <1> QED BY <1>3, <1>8, <1>9 DEF a1

\* The file that saveToJSON writes is the first one of the search.
LEMMA GoodFileIsLoaded ==
    ASSUME NEW d, d[savePath].kind = "good"
    PROVE  /\ loadFromJSON(d, searchPaths("")).loaded
           /\ loadFromJSON(d, searchPaths("")).cfg = Override(Defaults, d[savePath].has)
  <1> DEFINE paths == searchPaths("")
  <1>1. /\ paths[1] = savePath
        /\ Len(paths) = 2 \/ Len(paths) = 3
    BY ConfigAssumption DEF searchPaths, defaultConfigPaths, savePath
  <1> HIDE DEF paths
  <1>2. loadFromJSON(d, paths)
          = [cfg |-> Override(Defaults, d[savePath].has), loaded |-> TRUE]
    BY <1>1, FirstGoodFile
  <1>3. /\ loadFromJSON(d, paths).loaded
        /\ loadFromJSON(d, paths).cfg = Override(Defaults, d[savePath].has)
    BY <1>2
  <1> QED BY <1>3 DEF paths

\* What the flags and the name leave of the fields.
LEMMA OverrideGives ==
    ASSUME NEW c, NEW has, NEW x \in Fields
    PROVE  Override(c, has)[x] = IF x \in DOMAIN has THEN has[x] ELSE c[x]
  BY DEF Override

\* Filling in the host name changes no other field.
LEMMA WithNameGives ==
    ASSUME NEW c, NEW has, NEW h, NEW x \in Fields \ {"name"}
    PROVE  WithName(Override(c, has), h)[x] = Override(c, has)[x]
  BY DEF WithName, Override

\* The fields that the wizard asks for, and the ones that are saved, are fields.
LEMMA FieldNames ==
    /\ SavedFields \subseteq Fields
    /\ {"key", "remote", "id", "mode", "sensitivity"} \subseteq Fields \ {"name"}
  BY DEF SavedFields, Fields, Defaults

-----------------------------------------------------------------------------
\* The wizard's answers are in the configuration until a flag replaces them.
Answered(c) == c.key # "" /\ c.id # 0 /\ c.remote # "" /\ c.mode \in validModes

AnswersStay ==
    asked => /\ phase \in {"save", "writing", "flags"} => Answered(cfg)
             /\ phase = "check" /\ DOMAIN flags = {} => Answered(cfg)

\* The file is what was saved there last.
SavedIsOnDisk == saved # <<>> => disk[savePath] = saveToJSON(saved[1])

\* A start without --config that goes to the wizard found no good file there.
WizardHasReason ==
    config = "" => /\ phase \in {"wizard", "save"} => disk[savePath].kind # "good"
                   /\ phase = "writing" => disk[savePath].kind # "good" /\ saved = <<>>

\* What a start without --config has read of it.
ReadsSaved ==
    saved # <<>> /\ config = "" =>
        /\ phase = "flags" => \A x \in SavedFields : cfg[x] = saved[1][x]
        /\ phase \in {"check", "connect"} =>
             \A x \in SavedFields \ {"name"} :
                 cfg[x] = IF x \in DOMAIN flags THEN flags[x] ELSE saved[1][x]

StartupInv ==
    /\ disk = [p \in Paths |-> disk[p]]
    /\ AnswersStay
    /\ SavedIsOnDisk
    /\ WizardHasReason
    /\ ReadsSaved

\* What is saved can be read.
LEMMA SavedIsGood ==
    ASSUME NEW c
    PROVE  /\ saveToJSON(c).kind = "good"
           /\ DOMAIN saveToJSON(c).has = SavedFields
           /\ \A x \in SavedFields : saveToJSON(c).has[x] = c[x]
  BY DEF saveToJSON, File

\* A step that leaves the disk, the configuration and the command line alone and
\* goes on to a phase after the check, or ends the process.
LEMMA LaterPhases ==
    ASSUME StartupInv, UNCHANGED <<disk, special, config, flags, cfg, asked, saved>>,
           phase' \in {"off", "devices", "discover", "ready", "demo"}
             \/ (phase' = "connect" /\ phase = "check")
    PROVE  StartupInv'
  <1>1. (disk = [p \in Paths |-> disk[p]])' /\ AnswersStay' /\ SavedIsOnDisk' /\ WizardHasReason'
    BY DEF StartupInv, AnswersStay, SavedIsOnDisk, WizardHasReason
  <1>2. ReadsSaved'
    BY DEF StartupInv, ReadsSaved
  <1> QED BY <1>1, <1>2 DEF StartupInv

\* A start reads the command line and the files: what was saved is what it finds.
LEMMA ParseKeeps ==
    ASSUME StartupInv, NEW s, NEW p, NEW f, Parse(s, p, f)
    PROVE  StartupInv'
  <1> DEFINE load == loadFromJSON(disk, searchPaths(p))
  <1>1. /\ config' = p /\ cfg' = load.cfg /\ asked' = FALSE
        /\ phase' = IF load.loaded THEN "flags" ELSE "wizard"
        /\ UNCHANGED <<disk, saved>>
    BY DEF Parse
  <1>2. ASSUME p = "", disk[savePath].kind = "good"
        PROVE  load.loaded /\ load.cfg = Override(Defaults, disk[savePath].has)
    BY <1>2, GoodFileIsLoaded
  <1> HIDE DEF load
  <1>3. (disk = [q \in Paths |-> disk[q]])' /\ SavedIsOnDisk' /\ AnswersStay'
    BY <1>1 DEF StartupInv, SavedIsOnDisk, AnswersStay
  <1>4. WizardHasReason'
    BY <1>1, <1>2 DEF WizardHasReason
  <1>5. ASSUME saved # <<>>, p = ""
        PROVE  phase' = "flags" /\ \A x \in SavedFields : cfg'[x] = saved[1][x]
    <2>1. disk[savePath] = saveToJSON(saved[1])
      BY <1>5 DEF StartupInv, SavedIsOnDisk
    <2>2. /\ disk[savePath].kind = "good" /\ DOMAIN disk[savePath].has = SavedFields
          /\ \A x \in SavedFields : disk[savePath].has[x] = saved[1][x]
      BY <2>1, SavedIsGood
    <2>3. load.loaded /\ cfg' = Override(Defaults, disk[savePath].has)
      BY <1>1, <1>2, <1>5, <2>2
    <2>4. \A x \in SavedFields : cfg'[x] = disk[savePath].has[x]
      BY <2>2, <2>3, OverrideGives, FieldNames
    <2> QED BY <1>1, <2>2, <2>3, <2>4
  <1>6. ReadsSaved'
    BY <1>1, <1>5 DEF ReadsSaved
  <1> QED BY <1>3, <1>4, <1>6 DEF StartupInv

\* The wizard puts every answer into the configuration.
LEMMA OnboardingKeeps ==
    ASSUME StartupInv, NEW a \in Typed, runOnboarding(a)
    PROVE  StartupInv'
  <1>1. /\ phase = "wizard" /\ phase' = "save" /\ Answers(a) /\ cfg' = Override(cfg, a)
        /\ UNCHANGED <<disk, config, flags, saved>>
    BY DEF runOnboarding, lineVars
  <1>2. \A x \in {"key", "id", "remote", "mode"} : cfg'[x] = a[x]
    BY <1>1, StartupAssumption, OverrideGives, FieldNames
  <1>3. Answered(cfg')
    BY <1>1, <1>2 DEF Answered, Answers
  <1> QED BY <1>1, <1>3 DEF StartupInv, AnswersStay, Answered, SavedIsOnDisk, WizardHasReason,
          ReadsSaved

\* Opening the file to save truncates it, so nothing counts as saved until it is written.
LEMMA OpenKeeps ==
    ASSUME StartupInv, OpenForWriting
    PROVE  StartupInv'
  <1>1. phase = "save" /\ UNCHANGED <<config, flags, cfg, asked>>
    BY DEF OpenForWriting, lineVars
  <1>2. AnswersStay
    BY DEF StartupInv
  <1>3. CASE phase' = "flags" /\ UNCHANGED <<disk, saved>>
    <2>1. config = "" => saved = <<>>
      BY <1>1, SavedIsGood DEF StartupInv, WizardHasReason, SavedIsOnDisk
    <2> QED BY <1>1, <1>2, <1>3, <2>1 DEF StartupInv, AnswersStay, SavedIsOnDisk, WizardHasReason,
            ReadsSaved
  <1>4. CASE /\ disk' = [disk EXCEPT ![savePath] = Truncated] /\ saved' = <<>>
             /\ phase' = "writing"
    <2>1. disk'[savePath] = Truncated /\ Truncated.kind = "syntax"
      BY <1>4 DEF StartupInv, Paths, savePath, Truncated, File
    <2>2. (disk = [p \in Paths |-> disk[p]])'
      BY <1>4 DEF StartupInv
    <2> QED BY <1>1, <1>2, <1>4, <2>1, <2>2 DEF StartupInv, AnswersStay, SavedIsOnDisk,
            WizardHasReason, ReadsSaved
  <1> QED BY <1>3, <1>4 DEF OpenForWriting

\* A complete write is what saved then names; a failed one leaves nothing saved.
LEMMA WriteKeeps ==
    ASSUME StartupInv, WriteFile
    PROVE  StartupInv'
  <1>1. phase = "writing" /\ phase' = "flags" /\ UNCHANGED <<config, flags, cfg, asked>>
    BY DEF WriteFile, lineVars
  <1>2. AnswersStay /\ WizardHasReason
    BY DEF StartupInv
  <1>3. CASE UNCHANGED <<disk, saved>>
    BY <1>1, <1>2, <1>3 DEF StartupInv, AnswersStay, SavedIsOnDisk, WizardHasReason, ReadsSaved
  <1>4. CASE disk' = [disk EXCEPT ![savePath] = saveToJSON(cfg)] /\ saved' = <<cfg>>
    <2>1. disk'[savePath] = saveToJSON(cfg) /\ saved'[1] = cfg
      BY <1>4 DEF StartupInv, Paths, savePath
    <2>2. (disk = [p \in Paths |-> disk[p]])'
      BY <1>4 DEF StartupInv
    <2>3. SavedIsOnDisk' /\ ReadsSaved'
      BY <1>1, <2>1 DEF SavedIsOnDisk, ReadsSaved
    <2> QED BY <1>1, <1>2, <2>2, <2>3 DEF StartupInv, AnswersStay, WizardHasReason
  <1> QED BY <1>3, <1>4 DEF WriteFile

\* Flags replace fields, and only the ones they name.
LEMMA FlagsKeep ==
    ASSUME StartupInv, ApplyFlags
    PROVE  StartupInv'
  <1>1. /\ phase = "flags" /\ phase' = "check" /\ UNCHANGED <<disk, config, flags, asked, saved>>
    BY DEF ApplyFlags, lineVars
  <1>2. PICK h : cfg' = WithName(Override(cfg, flags), h)
    BY DEF ApplyFlags
  <1>3. \A x \in Fields \ {"name"} : cfg'[x] = IF x \in DOMAIN flags THEN flags[x] ELSE cfg[x]
    BY <1>2, OverrideGives, WithNameGives
  <1>4. AnswersStay'
    <2>1. DOMAIN flags = {} => \A x \in {"key", "remote", "id", "mode"} : cfg'[x] = cfg[x]
      BY <1>3, FieldNames
    <2> QED BY <1>1, <2>1 DEF StartupInv, AnswersStay, Answered
  <1>5. ReadsSaved'
    BY <1>1, <1>3, FieldNames DEF StartupInv, ReadsSaved
  <1> QED BY <1>1, <1>4, <1>5 DEF StartupInv, SavedIsOnDisk, WizardHasReason

\* An edit of the file that was saved makes the saved settings void.
LEMMA EditKeeps ==
    ASSUME StartupInv, NEW p \in Paths, NEW f, EditFile(p, f)
    PROVE  StartupInv'
  <1>1. /\ phase = "off" /\ disk' = [disk EXCEPT ![p] = f]
        /\ saved' = IF p = savePath THEN <<>> ELSE saved
        /\ UNCHANGED <<phase, config, flags, cfg, asked>>
    BY DEF EditFile, lineVars
  <1>2. (disk = [q \in Paths |-> disk[q]])' /\ (p # savePath => disk'[savePath] = disk[savePath])
    BY <1>1 DEF StartupInv, Paths, savePath
  <1> QED BY <1>1, <1>2 DEF StartupInv, AnswersStay, SavedIsOnDisk, WizardHasReason, ReadsSaved

\* StartupInv is inductive.
LEMMA StartupInductive == StartupInv /\ [Next]_vars => StartupInv'
  <1> SUFFICES ASSUME StartupInv, [Next]_vars PROVE StartupInv'
    OBVIOUS
  <1>1. ASSUME Check \/ Connect \/ NewVirtualInput \/ setupInputCapture \/ OpenFails \/ Kill
        PROVE  /\ UNCHANGED <<disk, special, config, flags, cfg, asked, saved>>
               /\ \/ phase' \in {"off", "devices", "discover", "ready", "demo"}
                  \/ phase' = "connect" /\ phase = "check"
    BY <1>1 DEF Check, Connect, NewVirtualInput, setupInputCapture, OpenFails, Kill, Exit, lineVars
  <1>2. CASE Check \/ Connect \/ NewVirtualInput \/ setupInputCapture \/ OpenFails \/ Kill
    BY <1>1, <1>2, LaterPhases
  <1>3. CASE UNCHANGED vars
    BY <1>3 DEF vars, StartupInv, AnswersStay, SavedIsOnDisk, WizardHasReason, ReadsSaved
  <1>4. CASE \E s \in {"none", "version", "list-devices", "demo"}, p \in {"", "elsewhere"},
               f \in FlagSets : Parse(s, p, f)
    BY <1>4, ParseKeeps
  <1> QED BY <1>2, <1>3, <1>4, OnboardingKeeps, OpenKeeps, WriteKeeps, FlagsKeep,
          EditKeeps DEF Next

\* The invariant holds before the first start.
LEMMA StartupInitially == Init => StartupInv
  BY DEF Init, StartupInv, AnswersStay, SavedIsOnDisk, WizardHasReason, ReadsSaved

-----------------------------------------------------------------------------
\* What the wizard accepts Validate accepts, whatever files were passed over
\* before: only a sensitivity one of them left behind, or a flag, can still be
\* refused.
THEOREM WizardIsEnough == Spec => []WizardSuffices
  <1>1. StartupInv => WizardSuffices
    BY DEF StartupInv, AnswersStay, Answered, WizardSuffices, Validate
  <1> QED BY <1>1, StartupInitially, StartupInductive, PTL DEF Spec

\* What the wizard saved is found first and used by every later start without
\* --config, until somebody edits it.
THEOREM SavedComesBack == Spec => []SavedIsReloaded
  <1>1. ASSUME StartupInv
        PROVE  SavedIsReloaded
    <2>1. saved # <<>> /\ config = "" => phase # "wizard"
      BY <1>1, SavedIsGood DEF StartupInv, SavedIsOnDisk, WizardHasReason
    <2> QED BY <1>1, <2>1 DEF StartupInv, ReadsSaved, SavedIsReloaded
  <1>2. StartupInv => SavedIsReloaded
    BY <1>1
  <1> QED BY <1>2, StartupInitially, StartupInductive, PTL DEF Spec

\* No step of the program, killed wherever, replaces a good file it could have
\* used.
THEOREM GoodFileStays == Spec => GoodFileSurvives
  <1>1. ASSUME StartupInv, [Next]_vars, disk[savePath].kind = "good", disk'[savePath] # disk[savePath]
        PROVE  phase = "off" \/ config # ""
    <2>1. UNCHANGED disk \/ OpenForWriting \/ WriteFile
            \/ \E p \in Paths, f \in Files : EditFile(p, f)
      BY <1>1 DEF Next, Parse, runOnboarding, ApplyFlags, Check, Connect, NewVirtualInput,
         setupInputCapture, OpenFails, Kill, vars
    <2>2. OpenForWriting => phase = "save"
      BY DEF OpenForWriting
    <2>3. WriteFile => phase = "writing"
      BY DEF WriteFile
    <2>4. (\E p \in Paths, f \in Files : EditFile(p, f)) => phase = "off"
      BY DEF EditFile
    <2> QED BY <1>1, <2>1, <2>2, <2>3, <2>4 DEF StartupInv, WizardHasReason
  <1>2. StartupInv /\ [Next]_vars =>
          [disk[savePath].kind = "good" /\ disk'[savePath] # disk[savePath] => phase = "off" \/ config # ""]_vars
    BY <1>1
  <1> QED BY <1>2, StartupInitially, StartupInductive, PTL DEF Spec, GoodFileSurvives
=============================================================================
