------------------------------- MODULE Config -------------------------------
(***************************************************************************)
(* The configuration (config/config.go) as operators: where it is looked   *)
(* for, what a JSON file does to it, what the setup wizard asks and saves, *)
(* what Validate refuses.  The fields no decision looks at (port, screen,  *)
(* debug, jiggler, remote_id) are left out.                                *)
(***************************************************************************)
EXTENDS Naturals, Sequences

CONSTANT BinaryKnown  \* os.Executable tells where the binary is

ASSUME ConfigAssumption == BinaryKnown \in BOOLEAN

\* Parse: the defaults.
Defaults ==
    [key |-> "", remote |-> "", id |-> 1, mode |-> "client", sensitivity |-> 24,
     name |-> "", mouse |-> "", keyboard |-> ""]

Fields == DOMAIN Defaults

\* A file.  "syntax" is no JSON at all; in a file of kind "type" one value has
\* the wrong type, which the decoder reports after it has taken the others.
File(kind, has) == [kind |-> kind, has |-> has]
Absent == File("absent", [x \in {} |-> ""])
Truncated == File("syntax", [x \in {} |-> ""])

\* The values of has replace those of c; used for JSON and for the flags.
Override(c, has) == [x \in Fields |-> IF x \in DOMAIN has THEN has[x] ELSE c[x]]

\* Faulty variant of defaultConfigPaths: the directory of the binary last.
BinaryLast == IF BinaryKnown THEN <<"cwd", "parent", "exe">> ELSE <<"cwd", "parent">>

defaultConfigPaths == IF BinaryKnown THEN <<"exe", "cwd", "parent">> ELSE <<"cwd", "parent">>

\* --config replaces the search.
searchPaths(config) == IF config = "" THEN defaultConfigPaths ELSE <<config>>

\* Faulty variant of ReadJSON: the loop goes on after a file was loaded.
NoReturn(state, file) ==
    IF file.kind \in {"absent", "syntax"} THEN [state EXCEPT !.loaded = FALSE]
    ELSE [cfg |-> Override(state.cfg, file.has), loaded |-> file.kind = "good"]

\* One round of loadFromJSON's loop.  A file that cannot be read or parsed is
\* passed over, but what was decoded of it stays.
ReadJSON(state, file) ==
    IF state.loaded \/ file.kind \in {"absent", "syntax"} THEN state
    ELSE [cfg |-> Override(state.cfg, file.has), loaded |-> file.kind = "good"]

loadFromJSON(disk, paths) ==
    LET after[n \in 0..Len(paths)] ==
            IF n = 0 THEN [cfg |-> Defaults, loaded |-> FALSE]
            ELSE ReadJSON(after[n - 1], disk[paths[n]])
    IN  after[Len(paths)]

validModes == {"client", "server", "tui"}

\* Faulty variant of Answers: an empty remote address is taken.
AnyAnswers(a) == a.key # "" /\ a.id # 0 /\ a.mode \in validModes

\* The wizard asks again until it has an answer it accepts: a key (typed or
\* drawn), a positive ID, a remote address, one of three modes.
Answers(a) == a.key # "" /\ a.id # 0 /\ a.remote # "" /\ a.mode \in validModes

\* saveToJSON writes beside the binary, or into the working directory.
savePath == IF BinaryKnown THEN "exe" ELSE "cwd"

\* The slim struct of saveToJSON.
SavedFields == {"key", "remote", "sensitivity", "mode", "id", "name"}

saveToJSON(c) == File("good", [x \in SavedFields |-> c[x]])

\* Parse: the name is the host's when nothing else set it.
WithName(c, hostname) == IF c.name = "" THEN [c EXCEPT !.name = hostname] ELSE c

\* Validate returns no error (without --list-devices and --demo).
Validate(c) ==
    /\ c.key # ""
    /\ c.mode \in {"client", "tui"} => c.remote # ""
    /\ c.id # 0
    /\ c.sensitivity > 0
=============================================================================
