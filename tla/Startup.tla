-------------------------------- MODULE Startup --------------------------------
(***************************************************************************)
(* Starts of code-server up to the moment they serve: entry.ts, what cli.ts *)
(* does with the config file, and the certificate of util.ts. All starts   *)
(* share the files, and each may die at any moment and be tried again. The *)
(* steps of a start are the awaits of entry and of what it calls.          *)
(***************************************************************************)
EXTENDS Arguments

CONSTANTS
    Starts,
    Files,               \* documents a user may have written as config file
    Launches,            \* the command lines and environments of all starts
    NewPassword(_),      \* the password a start generates
    Old, Blank, Missing  \* certificate or key from before; an empty file; none

ASSUME StartupAssumption ==
    /\ \A l \in Launches : DOMAIN l.argv = Starts /\ DOMAIN l.env = Starts
    /\ \A l \in Launches, s \in Starts :
          l.argv[s] \in Seq(Argument) /\ l.env[s] \in [Variables -> Texts \cup {None}]
    /\ \A f \in Files \cup {DefaultConfigFile(NewPassword(s)) : s \in Starts} : f \in Seq(Entry)
    /\ \A s, t \in Starts : NewPassword(s) = NewPassword(t) => s = t
    /\ \A f \in Files : f \notin {Missing, <<>>}
    /\ \A s \in Starts : DefaultConfigFile(NewPassword(s)) \notin {Missing, <<>>}
    /\ Missing # <<>>
    /\ {Old, Blank, Missing} \cap Starts = {} /\ Blank \notin {Old, Missing}
    /\ None \notin Files \cup {DefaultConfigFile(NewPassword(s)) : s \in Starts}

VARIABLES
    configFile,   \* its document, empty once it is created, or Missing
    crt, key,     \* the start that generated them, Old, Blank or Missing
    argv, env,    \* of each start
    stage,        \* how far each start is
    cliArgs,      \* what parse returned
    config,       \* the document it read
    args,         \* what setDefaults returned
    opened, left, \* of crt and key, which it has opened and has yet to write
    disturbed     \* two starts generated at once, or one died in between

files == <<configFile, crt, key>>
vars == <<files, argv, env, stage, cliArgs, config, args, opened, left, disturbed>>

Pair == {"crt", "key"}
Stages == {"new", "parsed", "created", "reading", "checking", "generating", "set",
           "serving", "refused", "shown", "died"}

\* A config file is one a user wrote, the one a start wrote, empty or none.
Generated == {DefaultConfigFile(NewPassword(s)) : s \in Starts}
Documents == Files \cup Generated \cup {<<>>}

TypeOK ==
    /\ configFile \in Documents \cup {Missing}
    /\ crt \in Starts \cup {Old, Blank, Missing} /\ key \in Starts \cup {Old, Blank, Missing}
    /\ DOMAIN argv = Starts /\ DOMAIN env = Starts
    /\ stage \in [Starts -> Stages]
    /\ DOMAIN cliArgs = Starts /\ DOMAIN args = Starts
    /\ config \in [Starts -> Documents \cup {None}]
    /\ opened \in [Starts -> SUBSET Pair] /\ left \in [Starts -> SUBSET Pair]
    /\ disturbed \in BOOLEAN
    \* A file is blank while someone writes it, or since someone died.
    /\ \A s \in Starts : stage[s] = "created" => configFile = <<>>
    /\ crt = Blank \/ key = Blank => disturbed \/ \E s \in Starts : left[s] # {}

Init ==
    /\ configFile \in Files \cup {Missing}
    /\ crt \in {Old, Missing} /\ key \in {crt, Missing}
    /\ \E l \in Launches : argv = l.argv /\ env = l.env
    /\ stage = [s \in Starts |-> "new"]
    /\ cliArgs = [s \in Starts |-> None] /\ config = [s \in Starts |-> None]
    /\ args = [s \in Starts |-> None]
    /\ opened = [s \in Starts |-> {}] /\ left = [s \in Starts |-> {}]
    /\ disturbed = FALSE

Goto(s, next) == stage' = [stage EXCEPT ![s] = next]

-----------------------------------------------------------------------------

\* entry: the command line is parsed.
ParseArgv(s) ==
    /\ stage[s] = "new"
    /\ cliArgs' = [cliArgs EXCEPT ![s] = Parse(argv[s], FALSE)]
    /\ Goto(s, IF cliArgs'[s] = Refusal THEN "refused" ELSE "parsed")
    /\ UNCHANGED <<files, argv, env, config, args, opened, left, disturbed>>

\* Mutant of Create: a file that is there is opened, too.
CreateAnyway(s) ==
    /\ stage[s] = "parsed"
    /\ configFile' = <<>> /\ Goto(s, "created")
    /\ UNCHANGED <<crt, key, argv, env, cliArgs, config, args, opened, left, disturbed>>

\* Mutant of Create: an empty file is taken for none.
CreateIfEmpty(s) ==
    /\ stage[s] = "parsed"
    /\ \/ configFile \in {Missing, <<>>} /\ configFile' = <<>> /\ Goto(s, "created")
       \/ configFile \notin {Missing, <<>>} /\ Goto(s, "reading") /\ UNCHANGED configFile
    /\ UNCHANGED <<crt, key, argv, env, cliArgs, config, args, opened, left, disturbed>>

\* readConfigFile: the file is created unless it is there; writeFile creates it
\* before it writes.
Create(s) ==
    /\ stage[s] = "parsed"
    /\ \/ configFile = Missing /\ configFile' = <<>> /\ Goto(s, "created")
       \/ configFile # Missing /\ Goto(s, "reading") /\ UNCHANGED configFile
    /\ UNCHANGED <<crt, key, argv, env, cliArgs, config, args, opened, left, disturbed>>

\* The default config file is written.
WriteDefault(s) ==
    /\ stage[s] = "created"
    /\ configFile' = DefaultConfigFile(NewPassword(s))
    /\ Goto(s, "reading")
    /\ UNCHANGED <<crt, key, argv, env, cliArgs, config, args, opened, left, disturbed>>

\* The file is read and parsed, and setDefaults runs up to the certificate or to
\* its end. What is secret leaves the environment.
ReadConfig(s) ==
    /\ stage[s] = "reading"
    /\ config' = [config EXCEPT ![s] = configFile]
    /\ LET fromFile == ParseConfigFile(configFile)
           set == SetDefaults(cliArgs[s], fromFile, env[s])
       IN  \/ fromFile = Refusal /\ Goto(s, "refused") /\ UNCHANGED args
           \/ /\ fromFile # Refusal
              /\ args' = [args EXCEPT ![s] = set]
              /\ Goto(s, IF set.cert = "generated" THEN "checking" ELSE "set")
    /\ UNCHANGED <<files, argv, env, cliArgs, opened, left, disturbed>>

-----------------------------------------------------------------------------
(* generateCertificate                                                     *)

Writing(s) == stage[s] = "generating"

\* Mutant of CheckCertificate: only what is missing is written.
CheckEachFile(s) ==
    /\ stage[s] = "checking"
    /\ IF crt # Missing /\ key # Missing THEN Goto(s, "set") /\ UNCHANGED <<left, disturbed>>
       ELSE /\ Goto(s, "generating")
            /\ left' = [left EXCEPT ![s] = {"key"} \cup IF crt = Missing THEN {"crt"} ELSE {}]
            /\ disturbed' = (disturbed \/ \E t \in Starts : Writing(t))
    /\ UNCHANGED <<files, argv, env, cliArgs, config, args, opened>>

\* A pair is generated unless both files are there.
CheckCertificate(s) ==
    /\ stage[s] = "checking"
    /\ IF crt # Missing /\ key # Missing THEN Goto(s, "set") /\ UNCHANGED <<left, disturbed>>
       ELSE /\ Goto(s, "generating")
            /\ left' = [left EXCEPT ![s] = Pair]
            /\ disturbed' = (disturbed \/ \E t \in Starts : Writing(t))
    /\ UNCHANGED <<files, argv, env, cliArgs, config, args, opened>>

Put(f, content) ==
    /\ crt' = IF f = "crt" THEN content ELSE crt
    /\ key' = IF f = "key" THEN content ELSE key

\* Both files are written at once: each is truncated, then written.
OpenPem(s, f) ==
    /\ stage[s] = "generating" /\ f \in left[s] \ opened[s]
    /\ opened' = [opened EXCEPT ![s] = @ \cup {f}]
    /\ Put(f, Blank)
    /\ UNCHANGED <<configFile, argv, env, stage, cliArgs, config, args, left, disturbed>>

WritePem(s, f) ==
    /\ stage[s] = "generating" /\ f \in left[s] \cap opened[s]
    /\ left' = [left EXCEPT ![s] = @ \ {f}]
    /\ opened' = [opened EXCEPT ![s] = @ \ {f}]
    /\ Put(f, s)
    /\ Goto(s, IF left'[s] = {} THEN "set" ELSE "generating")
    /\ UNCHANGED <<configFile, argv, env, cliArgs, config, args, disturbed>>

-----------------------------------------------------------------------------

HasPassword(a) == a.password # None \/ a.hashedPassword # None

\* The rest of setDefaults and of entry, and runCodeServer in the child: help is
\* shown, or the server starts, which needs a password to ask for and a pair
\* that fits. The other ends of entry are as that of help.
Serve(s) ==
    /\ stage[s] = "set"
    /\ Goto(s, IF LimitRefused(env[s]) THEN "refused"
               ELSE IF args[s].help THEN "shown"
               ELSE IF /\ args[s].auth = "password" => HasPassword(args[s])
                       /\ args[s].cert = "generated" => crt = key /\ crt # Blank
                    THEN "serving" ELSE "refused")
    /\ UNCHANGED <<files, argv, env, cliArgs, config, args, opened, left, disturbed>>

\* The process dies, or an error of a file operation or of openssl ends it.
\* What it has not written stays as it is.
Die(s) ==
    /\ stage[s] \notin {"new", "refused", "shown", "died"}
    /\ Goto(s, "died")
    /\ disturbed' = (disturbed \/ Writing(s))
    /\ left' = [left EXCEPT ![s] = {}] /\ opened' = [opened EXCEPT ![s] = {}]
    /\ UNCHANGED <<files, argv, env, cliArgs, config, args>>

\* The service is started again, with the same command line and environment.
Again(s) ==
    /\ stage[s] \in {"refused", "died"}
    /\ Goto(s, "new")
    /\ cliArgs' = [cliArgs EXCEPT ![s] = None]
    /\ config' = [config EXCEPT ![s] = None] /\ args' = [args EXCEPT ![s] = None]
    /\ UNCHANGED <<files, argv, env, opened, left, disturbed>>

Next ==
    \E s \in Starts :
        \/ ParseArgv(s) \/ Create(s) \/ WriteDefault(s) \/ ReadConfig(s)
        \/ CheckCertificate(s)
        \/ \E f \in Pair : OpenPem(s, f) \/ WritePem(s, f)
        \/ Serve(s) \/ Die(s) \/ Again(s)

Spec == Init /\ [][Next]_vars

-----------------------------------------------------------------------------

\* An empty config file says nothing, like none.
SavedConfig(f) == IF f \in {Missing, <<>>} THEN None ELSE f

W == INSTANCE WriteOnce WITH
        Readers <- Starts,
        Default <- [s \in Starts |-> DefaultConfigFile(NewPassword(s))],
        Given <- Files,
        Nothing <- None,
        taken <- configFile # Missing,
        writers <- {s \in Starts : stage[s] = "created"},
        content <- SavedConfig(configFile),
        handed <- [s \in Starts |-> SavedConfig(config[s])]

\* The config file is written at most once, by one of the starts that found
\* none, and what a start has read is what it holds: no configuration that exists
\* is overwritten, and a file left empty by a death stays so (cli.ts:754-765).
ImplementsWriteOnce == W!Spec

\* Of what is on the command line each option keeps what it was last given,
\* lists keep all, words are words only where they are no values, and no secret
\* gets through (cli.ts:373-509).
ParsedAsGiven ==
    \A s \in Starts : stage[s] = "parsed" => IsParseOf(argv[s], cliArgs[s])

\* The address and all else come from the first of the sources that has it:
\* flags before variables before the file for the address, variables before
\* flags before the file for the idle limit, and secrets from a variable or
\* the file (cli.ts:552-712, 829-861).
SourcesRanked ==
    \A s \in Starts :
        stage[s] \in {"checking", "generating", "set", "serving"}
        => IsRanked(cliArgs[s], ParseConfigFile(config[s]), env[s], args[s])

\* Starts that find no config file agree on one, and so on its password
\* (cli.ts:757-760).
OneConfig ==
    \A s, t \in Starts :
        config[s] \in Generated /\ config[t] \in Generated => config[s] = config[t]

\* Once nobody writes, the certificate and the key are of one pair, unless two
\* starts generated at once or one died meanwhile (util.ts:89-132).
PairIsWhole ==
    ~disturbed /\ (\A s \in Starts : ~Writing(s))
    => crt = key \/ Missing \in {crt, key}
=============================================================================
