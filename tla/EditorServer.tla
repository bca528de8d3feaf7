----------------------------- MODULE EditorServer -----------------------------
(***************************************************************************)
(* The editor's route (src/src/node/routes/vscode.ts): the server of the   *)
(* editor, loaded once for all requests that ask for it meanwhile, and the *)
(* key of POST /mint-key, drawn once and kept in a file.                   *)
(*                                                                         *)
(* A load is named after the request whose ensureVSCodeLoaded began it. A  *)
(* key is named after the process that drew it, which draws one at most.   *)
(* What the editor does with a request, and how it loads, is external.     *)
(***************************************************************************)
EXTENDS Naturals, FiniteSets

CONSTANTS
    Requests,         \* requests in progress at once, one to a connection
    None,             \* no load
    Absent, Blank,    \* the key's file does not exist, or is empty
    MaxBoots,         \* bound on the processes, one after the other
    Faults            \* operations on the key's file may fail

ASSUME RequestsAssumption == None \notin Requests /\ Faults \in BOOLEAN

Boots == 1..MaxBoots
Key == Boots \cup {Blank}

ASSUME KeyAssumption ==
    /\ MaxBoots \in Nat \ {0}
    /\ {Absent, Blank} \cap Boots = {} /\ Absent # Blank

VARIABLES
    boot,                  \* the process that runs, or the last one
    vscodeServer,          \* the load the server came from, or None
    vscodeServerPromise,   \* the load it stands for, or None
    load,                  \* how far the load begun by a request is
    stage,                 \* what the handler of a request is at
    awaits,                \* the load a waiting request awaits
    mint,                  \* mintKeyPromise: what it is at
    key,                   \* what it resolves to
    keyFile,               \* serve-web-key-half
    answered,              \* history: keys that browsers have been given
    fault                  \* history: an operation on the key's file failed

loadVars == <<vscodeServer, vscodeServerPromise, load, awaits>>
mintVars == <<mint, key, keyFile, fault>>
editorVars == <<boot, loadVars, stage, mintVars, answered>>

EditorTypeOK ==
    /\ boot \in Boots
    /\ vscodeServer \in Requests \cup {None}
    /\ vscodeServerPromise \in Requests \cup {None}
    /\ load \in [Requests -> {"none", "loading", "loaded", "failed"}]
    /\ stage \in [Requests -> {"none", "waiting", "handed", "keyed"}]
    /\ awaits \in [Requests -> Requests \cup {None}]
    /\ \A r \in Requests : stage[r] = "waiting" => awaits[r] # None
    /\ mint \in {"none", "reading", "creating", "writing", "minted"}
    /\ key \in Key
    /\ keyFile \in Key \cup {Absent}
    /\ answered \subseteq Key
    /\ fault \in BOOLEAN

\* The memory of a new process.
Fresh ==
    [vscodeServer |-> None, vscodeServerPromise |-> None,
     load |-> [r \in Requests |-> "none"], stage |-> [r \in Requests |-> "none"],
     awaits |-> [r \in Requests |-> None], mint |-> "none", key |-> Blank]

EditorInit ==
    /\ boot = 1
    /\ vscodeServer = Fresh.vscodeServer
    /\ vscodeServerPromise = Fresh.vscodeServerPromise
    /\ load = Fresh.load
    /\ stage = Fresh.stage
    /\ awaits = Fresh.awaits
    /\ mint = Fresh.mint
    /\ key = Fresh.key
    /\ keyFile = Absent
    /\ answered = {}
    /\ fault = FALSE

\* A new process: only the file of the key, and the browsers, remember.
EditorRestart ==
    /\ boot < MaxBoots
    /\ boot' = boot + 1
    /\ vscodeServer' = Fresh.vscodeServer
    /\ vscodeServerPromise' = Fresh.vscodeServerPromise
    /\ load' = Fresh.load
    /\ stage' = Fresh.stage
    /\ awaits' = Fresh.awaits
    /\ mint' = Fresh.mint
    /\ key' = Fresh.key
    /\ UNCHANGED <<keyFile, answered, fault>>

-----------------------------------------------------------------------------
(* ensureVSCodeLoaded and the handlers behind it.                          *)

\* The request goes on: handleRequest, or handleUpgrade with its socket.
Hand(r) == stage' = [stage EXCEPT ![r] = "handed"]

Await(r, l) ==
    /\ stage' = [stage EXCEPT ![r] = "waiting"]
    /\ awaits' = [awaits EXCEPT ![r] = l]

Load(r) ==
    /\ load' = [load EXCEPT ![r] = "loading"]
    /\ vscodeServerPromise' = r
    /\ Await(r, r)

\* Mutant of Ensure: the promise is not kept while it loads.
EnsureWithoutPromise(r) ==
    /\ stage[r] = "none"
    /\ IF vscodeServer # None
       THEN Hand(r) /\ UNCHANGED loadVars
       ELSE Load(r) /\ UNCHANGED vscodeServer
    /\ UNCHANGED <<boot, mintVars, answered>>

\* Mutant of Ensure: the promise is awaited before it is stored.
EnsureAwaitsOld(r) ==
    /\ stage[r] = "none"
    /\ IF vscodeServer # None
       THEN Hand(r) /\ UNCHANGED loadVars
       ELSE /\ Await(r, vscodeServerPromise)
            /\ IF vscodeServerPromise # None THEN UNCHANGED <<load, vscodeServerPromise>>
               ELSE vscodeServerPromise' = r /\ load' = [load EXCEPT ![r] = "loading"]
            /\ UNCHANGED vscodeServer
    /\ UNCHANGED <<boot, mintVars, answered>>

\* A request for the editor comes to ensureVSCodeLoaded.
Ensure(r) ==
    /\ stage[r] = "none"
    /\ IF vscodeServer # None
       THEN Hand(r) /\ UNCHANGED loadVars
       ELSE /\ IF vscodeServerPromise = None THEN Load(r)
               ELSE Await(r, vscodeServerPromise)
                    /\ UNCHANGED <<load, vscodeServerPromise>>
            /\ UNCHANGED vscodeServer
    /\ UNCHANGED <<boot, mintVars, answered>>

\* loadVSCode: the import and createServer succeed, or one of them fails.
LoadEnds(r) ==
    /\ load[r] = "loading"
    /\ \E end \in {"loaded", "failed"} : load' = [load EXCEPT ![r] = end]
    /\ UNCHANGED <<boot, vscodeServer, vscodeServerPromise, awaits, stage,
                   mintVars, answered>>

\* The requests whose await is over. They go on before any other event.
Resuming == {r \in Requests : stage[r] = "waiting"
                              /\ load[awaits[r]] \in {"loaded", "failed"}}

\* Mutant of Resume: a failed load is kept.
ResumeKeepsFailure(r) ==
    /\ r \in Resuming
    /\ IF load[awaits[r]] = "loaded"
       THEN vscodeServer' = awaits[r] /\ Hand(r)
       ELSE UNCHANGED vscodeServer /\ stage' = [stage EXCEPT ![r] = "none"]
    /\ awaits' = [awaits EXCEPT ![r] = None]
    /\ UNCHANGED <<boot, load, vscodeServerPromise, mintVars, answered>>

\* After the await: the request goes on, or the promise is unset so that the
\* next one can try again, and the error handler answers this one.
Resume(r) ==
    /\ r \in Resuming
    /\ IF load[awaits[r]] = "loaded"
       THEN /\ vscodeServer' = awaits[r]
            /\ Hand(r)
            /\ UNCHANGED vscodeServerPromise
       ELSE /\ vscodeServerPromise' = None
            /\ stage' = [stage EXCEPT ![r] = "none"]
            /\ UNCHANGED vscodeServer
    /\ awaits' = [awaits EXCEPT ![r] = None]
    /\ UNCHANGED <<boot, load, mintVars, answered>>

\* The editor is done with a request or a web socket.
EditorAnswers(r) ==
    /\ stage[r] = "handed"
    /\ stage' = [stage EXCEPT ![r] = "none"]
    /\ UNCHANGED <<boot, loadVars, mintVars, answered>>

-----------------------------------------------------------------------------
(* POST /mint-key.                                                         *)

MintKey(r) ==
    /\ stage[r] = "none"
    /\ stage' = [stage EXCEPT ![r] = "keyed"]
    /\ mint' = IF mint = "none" THEN "reading" ELSE mint
    /\ UNCHANGED <<boot, loadVars, key, keyFile, answered, fault>>

\* readFile: whatever the file holds is the key. If there is none, or it cannot
\* be read, a key is drawn.
ReadKey ==
    /\ mint = "reading"
    /\ \/ keyFile # Absent /\ mint' = "minted" /\ key' = keyFile /\ UNCHANGED fault
       \/ keyFile = Absent /\ mint' = "creating" /\ key' = boot /\ UNCHANGED fault
       \/ Faults /\ mint' = "creating" /\ key' = boot /\ fault' = TRUE
    /\ UNCHANGED <<boot, loadVars, stage, keyFile, answered>>

\* writeFile fails: that is logged, and the key is used.
WriteFails ==
    /\ Faults
    /\ mint \in {"creating", "writing"}
    /\ mint' = "minted"
    /\ fault' = TRUE
    /\ UNCHANGED <<boot, loadVars, stage, key, keyFile, answered>>

\* writeFile opens the file, which creates or truncates it, and writes it.
CreateKey ==
    /\ mint = "creating"
    /\ mint' = "writing"
    /\ keyFile' = Blank
    /\ UNCHANGED <<boot, loadVars, stage, key, answered, fault>>

\* Mutant of WriteKey: the promise is left unresolved.
WriteKeyForgets ==
    /\ mint = "writing"
    /\ keyFile' = key
    /\ UNCHANGED <<boot, loadVars, stage, mint, key, answered, fault>>

WriteKey ==
    /\ mint = "writing"
    /\ mint' = "minted"
    /\ keyFile' = key
    /\ UNCHANGED <<boot, loadVars, stage, key, answered, fault>>

\* Mutant of TakeKey: the promise resolves before the key is on the disk.
TakeKeyEarly(r) ==
    /\ stage[r] = "keyed"
    /\ mint \in {"creating", "writing", "minted"}
    /\ stage' = [stage EXCEPT ![r] = "none"]
    /\ answered' = answered \cup {key}
    /\ UNCHANGED <<boot, loadVars, mintVars>>

\* The promise is resolved and a request that awaits it is answered.
TakeKey(r) ==
    /\ stage[r] = "keyed"
    /\ mint = "minted"
    /\ stage' = [stage EXCEPT ![r] = "none"]
    /\ answered' = answered \cup {key}
    /\ UNCHANGED <<boot, loadVars, mintVars>>

-----------------------------------------------------------------------------

\* "To prevent loading the module more than once at a time": whatever requests
\* come in during a load and after one that failed, at most one load is under
\* way or has become the server (routes/vscode.ts:78-79).
OneLoadAtATime ==
    \A l, m \in Requests :
        {load[l], load[m]} \subseteq {"loading", "loaded"} => l = m

\* "Unset so we can try again": a request that has to wait waits for a load
\* that is under way, never for one that has already failed
\* (routes/vscode.ts:103).
WaitsForALoad ==
    \A r \in Requests :
        stage[r] # "waiting" /\ stage'[r] = "waiting" => load'[awaits'[r]] = "loading"

\* All browsers are given one and the same half of the key, by this process
\* and by those after it, wherever one of them died, unless a read or a write
\* of the file failed (routes/vscode.ts:212-238).
KeyStays == ~fault => \A k, l \in answered : k = l
=============================================================================
