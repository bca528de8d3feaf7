------------------------------- MODULE Settings -------------------------------
(***************************************************************************)
(* coder.json (src/src/node/settings.ts) and the page loads that keep the  *)
(* last opened folder in it (routes/vscode.ts). SettingsProvider.write     *)
(* reads the file, merges and writes the whole of it back, with an await   *)
(* between the steps and no lock, so the writers of the process            *)
(* interleave; writeFile truncates first and writes from the start of the  *)
(* file after that.                                                        *)
(*                                                                         *)
(* A document is a record of the two keys the program stores. The JSON     *)
(* text of a document is the file being that record; the text is small     *)
(* enough for a read or a write of it to be one system call.               *)
(***************************************************************************)
EXTENDS Naturals

CONSTANTS
    Pages,        \* requests for "/" that may be in progress at once
    Callers,      \* requests for an update check, which write as well
    Folders,      \* folders a page may open
    None,         \* a key that is not there
    Absent, Blank, Torn,   \* contents of the file that are no document
    MaxDay,       \* bound on the days the wall clock shows
    MaxVersion,   \* bound on the versions released
    IgnoreLast,   \* --ignore-last-opened
    CliEntry,     \* a folder is named on the command line
    Faults        \* file operations may fail and the process may die

ASSUME ArgsAssumption ==
    /\ IgnoreLast \in BOOLEAN /\ CliEntry \in BOOLEAN /\ Faults \in BOOLEAN

Writers == Pages \cup Callers

\* The query key: that of a page without a folder, or of one with it.
Query == Folders \cup {"bare"}
\* The update key: when the check began and the version it found.
Day == 0..MaxDay
Version == 1..MaxVersion
Update == [checked : Day, version : Version]
NoUpdate == [checked |-> 0, version |-> 0]

Doc == [query : Query \cup {None}, update : Update \cup {NoUpdate}]
Empty == [query |-> None, update |-> NoUpdate]

(***************************************************************************)
(* The file is a whole document or it cannot be read as one: it does not   *)
(* exist, it is empty, or the end of a longer document follows a shorter   *)
(* one. The last is never valid JSON, a document ends with its only        *)
(* unmatched brace.                                                        *)
(***************************************************************************)
Content == Doc \cup {Absent, Blank, Torn}

ASSUME DistinctAssumption ==
    /\ None \notin Query
    /\ Pages \cap Callers = {}
    /\ MaxDay \in Nat /\ MaxVersion \in Nat \ {0}
    /\ {Absent, Blank, Torn} \cap Doc = {}
    /\ Absent # Blank /\ Absent # Torn /\ Blank # Torn

VARIABLES
    file,       \* what coder.json holds
    stage,      \* how far a request is
    next,       \* nextSettings; before the merge, the settings to write
    ours,       \* history: the last value written of each key, undisturbed
    met,        \* history: writers whose last write met another or failed
    disturbed   \* history: some write met another, some operation failed

settingsVars == <<file, stage, next, ours, met, disturbed>>

WriteStage == {"merging", "opening", "putting"}

SettingsTypeOK ==
    /\ file \in Content
    /\ \A p \in Pages : stage[p] \in {"off", "reading"} \cup WriteStage
    /\ next \in [Writers -> Doc]
    /\ ours \in Doc
    /\ met \in SUBSET Writers
    /\ disturbed \in BOOLEAN

SettingsInit ==
    /\ file = Absent
    /\ stage = [w \in Writers |-> "off"]
    /\ next = [w \in Writers |-> Empty]
    /\ ours = Empty
    /\ met = {}
    /\ disturbed = FALSE

InWrite == {w \in Writers : stage[w] \in WriteStage}

-----------------------------------------------------------------------------
(* SettingsProvider.                                                       *)

\* What read() makes of a file: whatever is no document reads as no settings.
Parsed(content) == IF content \in Doc THEN content ELSE Empty

\* What a read() may return now. One that fails is one of the faults.
Readings == {Parsed(file)} \cup (IF Faults THEN {Empty} ELSE {})

\* Mutant of Merge: the new settings replace the old.
MergeReplaces(old, new) == new

\* { ...oldSettings, ...settings }
Merge(old, new) ==
    [query |-> IF new.query # None THEN new.query ELSE old.query,
     update |-> IF new.update # NoUpdate THEN new.update ELSE old.update]

\* The histories end with the first disturbance.
Disturb == disturbed' = TRUE /\ ours' = Empty

\* write(partial) is called.
StartWrite(w, partial) ==
    /\ stage' = [stage EXCEPT ![w] = "merging"]
    /\ next' = [next EXCEPT ![w] = partial]
    /\ IF InWrite = {}
       THEN met' = {} /\ UNCHANGED <<ours, disturbed>>
       ELSE met' = InWrite \cup {w} /\ Disturb

\* Mutant of ReadAndMerge: a file that cannot be parsed ends the write.
ReadAndMergeStrict(w) ==
    /\ stage[w] = "merging"
    /\ \E old \in Readings :
          /\ next' = [next EXCEPT ![w] = Merge(old, @)]
          /\ IF old = Parsed(file) THEN UNCHANGED <<ours, disturbed>> ELSE Disturb
    /\ stage' = [stage EXCEPT ![w] = IF file \in {Blank, Torn} THEN "off"
                                     ELSE "opening"]
    /\ UNCHANGED <<file, met>>

\* write() reads the current settings and merges its own into them.
ReadAndMerge(w) ==
    /\ stage[w] = "merging"
    /\ \E old \in Readings :
          /\ next' = [next EXCEPT ![w] = Merge(old, @)]
          /\ IF old = Parsed(file) THEN UNCHANGED <<ours, disturbed>> ELSE Disturb
    /\ stage' = [stage EXCEPT ![w] = "opening"]
    /\ UNCHANGED <<file, met>>

\* write() resolves.
End(w) ==
    /\ stage' = [stage EXCEPT ![w] = "off"]
    /\ next' = [next EXCEPT ![w] = Empty]

\* The operation under way fails: write() logs that and resolves.
Fails(w) ==
    /\ Faults
    /\ End(w)
    /\ met' = met \cup {w}
    /\ Disturb

\* writeFile opens the file, which empties it.
Open(w) ==
    /\ stage[w] = "opening"
    /\ \/ /\ file' = Blank
          /\ stage' = [stage EXCEPT ![w] = "putting"]
          /\ UNCHANGED <<next, ours, met, disturbed>>
       \/ Fails(w) /\ UNCHANGED file

\* What the file may hold once doc is written over it from its start: the end
\* of what another writer put there since may be left.
Overlaid(doc) == IF file \in {Blank, doc} THEN {doc} ELSE {doc, Torn}

\* The settings a writer was called with are in the text it writes.
Written(w) ==
    IF w \in Pages THEN [ours EXCEPT !.query = next[w].query]
                   ELSE [ours EXCEPT !.update = next[w].update]

\* writeFile writes the text and closes the file; it may run out of space
\* before the first byte or after it.
Put(w) ==
    /\ stage[w] = "putting"
    /\ \/ /\ file' \in Overlaid(next[w])
          /\ End(w)
          /\ IF disturbed THEN UNCHANGED ours ELSE ours' = Written(w)
          /\ UNCHANGED <<met, disturbed>>
       \/ Fails(w) /\ file' \in {file, Torn}

WriteStep(w) == ReadAndMerge(w) \/ Open(w) \/ Put(w)

-----------------------------------------------------------------------------
(* The handler of "/".                                                     *)

\* A page is loaded. One that opens a folder, or that closes the last, stores
\* its query; any other asks for the last one first.
Load(p) ==
    /\ stage[p] = "off"
    /\ \/ \E query \in Query : StartWrite(p, [Empty EXCEPT !.query = query])
       \/ /\ stage' = [stage EXCEPT ![p] = "reading"]
          /\ UNCHANGED <<next, ours, met, disturbed>>
    /\ UNCHANGED file

\* The last settings are there: the page is sent to the last folder or to that
\* of the command line, or it stores its own bare query.
ReadLast(p) ==
    /\ stage[p] = "reading"
    /\ \E settings \in Readings :
          IF (settings.query \in Folders /\ ~IgnoreLast) \/ CliEntry
          THEN /\ stage' = [stage EXCEPT ![p] = "off"]
               /\ UNCHANGED <<next, ours, met, disturbed>>
          ELSE StartWrite(p, [Empty EXCEPT !.query = "bare"])
    /\ UNCHANGED file

\* The process dies between two steps and is started again.
DropWriters ==
    /\ Faults
    /\ stage' = [w \in Writers |-> "off"]
    /\ next' = [w \in Writers |-> Empty]
    /\ met' = InWrite
    /\ IF InWrite = {} THEN UNCHANGED <<ours, disturbed>> ELSE Disturb
    /\ UNCHANGED file

-----------------------------------------------------------------------------

\* As long as no two writes met, no operation failed and the process did not
\* die in a write, a write keeps what the others wrote: unless it is just
\* empty, the file has the last value of each key (settings.ts:33-38).
AloneMergeKeeps ==
    ~disturbed /\ (\A w \in Writers : stage[w] # "putting")
        => Parsed(file) = ours

\* Whatever the file held, a write that met no other and did not fail leaves
\* one whole document with its own key in it: a file that two writers or a
\* crash damaged does not stay damaged (settings.ts:17-26, 37).
WriteRepairs ==
    [][\A w \in Writers :
          w \in InWrite /\ w \notin InWrite' /\ w \notin met'
          => /\ file' \in Doc
             /\ IF w \in Pages THEN file'.query # None
                ELSE file'.update # NoUpdate]_settingsVars
=============================================================================
