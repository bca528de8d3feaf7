----------------------------- MODULE UpdateCheck -----------------------------
(***************************************************************************)
(* The update check (src/src/node/update.ts) behind GET /update/check, as  *)
(* one of the writers of coder.json. The provider keeps the promise of the *)
(* check under way in this.update; a caller that comes meanwhile shares    *)
(* it. A check takes the stored update if it is not too old, and asks for  *)
(* the latest release and stores it otherwise. It never rejects.           *)
(***************************************************************************)
EXTENDS Settings

CONSTANTS
    Interval,     \* updateInterval, in days of the model
    NoOne,        \* no check is under way
    Unknown       \* the answer of a check that failed

ASSUME CheckAssumption ==
    /\ Interval \in Nat
    /\ NoOne \notin Callers /\ Unknown \notin Update \cup {NoUpdate}

VARIABLES
    now,        \* Date.now(), in days
    latest,     \* the version of the latest release
    latestOn,   \* history: the latest version when each day began
    update,     \* this.update: the caller that began the check under way
    waiting,    \* the callers that wait for it
    began,      \* when a caller began the check under way
    answer      \* what the last check resolved to, if none is under way

checkVars == <<now, latest, latestOn, update, waiting, began, answer>>
vars == <<settingsVars, checkVars>>

CheckStage == {"checking", "fetching"}

TypeOK ==
    /\ SettingsTypeOK
    /\ stage \in [Writers -> {"off", "reading"} \cup CheckStage \cup WriteStage]
    /\ now \in Day
    /\ latest \in Version
    /\ latestOn \in [Day -> Version]
    /\ update \in Callers \cup {NoOne}
    /\ waiting \in SUBSET Callers
    /\ began \in [Callers -> Day]
    /\ answer \in Update \cup {Unknown, NoUpdate}

Init ==
    /\ SettingsInit
    /\ now = 0
    /\ latest = 1
    /\ latestOn = [d \in Day |-> 1]
    /\ update = NoOne
    /\ waiting = {}
    /\ began = [c \in Callers |-> 0]
    /\ answer = NoUpdate

-----------------------------------------------------------------------------
(* UpdateProvider.                                                         *)

\* getUpdate(force): wait for the check under way, or begin one with the
\* settings, or with the release if forced.
GetUpdate(c) ==
    /\ stage[c] = "off" /\ c \notin waiting
    /\ waiting' = waiting \cup {c}
    /\ IF update = NoOne
       THEN /\ update' = c
            /\ answer' = NoUpdate
            /\ began' = [began EXCEPT ![c] = now]
            /\ \E s \in CheckStage : stage' = [stage EXCEPT ![c] = s]
       ELSE UNCHANGED <<stage, update, answer, began>>
    /\ UNCHANGED <<file, next, ours, met, disturbed, now, latest, latestOn>>

\* The check resolves: this.update is unset before those that wait go on.
Settle(c, result) ==
    /\ answer' = result
    /\ update' = NoOne
    /\ waiting' = {}
    /\ began' = [began EXCEPT ![c] = 0]

\* Mutant of TooOld: a stored update is never too old.
TooOldNever(c, stored) == stored = NoUpdate

\* Whether the check of c asks for the latest release.
TooOld(c, stored) == stored = NoUpdate \/ stored.checked + Interval < began[c]

\* The settings are there: their update is the answer if it is recent.
ReadStored(c) ==
    /\ stage[c] = "checking"
    /\ \E stored \in {settings.update : settings \in Readings} :
          IF TooOld(c, stored)
          THEN /\ stage' = [stage EXCEPT ![c] = "fetching"]
               /\ UNCHANGED <<update, waiting, began, answer>>
          ELSE /\ stage' = [stage EXCEPT ![c] = "off"]
               /\ Settle(c, stored)
    /\ UNCHANGED <<file, next, ours, met, disturbed, now, latest, latestOn>>

\* Mutant of Found: the update is as recent as the response.
FoundNow(c, version) == [checked |-> now, version |-> version]

\* The update that a response makes.
Found(c, version) == [checked |-> began[c], version |-> version]

\* The release server answered at some moment since the check began.
Responses(c) == {Found(c, version) : version \in latestOn[began[c]]..latest}

\* Mutant of Fetch: a request that fails rejects the check.
FetchRejects(c) ==
    /\ stage[c] = "fetching"
    /\ \/ /\ \E found \in Responses(c) : StartWrite(c, [Empty EXCEPT !.update = found])
          /\ UNCHANGED update
       \/ /\ stage' = [stage EXCEPT ![c] = "off"]
          /\ update' = NoOne
          /\ UNCHANGED <<next, ours, met, disturbed>>
    /\ UNCHANGED <<file, now, latest, latestOn, began, waiting, answer>>

\* The response is there and goes to the settings, or there is none (the
\* connection, the status, a redirect or the body fails): the answer is
\* "unknown" and nothing is stored.
Fetch(c) ==
    /\ stage[c] = "fetching"
    /\ \/ /\ \E found \in Responses(c) : StartWrite(c, [Empty EXCEPT !.update = found])
          /\ UNCHANGED <<update, waiting, began, answer>>
       \/ /\ stage' = [stage EXCEPT ![c] = "off"]
          /\ Settle(c, Unknown)
          /\ UNCHANGED <<next, ours, met, disturbed>>
    /\ UNCHANGED <<file, now, latest, latestOn>>

\* The write goes on; its end, stored or not, resolves the check.
Store(c) ==
    /\ WriteStep(c)
    /\ IF stage'[c] = "off" THEN Settle(c, next[c].update)
       ELSE UNCHANGED <<update, waiting, began, answer>>
    /\ UNCHANGED <<now, latest, latestOn>>

-----------------------------------------------------------------------------
(* Pages, the world, and the process.                                      *)

PageStep(p) ==
    /\ Load(p) \/ ReadLast(p) \/ WriteStep(p)
    /\ UNCHANGED checkVars

Tick ==
    /\ now + 1 \in Day
    /\ now' = now + 1
    /\ latestOn' = [latestOn EXCEPT ![now + 1] = latest]
    /\ UNCHANGED <<settingsVars, latest, update, waiting, began, answer>>

Release ==
    /\ latest + 1 \in Version
    /\ latest' = latest + 1
    /\ UNCHANGED <<settingsVars, now, latestOn, update, waiting, began, answer>>

\* The process dies and is started again: the promise and its callers are gone.
Restart ==
    /\ DropWriters
    /\ update' = NoOne
    /\ waiting' = {}
    /\ began' = [c \in Callers |-> 0]
    /\ answer' = NoUpdate
    /\ UNCHANGED <<now, latest, latestOn>>

CheckStep(c) == ReadStored(c) \/ Fetch(c) \/ Store(c)

Next ==
    \/ \E p \in Pages : PageStep(p)
    \/ \E c \in Callers : GetUpdate(c) \/ CheckStep(c)
    \/ Tick \/ Release \/ Restart

\* Every await of a check ends: the file operations do, and the request does
\* as long as the release server answers or its connection fails.
Spec == Init /\ [][Next]_vars /\ \A c \in Callers : WF_vars(CheckStep(c))

-----------------------------------------------------------------------------

\* "Don't run multiple requests at a time": at most one check is under way, it
\* is the one this.update names, and whoever waits, waits for one
\* (update.ts:41-49).
InCheck == {c \in Callers : stage[c] # "off"}
OneCheckAtATime ==
    /\ InCheck = (IF update = NoOne THEN {} ELSE {update})
    /\ waiting = {} <=> update = NoOne

(***************************************************************************)
(* An update the server stores or answers is not older than it says: the   *)
(* version is at least the one that was the latest when the day began on   *)
(* which it claims to have been checked. The settings may lose it or bring *)
(* back an older one, never mix two (update.ts:52-59, settings.ts:33-38).  *)
(***************************************************************************)
Honest(u) == u.checked <= now /\ latestOn[u.checked] <= u.version
Real(u) == u \notin {NoUpdate, Unknown}
UpdatesAreHonest ==
    /\ Real(Parsed(file).update) => Honest(Parsed(file).update)
    /\ Real(answer) => Honest(answer)

\* Nobody is answered an update that was too old when the check began:
\* whatever the writers did to the file, the version is at most one interval
\* behind (update.ts:52-59).
AnswersAreRecent ==
    [][waiting # {} /\ waiting' = {} /\ Real(answer')
       => began[update] <= answer'.checked + Interval]_vars

\* getUpdate never rejects and never hangs: whoever asks is answered, unless
\* the process dies first (update.ts:53-69).
Answered == \A c \in Callers : c \in waiting ~> c \notin waiting
=============================================================================
