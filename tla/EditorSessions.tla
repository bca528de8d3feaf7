---------------------------- MODULE EditorSessions ----------------------------
(***************************************************************************)
(* The registry of open editors (src/src/node/vscodeSocket.ts), the        *)
(* servers that hold one each behind the same session socket (app.ts), and *)
(* the launcher that looks a file up in it to open the file in an editor   *)
(* that is there already (cli.ts, main.ts).                                *)
(*                                                                         *)
(* Editors are extension hosts: each has a socket of its own with a name   *)
(* that is never used again, registers it once, and takes it back when it  *)
(* is terminated but not when it is killed. Look-ups wait for a connection *)
(* attempt to one candidate after the other, so registrations, ends of     *)
(* editors and other look-ups come in between. Servers of the same user    *)
(* share the path of the session socket: a second one takes it over, as    *)
(* does the child of a hot-swap.                                           *)
(***************************************************************************)
EXTENDS Lists

CONSTANTS
    Editors, Launchers, Servers,
    Paths,        \* files a launcher may be given
    NoFolder,     \* what is in a workspace that is not there
    Nobody        \* no server, no editor

ASSUME NamesAssumption ==
    /\ Nobody \notin Servers \cup Editors
    /\ NoFolder \notin Paths

\* The files below the folders of a workspace. An editor that has no folder
\* open registers without a workspace.
NoWorkspace == {NoFolder}
Workspaces == SUBSET Paths \cup {NoWorkspace}

VARIABLES
    editor,      \* what an editor's socket does
    workspace,   \* the workspace an editor registers
    posts,       \* add-session and delete-session requests under way
    server,      \* the state of a session server
    bound,       \* the server whose socket is at the path of the session socket
    entries,     \* EditorSessionManager.entries, in the order of insertion
    launcher,    \* how far a launcher is
    wants,       \* the file of a launcher, and whether it may start a server
    asked,       \* the server a look-up runs in
    candidates,  \* the candidates of a look-up still to be tried, in order
    reached,     \* what the connection attempt to the first of them found
    found,       \* the editor a look-up answered
    seen         \* history: the entries a look-up began with

editorVars == <<editor, workspace>>
serverVars == <<server, bound, entries>>
lookupVars == <<asked, candidates, reached, found, seen>>
sessionsVars == <<editorVars, posts, serverVars, launcher, wants, lookupVars>>

\* The requests an editor sends, to the server that the path led to then.
Post == [type : {"add", "delete"}, editor : Editors, to : Servers]

LaunchStages == {"idle", "asking", "looking", "answered", "opened", "lost", "failed", "spawned"}
Want == [file : Paths, maySpawn : BOOLEAN]

SessionsTypeOK ==
    /\ editor \in [Editors -> {"new", "open", "ending", "closed"}]
    /\ workspace \in [Editors -> Workspaces]
    /\ posts \in SUBSET Post
    /\ server \in [Servers -> {"off", "binding", "up", "mute", "down"}]
    /\ bound \in {s \in Servers : server[s] \in {"up", "down"}} \cup {Nobody}
    /\ entries \in [Servers -> Seq(Editors)]
    /\ launcher \in [Launchers -> LaunchStages]
    /\ wants \in [Launchers -> Want]
    /\ asked \in [Launchers -> Servers \cup {Nobody}]
    /\ candidates \in [Launchers -> Seq(Editors)]
    /\ reached \in [Launchers -> {"unknown", "up", "down"}]
    /\ found \in [Launchers -> Editors \cup {Nobody}]
    /\ seen \in [Launchers -> Seq(Editors)]

SessionsInit ==
    /\ editor = [e \in Editors |-> "new"]
    /\ workspace \in [Editors -> Workspaces]
    /\ posts = {}
    /\ server = [s \in Servers |-> "off"]
    /\ bound = Nobody
    /\ entries = [s \in Servers |-> <<>>]
    /\ launcher = [l \in Launchers |-> "idle"]
    /\ wants \in [Launchers -> Want]
    /\ asked = [l \in Launchers |-> Nobody]
    /\ candidates = [l \in Launchers |-> <<>>]
    /\ reached = [l \in Launchers |-> "unknown"]
    /\ found = [l \in Launchers |-> Nobody]
    /\ seen = [l \in Launchers |-> <<>>]

-----------------------------------------------------------------------------
(* EditorSessionManager.                                                   *)

\* addSession: a map keeps the place of a key it has already.
Added(map, e) == IF e \in ToSet(map) THEN map ELSE Append(map, e)

\* deleteSession
Deleted(map, e) == Selected(map, Editors \ {e})

\* checkMatch, of a workspace that has folders.
Matches(e, file) == file \in workspace[e]
Matching(file) == {e \in Editors : Matches(e, file)}

\* Mutant of Candidates: the first registered comes first.
CandidatesOldestFirst(map, file) ==
    Selected(map, Matching(file)) \o Selected(map, Editors \ Matching(file))

\* getCandidatesForFile: matches first, and the most recently registered first
\* among those that match and those that do not.
Candidates(map, file) ==
    LET newest == Reverse(map)
    IN  Selected(newest, Matching(file)) \o Selected(newest, Editors \ Matching(file))

\* The comparison of two entries or more reads the folders of every workspace,
\* and throws at one that has none.
Throws(map) == Len(map) > 1 /\ \E e \in ToSet(map) : workspace[e] = NoWorkspace

\* canConnect to the socket of an editor.
Accepts(e) == editor[e] \in {"open", "ending"}

-----------------------------------------------------------------------------
(* The launcher: shouldOpenInExistingInstance and openInExistingInstance.  *)

\* A server can be reached through the session socket.
Listening == bound \in Servers /\ server[bound] = "up"

\* A launcher asks the session server, after a connection attempt if it may as
\* well start a server of its own.
Launch(l) ==
    /\ launcher[l] = "idle"
    /\ launcher' = [launcher EXCEPT ![l] =
                       IF wants[l].maySpawn /\ ~Listening THEN "spawned" ELSE "asking"]
    /\ UNCHANGED <<editorVars, posts, serverVars, wants, lookupVars>>

\* The look-up starts: GET /session takes a snapshot of the entries. It fails
\* if nobody listens or the comparison throws.
Lookup(l) ==
    /\ launcher[l] = "asking"
    /\ IF Listening /\ ~Throws(entries[bound])
       THEN /\ launcher' = [launcher EXCEPT ![l] = "looking"]
            /\ asked' = [asked EXCEPT ![l] = bound]
            /\ candidates' = [candidates EXCEPT ![l] =
                                 Candidates(entries[bound], wants[l].file)]
            /\ seen' = [seen EXCEPT ![l] = entries[bound]]
       ELSE /\ launcher' = [launcher EXCEPT ![l] = "failed"]
            /\ UNCHANGED <<asked, candidates, seen>>
    /\ UNCHANGED <<editorVars, posts, serverVars, wants, reached, found>>

\* The connection attempt to the first candidate succeeds or fails.
Connect(l) ==
    /\ launcher[l] = "looking"
    /\ candidates[l] # <<>>
    /\ reached[l] = "unknown"
    /\ reached' = [reached EXCEPT ![l] = IF Accepts(Head(candidates[l])) THEN "up" ELSE "down"]
    /\ UNCHANGED <<editorVars, posts, serverVars, launcher, wants, asked,
                   candidates, found, seen>>

\* Mutant of Resume: the rest of the candidates is dropped with the dead one.
ResumeDropsAll(l) ==
    /\ launcher[l] = "looking"
    /\ reached[l] = "down"
    /\ reached' = [reached EXCEPT ![l] = "unknown"]
    /\ candidates' = [candidates EXCEPT ![l] = Tail(@)]
    /\ entries' = [entries EXCEPT ![asked[l]] = <<>>]
    /\ UNCHANGED <<editorVars, posts, server, bound, launcher, wants, asked, found, seen>>

\* The look-up goes on after the attempt: a candidate that took the connection
\* is the answer, any other is deleted.
Resume(l) ==
    /\ launcher[l] = "looking"
    /\ \/ /\ reached[l] = "up"
          /\ launcher' = [launcher EXCEPT ![l] = "answered"]
          /\ found' = [found EXCEPT ![l] = Head(candidates[l])]
          /\ UNCHANGED <<candidates, entries>>
       \/ /\ reached[l] = "down"
          /\ entries' = [entries EXCEPT ![asked[l]] = Deleted(@, Head(candidates[l]))]
          /\ candidates' = [candidates EXCEPT ![l] = Tail(@)]
          /\ UNCHANGED <<launcher, found>>
    /\ reached' = [reached EXCEPT ![l] = "unknown"]
    /\ UNCHANGED <<editorVars, posts, server, bound, wants, asked, seen>>

\* No candidate is left: the answer is none.
NoneLeft(l) ==
    /\ launcher[l] = "looking"
    /\ candidates[l] = <<>>
    /\ launcher' = [launcher EXCEPT ![l] = "answered"]
    /\ UNCHANGED <<editorVars, posts, serverVars, wants, lookupVars>>

\* The launch ends and the look-up is forgotten.
Forget(l) ==
    /\ asked' = [asked EXCEPT ![l] = Nobody]
    /\ candidates' = [candidates EXCEPT ![l] = <<>>]
    /\ reached' = [reached EXCEPT ![l] = "unknown"]
    /\ found' = [found EXCEPT ![l] = Nobody]
    /\ seen' = [seen EXCEPT ![l] = <<>>]

\* The server of a look-up stops before it has answered.
LookupLost(l) ==
    /\ launcher[l] = "looking"
    /\ server[asked[l]] = "down"
    /\ launcher' = [launcher EXCEPT ![l] = "failed"]
    /\ Forget(l)
    /\ UNCHANGED <<editorVars, posts, serverVars, wants>>

\* Where a launch ends that got an answer: the file is sent to the editor, an
\* error of which is only logged; or, without an editor, a server is started
\* unless the launcher was told to use an existing one.
Outcome(l) ==
    IF found[l] # Nobody THEN IF Accepts(found[l]) THEN "opened" ELSE "lost"
    ELSE IF wants[l].maySpawn THEN "spawned" ELSE "failed"

TakeAnswer(l) ==
    /\ launcher[l] = "answered"
    /\ launcher' = [launcher EXCEPT ![l] = Outcome(l)]
    /\ Forget(l)
    /\ UNCHANGED <<editorVars, posts, serverVars, wants>>

-----------------------------------------------------------------------------
(* Servers.                                                                *)

\* listen removes whatever is at the path ...
Unlink(s) ==
    /\ server[s] = "off"
    /\ server' = [server EXCEPT ![s] = "binding"]
    /\ bound' = Nobody
    /\ UNCHANGED <<editorVars, posts, entries, launcher, wants, lookupVars>>

\* ... and binds it, or warns that it could not if another did meanwhile.
Bind(s) ==
    /\ server[s] = "binding"
    /\ IF bound = Nobody
       THEN server' = [server EXCEPT ![s] = "up"] /\ bound' = s
       ELSE server' = [server EXCEPT ![s] = "mute"] /\ UNCHANGED bound
    /\ UNCHANGED <<editorVars, posts, entries, launcher, wants, lookupVars>>

\* The process of a server ends. One that closes its socket removes the path,
\* whose socket that is by then; one that is killed leaves it behind.
Stop(s) ==
    /\ server[s] \in {"up", "mute"}
    /\ server' = [server EXCEPT ![s] = "down"]
    /\ \/ server[s] = "up" /\ bound' = Nobody
       \/ UNCHANGED bound
    /\ UNCHANGED <<editorVars, posts, entries, launcher, wants, lookupVars>>

\* A request of an editor is handled, or lost with its server.
Handle(post) ==
    /\ posts' = posts \ {post}
    /\ entries' = IF server[post.to] # "up" THEN entries
                  ELSE [entries EXCEPT ![post.to] =
                           IF post.type = "add" THEN Added(@, post.editor)
                           ELSE Deleted(@, post.editor)]
    /\ UNCHANGED <<editorVars, server, bound, launcher, wants, lookupVars>>

-----------------------------------------------------------------------------
(* Editors.                                                                *)

Sent(type, e) == IF Listening THEN {[type |-> type, editor |-> e, to |-> bound]}
                 ELSE {}

OpenEditor(e) ==
    /\ editor[e] = "new"
    /\ editor' = [editor EXCEPT ![e] = "open"]
    /\ posts' = posts \cup Sent("add", e)
    /\ UNCHANGED <<workspace, serverVars, launcher, wants, lookupVars>>

\* The extension host is terminated and says so while it still listens.
Terminate(e) ==
    /\ editor[e] = "open"
    /\ editor' = [editor EXCEPT ![e] = "ending"]
    /\ posts' = posts \cup Sent("delete", e)
    /\ UNCHANGED <<workspace, serverVars, launcher, wants, lookupVars>>

\* Its process ends, after that or on its own.
CloseEditor(e) ==
    /\ Accepts(e)
    /\ editor' = [editor EXCEPT ![e] = "closed"]
    /\ UNCHANGED <<workspace, posts, serverVars, launcher, wants, lookupVars>>

SessionsNext ==
    \/ \E l \in Launchers :
          \/ Launch(l) \/ Lookup(l) \/ Connect(l) \/ Resume(l) \/ NoneLeft(l)
          \/ LookupLost(l) \/ TakeAnswer(l)
    \/ \E s \in Servers : Unlink(s) \/ Bind(s) \/ Stop(s)
    \/ \E post \in posts : Handle(post)
    \/ \E e \in Editors : OpenEditor(e) \/ Terminate(e) \/ CloseEditor(e)

SessionsSpec == SessionsInit /\ [][SessionsNext]_sessionsVars

-----------------------------------------------------------------------------

\* Whether a look-up of l should rather answer e than f, of those it saw: one
\* that matches the file, and the later registered of two that both do or both
\* do not (vscodeSocket.ts:94-120).
Position(map, e) == CHOOSE i \in DOMAIN map : map[i] = e
Better(l, e, f) ==
    IF Matches(e, wants[l].file) <=> Matches(f, wants[l].file)
    THEN Position(seen[l], e) > Position(seen[l], f)
    ELSE Matches(e, wants[l].file)

\* An editor that is closed and that the look-up's server has no longer.
Gone(l, e) == editor[e] = "closed" /\ e \notin ToSet(entries[asked[l]])

(***************************************************************************)
(* "Returns the best socket path that we can connect to. We also delete    *)
(* any sockets that we can't connect to" (vscodeSocket.ts:127-145): every  *)
(* editor the look-up saw that is better than its answer, or every one if  *)
(* it answered none, has closed and is no longer registered there, with    *)
(* editors, servers and other look-ups doing what they may meanwhile.      *)
(***************************************************************************)
BestAnswer ==
    \A l \in Launchers :
        launcher[l] = "answered"
        => \A e \in ToSet(seen[l]) :
              (found[l] # Nobody => Better(l, e, found[l])) => Gone(l, e)

\* A look-up never takes away the registration of an editor that is open: an
\* entry goes only when its editor is ending or closed (vscodeSocket.ts:135-141).
OpenStaysRegistered ==
    [][\A s \in Servers : \A e \in ToSet(entries[s]) :
          e \notin ToSet(entries'[s]) => editor[e] \in {"ending", "closed"}]_sessionsVars
=============================================================================
