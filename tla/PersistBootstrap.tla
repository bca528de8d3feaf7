-------------------------- MODULE PersistBootstrap --------------------------
(***************************************************************************)
(* The persistence bootstrap of the container (src/railway-entrypoint.sh): *)
(* at every boot it moves the listed items of the home directory onto the  *)
(* volume, once, and links them back. The home is on the container's       *)
(* ephemeral layer: a restart keeps it, a redeploy starts from the image.  *)
(* The boot may be cut short between any two commands.                     *)
(*                                                                         *)
(* An item is a directory or a file; its content is the set of pieces of   *)
(* user data in it (files of a directory, parts of a file), or NoItem when *)
(* it does not exist. What the image itself brings is not counted.         *)
(***************************************************************************)
EXTENDS Integers

CONSTANTS
    NumItems,     \* how many items the loop goes through
    Kind,         \* Kind[i]: "made" at boot, "dir" or "file"
    Pieces,       \* pieces of user data
    NoItem        \* the content of an item that does not exist

ASSUME ItemsAssumption ==
    /\ NumItems \in Nat
    /\ Kind \in [1..NumItems -> {"made", "dir", "file"}]
    /\ \A c \in SUBSET Pieces : c # NoItem

Items == 1..NumItems
Contents == SUBSET Pieces
Dirs == {i \in Items : Kind[i] # "file"}

VARIABLES
    home,     \* what $CLAUDER_HOME/item holds, if it is not a link
    link,     \* items whose $CLAUDER_HOME/item links to the volume
    vol,      \* what $PERSIST_ROOT/item holds
    at,       \* the item the loop is at
    step,     \* the command it is at; "down" before boot, "up" after it
    saved,    \* history: the user data saved in each item
    fault     \* history: a command has failed or a copy was cut short

vars == <<home, link, vol, at, step, saved, fault>>

Held(c) == IF c = NoItem THEN {} ELSE c

\* All user data of an item that is on a disk somewhere.
OnDisk(i) == Held(home[i]) \cup Held(vol[i])

TypeOK ==
    /\ home \in [Items -> Contents \cup {NoItem}]
    /\ link \in SUBSET Items
    /\ vol \in [Items -> Contents \cup {NoItem}]
    /\ at \in 1..(NumItems + 1)
    /\ step \in {"down", "check", "copy", "clear", "link", "up"}
    /\ saved \in [Items -> Contents]
    /\ fault \in BOOLEAN

\* First boot on an empty volume; the home may hold data already.
Init ==
    /\ home \in [Items -> Contents \cup {NoItem}]
    /\ link = {}
    /\ vol = [i \in Items |-> NoItem]
    /\ at = 1
    /\ step = "down"
    /\ saved = [i \in Items |-> Held(home[i])]
    /\ fault = FALSE

-----------------------------------------------------------------------------

\* The container starts: the directories that setup makes are there, and the
\* loop begins.
Boot ==
    /\ step = "down"
    /\ home' = [i \in Items |->
                  IF home[i] = NoItem /\ i \notin link /\ Kind[i] = "made"
                  THEN {} ELSE home[i]]
    /\ at' = 1
    /\ step' = "check"
    /\ UNCHANGED <<link, vol, saved, fault>>

\* continue, or the end of the loop's body.
NextItem ==
    /\ at' = at + 1
    /\ step' = "check"

\* [ -L "$src" ] && continue
SkipLinked ==
    /\ step = "check" /\ at \in link
    /\ NextItem
    /\ UNCHANGED <<home, link, vol, saved, fault>>

AtUnlinked == step = "check" /\ at \in Items \ link

\* The volume has the item: it wins.
VolumeWins ==
    /\ AtUnlinked
    /\ vol[at] # NoItem
    /\ step' = "clear"
    /\ UNCHANGED <<home, link, vol, at, saved, fault>>

\* Mutant of StartMove: the destination is made but nothing is moved.
StartMoveForgets ==
    /\ AtUnlinked
    /\ vol[at] = NoItem
    /\ home[at] # NoItem
    /\ vol' = [vol EXCEPT ![at] = {}]
    /\ step' = "clear"
    /\ UNCHANGED <<home, link, at, saved, fault>>

\* Only the home has it: mv creates the destination.
StartMove ==
    /\ AtUnlinked
    /\ vol[at] = NoItem
    /\ home[at] # NoItem
    /\ vol' = [vol EXCEPT ![at] = {}]
    /\ step' = "copy"
    /\ UNCHANGED <<home, link, at, saved, fault>>

\* Mutant of NothingYet: a directory is left for later too.
NothingYetSkips ==
    /\ AtUnlinked
    /\ vol[at] = NoItem
    /\ home[at] = NoItem
    /\ NextItem
    /\ UNCHANGED <<home, link, vol, saved, fault>>

\* Mutant of NothingYet: the link is made without its target.
NothingYetLinks ==
    /\ AtUnlinked
    /\ vol[at] = NoItem
    /\ home[at] = NoItem
    /\ step' = "clear"
    /\ UNCHANGED <<home, link, vol, at, saved, fault>>

\* Nobody has it: a file is left for later, a directory is made.
NothingYet ==
    /\ AtUnlinked
    /\ vol[at] = NoItem
    /\ home[at] = NoItem
    /\ \/ /\ Kind[at] = "file"
          /\ NextItem
          /\ UNCHANGED <<vol, fault>>
       \/ /\ Kind[at] # "file"
          /\ vol' = [vol EXCEPT ![at] = {}]
          /\ step' = "clear"
          /\ UNCHANGED <<at, fault>>
       \/ /\ Kind[at] # "file"
          /\ fault' = TRUE
          /\ NextItem
          /\ UNCHANGED vol
    /\ UNCHANGED <<home, link, saved>>

\* mv, across file systems, copies piece by piece.
CopyPiece ==
    /\ step = "copy"
    /\ \E p \in home[at] \ vol[at] : vol' = [vol EXCEPT ![at] = @ \cup {p}]
    /\ UNCHANGED <<home, link, at, step, saved, fault>>

\* The copy is complete and mv removes the source.
FinishMove ==
    /\ step = "copy"
    /\ home[at] \subseteq vol[at]
    /\ home' = [home EXCEPT ![at] = NoItem]
    /\ step' = "clear"
    /\ UNCHANGED <<link, vol, at, saved, fault>>

\* mv fails, at once or half-way: || continue.
MoveFails ==
    /\ \/ step = "copy"
       \/ AtUnlinked /\ vol[at] = NoItem /\ home[at] # NoItem
    /\ fault' = TRUE
    /\ NextItem
    /\ UNCHANGED <<home, link, vol, saved>>

\* rm -rf "$src" || true. When it fails, what is left stands in the way of the
\* link, which ln then puts inside it.
Clear ==
    /\ step = "clear"
    /\ \/ /\ home' = [home EXCEPT ![at] = NoItem]
          /\ step' = "link"
          /\ UNCHANGED <<at, fault>>
       \/ /\ fault' = TRUE
          /\ home[at] # NoItem
          /\ \E c \in SUBSET home[at] : home' = [home EXCEPT ![at] = c]
          /\ NextItem
    /\ UNCHANGED <<link, vol, saved>>

\* ln -sfn "$dst" "$src"
Link ==
    /\ step = "link"
    /\ \/ link' = link \cup {at} /\ UNCHANGED fault
       \/ fault' = TRUE /\ UNCHANGED link
    /\ NextItem
    /\ UNCHANGED <<home, vol, saved>>

\* The loop is done and code-server runs.
Up ==
    /\ step = "check"
    /\ at = NumItems + 1
    /\ step' = "up"
    /\ UNCHANGED <<home, link, vol, at, saved, fault>>

-----------------------------------------------------------------------------

\* The user saves a piece of data, through the link or in the home itself.
Save(i, p) ==
    /\ step = "up"
    /\ saved' = [saved EXCEPT ![i] = @ \cup {p}]
    /\ IF i \in link
       THEN vol' = [vol EXCEPT ![i] = @ \cup {p}] /\ UNCHANGED home
       ELSE home' = [home EXCEPT ![i] = Held(@) \cup {p}] /\ UNCHANGED vol
    /\ UNCHANGED <<link, at, step, fault>>

\* The container stops, at any point of the loop; within a copy it tears it.
Stops ==
    /\ step # "down"
    /\ fault' = (fault \/ step = "copy")
    /\ step' = "down"
    /\ at' = 1

\* It starts again with the same home.
Restart ==
    /\ Stops
    /\ UNCHANGED <<home, link, vol, saved>>

\* It is deployed anew: links and data in the home are gone.
Redeploy ==
    /\ Stops
    /\ link' = {}
    /\ home' = [i \in Items |-> NoItem]
    /\ UNCHANGED <<vol, saved>>

Next ==
    \/ Boot \/ SkipLinked \/ VolumeWins \/ StartMove \/ NothingYet
    \/ CopyPiece \/ FinishMove \/ MoveFails \/ Clear \/ Link \/ Up
    \/ Restart \/ Redeploy
    \/ \E i \in Items, p \in Pieces : Save(i, p)

Spec == Init /\ [][Next]_vars

-----------------------------------------------------------------------------

\* As long as no command has failed and no copy was cut short, every item is a
\* link when the server comes up, unless it is a file that neither the home nor
\* the volume had, wherever else earlier boots were cut short.
UpMeansLinked ==
    step = "up" /\ ~fault =>
        \A i \in Items : i \in link \/ (Kind[i] = "file" /\ vol[i] = NoItem)

\* Whatever failed, a link never dangles, and nothing hides behind it.
LinksAreSound ==
    \A i \in link : vol[i] # NoItem /\ home[i] = NoItem

\* The user data of each item stays on a disk.
NothingDisappears ==
    \A i \in Items : saved[i] \cap OnDisk(i) \subseteq OnDisk(i)'

\* As long as nothing has failed, boots, restarts and the user never make saved
\* data disappear: what a boot removes from the home is on the volume. Only a
\* redeploy may drop the home.
NothingSavedIsRemoved ==
    [][ ~Redeploy /\ ~fault => NothingDisappears ]_vars

\* "Move those paths onto the volume once and link them back, so a redeploy
\* keeps them": while the server runs, what has been saved in the items of S
\* and not been dropped by a redeploy is on the volume.
RedeployKeeps(S) ==
    step = "up" /\ ~fault =>
        \A i \in S : saved[i] \cap OnDisk(i) \subseteq Held(vol[i])

\* The directories keep the promise.
RedeployKeepsDirs == RedeployKeeps(Dirs)

\* Whatever fails, the volume is never emptied: an item on it only grows.
VolumeOnlyGrows ==
    [][ \A i \in Items : vol[i] # NoItem =>
            vol'[i] # NoItem /\ vol[i] \subseteq vol'[i] ]_vars
=============================================================================
