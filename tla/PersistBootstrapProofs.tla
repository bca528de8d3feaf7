----------------------- MODULE PersistBootstrapProofs -----------------------
(***************************************************************************)
(* Proofs about PersistBootstrap, for any list of items and any data: its  *)
(* types, that links are sound and that the volume only grows whatever     *)
(* fails; and, as long as no command has failed and no copy was torn, that *)
(* nothing saved is removed, wherever else a boot is cut short.            *)
(***************************************************************************)
EXTENDS PersistBootstrap, TLAPS

\* Where the loop is and what the item it works on looks like there.
LoopState ==
    /\ step \in {"copy", "clear", "link"} => at \in Items \ link /\ vol[at] # NoItem
    /\ step = "copy" => home[at] # NoItem
    /\ step = "link" => home[at] = NoItem

IndInv == TypeOK /\ LoopState /\ LinksAreSound

LEMMA InitIndInv == Init => IndInv
<1> SUFFICES ASSUME Init PROVE IndInv
    OBVIOUS
<1>1. TypeOK
    <2>1. \A i \in Items : Held(home[i]) \in Contents
        BY DEF Init, Held, Contents
    <2>2. fault \in BOOLEAN
        BY DEF Init
    <2>3. at \in 1..(NumItems + 1)
        BY ItemsAssumption DEF Init
    <2> QED
        BY <2>1, <2>2, <2>3 DEF Init, TypeOK
<1>2. LoopState /\ LinksAreSound
    BY DEF Init, LoopState, LinksAreSound
<1> QED
    BY <1>1, <1>2 DEF IndInv

LEMMA IndInvStep == IndInv /\ [Next]_vars => IndInv'
<1> SUFFICES ASSUME IndInv, [Next]_vars PROVE IndInv'
    OBVIOUS
<1> USE ItemsAssumption DEF IndInv, TypeOK, LoopState, LinksAreSound, Contents
<1>1. ASSUME NEW i \in Items PROVE i \in 1..(NumItems + 1) /\ i + 1 \in 1..(NumItems + 1)
    BY DEF Items
<1>2. 1 \in 1..(NumItems + 1)
    OBVIOUS
<1>3. AtUnlinked => at \in Items \ link
    BY DEF AtUnlinked
<1>4. CASE Boot
    BY <1>2, <1>4 DEF Boot
<1>5. CASE SkipLinked
    BY <1>1, <1>5 DEF SkipLinked, NextItem
<1>6. CASE VolumeWins
    BY <1>3, <1>6 DEF VolumeWins
<1>7. CASE StartMove
    BY <1>3, <1>7 DEF StartMove
<1>8. CASE NothingYet
    BY <1>1, <1>3, <1>8 DEF NothingYet, NextItem
<1>9. CASE CopyPiece
    BY <1>9 DEF CopyPiece
<1>10. CASE FinishMove
    BY <1>10 DEF FinishMove
<1>11. CASE MoveFails
    BY <1>1, <1>11 DEF MoveFails, NextItem, AtUnlinked
<1>12. CASE Clear
    <2>1. step = "clear" /\ at \in Items \ link /\ vol[at] # NoItem
        BY <1>12 DEF Clear
    <2>2. home' \in [Items -> Contents \cup {NoItem}]
        <3>1. home[at] \in SUBSET Pieces \/ home[at] = NoItem
            BY <2>1
        <3>2. CASE home' = [home EXCEPT ![at] = NoItem]
            BY <3>2
        <3>3. ASSUME home[at] # NoItem, NEW c \in SUBSET home[at],
                     home' = [home EXCEPT ![at] = c]
              PROVE  home' \in [Items -> Contents \cup {NoItem}]
            <4>1. c \in SUBSET Pieces
                BY <3>1, <3>3
            <4> QED
                BY <3>3, <4>1
        <3> QED
            BY <1>12, <3>2, <3>3 DEF Clear
    <2>3. \A i \in link : home'[i] = home[i]
        BY <1>12, <2>1 DEF Clear
    <2>4. fault' \in BOOLEAN /\ step' \in {"link", "check"} /\ at' \in 1..(NumItems + 1)
        BY <1>1, <1>12, <2>1 DEF Clear, NextItem
    <2>5. step' = "link" => at' = at /\ home'[at] = NoItem
        BY <1>12, <2>1 DEF Clear, NextItem
    <2> QED
        BY <1>12, <2>1, <2>2, <2>3, <2>4, <2>5 DEF Clear
<1>13. CASE Link
    BY <1>1, <1>13 DEF Link, NextItem
<1>14. CASE Up
    BY <1>14 DEF Up
<1>15. CASE Restart
    BY <1>2, <1>15 DEF Restart, Stops
<1>16. CASE Redeploy
    BY <1>2, <1>16 DEF Redeploy, Stops
<1>17. ASSUME NEW i \in Items, NEW p \in Pieces, Save(i, p) PROVE IndInv'
    BY <1>17 DEF Save, Held
<1>18. CASE UNCHANGED vars
    BY <1>18 DEF vars
<1> QED
    BY <1>4, <1>5, <1>6, <1>7, <1>8, <1>9, <1>10, <1>11, <1>12, <1>13, <1>14,
       <1>15, <1>16, <1>17, <1>18 DEF Next

LEMMA Invariance == Spec => []IndInv
BY InitIndInv, IndInvStep, PTL DEF Spec

\* Every variable of the bootstrap keeps its type.
THEOREM TypeCorrect == Spec => []TypeOK
BY Invariance, PTL DEF IndInv

\* Whatever fails and wherever a boot is cut short, a link never dangles and
\* hides nothing.
THEOREM LinksAreSoundTheorem == Spec => []LinksAreSound
BY Invariance, PTL DEF IndInv

\* Whatever fails, no boot and no user takes anything off the volume.
THEOREM VolumeOnlyGrowsTheorem == Spec => VolumeOnlyGrows
<1>1. IndInv /\ [Next]_vars =>
        [ \A i \in Items : vol[i] # NoItem =>
            vol'[i] # NoItem /\ vol[i] \subseteq vol'[i] ]_vars
    <2> SUFFICES ASSUME IndInv, Next, NEW i \in Items, vol[i] # NoItem
                 PROVE  vol'[i] # NoItem /\ vol[i] \subseteq vol'[i]
        OBVIOUS
    <2> USE ItemsAssumption DEF IndInv, TypeOK, LoopState, LinksAreSound, Contents
    <2>1. CASE StartMove \/ NothingYet
        BY <2>1 DEF StartMove, NothingYet
    <2>2. CASE CopyPiece
        BY <2>2 DEF CopyPiece
    <2>3. ASSUME NEW j \in Items, NEW p \in Pieces, Save(j, p)
          PROVE  vol'[i] # NoItem /\ vol[i] \subseteq vol'[i]
        BY <2>3 DEF Save
    <2>4. CASE UNCHANGED vol
        BY <2>4
    <2> QED
        BY <2>1, <2>2, <2>3, <2>4
           DEF Next, Boot, SkipLinked, VolumeWins, FinishMove, MoveFails, Clear,
               Link, Up, Restart, Redeploy
<1> QED
    BY <1>1, Invariance, PTL DEF Spec, VolumeOnlyGrows

-----------------------------------------------------------------------------
(* As long as no command has failed and no copy was torn.                  *)

\* What the home holds of the user's is on the volume, except for an item that
\* the volume does not have yet or is just being given; the items the loop has
\* passed are linked, but for files that nobody had.
Seeded ==
    /\ \A i \in Items :
          vol[i] # NoItem /\ ~(step = "copy" /\ at = i)
            => saved[i] \cap Held(home[i]) \subseteq vol[i]
    /\ step # "down" =>
          \A i \in Items : i < at => i \in link \/ (Kind[i] = "file" /\ vol[i] = NoItem)
    /\ step = "up" => at = NumItems + 1

LEMMA SeededStep ==
    ASSUME IndInv, ~fault => Seeded, [Next]_vars
    PROVE  ~fault' => Seeded'
<1> SUFFICES ASSUME ~fault' PROVE Seeded'
    OBVIOUS
<1>0. Seeded
    <2>1. fault \in BOOLEAN /\ (fault' = fault \/ fault' = TRUE \/ fault' = (fault \/ step = "copy"))
        BY DEF IndInv, TypeOK, Next, vars, Boot, SkipLinked, VolumeWins, StartMove,
               NothingYet, CopyPiece, FinishMove, MoveFails, Clear, Link, Up,
               Restart, Redeploy, Stops, Save
    <2> QED
        BY <2>1
<1> USE ItemsAssumption DEF IndInv, TypeOK, LoopState, LinksAreSound, Contents,
        Seeded, Held
<1>1. CASE Boot
    BY <1>0, <1>1 DEF Boot, Items
<1>2. CASE SkipLinked
    BY <1>0, <1>2 DEF SkipLinked, NextItem, Items
<1>3. CASE VolumeWins
    BY <1>0, <1>3 DEF VolumeWins, AtUnlinked
<1>4. CASE StartMove
    BY <1>0, <1>4 DEF StartMove, AtUnlinked
<1>5. CASE NothingYet
    BY <1>0, <1>5 DEF NothingYet, AtUnlinked, NextItem, Items
<1>6. CASE CopyPiece
    BY <1>0, <1>6 DEF CopyPiece
<1>7. CASE FinishMove
    BY <1>0, <1>7 DEF FinishMove
<1>8. CASE MoveFails
    BY <1>0, <1>8 DEF MoveFails
<1>9. CASE Clear
    BY <1>0, <1>9 DEF Clear
<1>10. CASE Link
    BY <1>0, <1>10 DEF Link, NextItem, Items
<1>11. CASE Up
    BY <1>0, <1>11 DEF Up
<1>12. CASE Restart \/ Redeploy
    BY <1>0, <1>12 DEF Restart, Redeploy, Stops
<1>13. ASSUME NEW i \in Items, NEW p \in Pieces, Save(i, p) PROVE Seeded'
    <2>1. i < at
        BY <1>0, <1>13 DEF Save, Items
    <2>2. CASE i \in link
        BY <1>0, <1>13, <2>2 DEF Save
    <2>3. CASE i \notin link
        BY <1>0, <1>13, <2>1, <2>3 DEF Save
    <2> QED
        BY <2>2, <2>3
<1>14. CASE UNCHANGED vars
    BY <1>0, <1>14 DEF vars
<1> QED
    BY <1>0, <1>1, <1>2, <1>3, <1>4, <1>5, <1>6, <1>7, <1>8, <1>9, <1>10, <1>11,
       <1>12, <1>13, <1>14 DEF Next

LEMMA SeededInvariance == Spec => [](IndInv /\ (~fault => Seeded))
<1>1. Init => (~fault => Seeded)
    BY DEF Init, Seeded
<1>2. IndInv /\ (~fault => Seeded) /\ [Next]_vars => (~fault => Seeded)'
    BY SeededStep
<1> QED
    BY <1>1, <1>2, Invariance, PTL DEF Spec

\* Until a command fails, a server that comes up has every item linked but the
\* files that nobody had.
THEOREM UpMeansLinkedTheorem == Spec => []UpMeansLinked
<1>1. IndInv /\ (~fault => Seeded) => UpMeansLinked
    BY ItemsAssumption DEF IndInv, TypeOK, Seeded, UpMeansLinked, Items
<1> QED
    BY <1>1, SeededInvariance, PTL

\* Until a command fails, what is saved in a directory survives a redeploy.
THEOREM RedeployKeepsDirsTheorem == Spec => []RedeployKeepsDirs
<1>1. IndInv /\ (~fault => Seeded) => RedeployKeepsDirs
    <2> SUFFICES ASSUME IndInv, Seeded, step = "up", NEW i \in Dirs
                 PROVE  saved[i] \cap OnDisk(i) \subseteq Held(vol[i])
        BY DEF RedeployKeepsDirs, RedeployKeeps
    <2>1. i \in link
        BY ItemsAssumption DEF Seeded, Dirs, Items
    <2> QED
        BY <2>1 DEF IndInv, LinksAreSound, OnDisk, Held
<1> QED
    BY <1>1, SeededInvariance, PTL

\* Until a command fails or a copy is torn, nothing but a redeploy makes saved
\* data disappear, wherever else boots are cut short.
THEOREM NothingSavedIsRemovedTheorem == Spec => NothingSavedIsRemoved
<1>1. IndInv /\ (~fault => Seeded) /\ [Next]_vars =>
        [ ~Redeploy /\ ~fault => NothingDisappears ]_vars
    <2> SUFFICES ASSUME IndInv, Seeded, Next, ~Redeploy, NEW i \in Items
                 PROVE  saved[i] \cap OnDisk(i) \subseteq OnDisk(i)'
        BY DEF NothingDisappears
    <2> USE ItemsAssumption DEF IndInv, TypeOK, LoopState, LinksAreSound,
            Contents, OnDisk, Held
    <2>1. CASE Boot
        BY <2>1 DEF Boot
    <2>2. CASE StartMove \/ NothingYet
        BY <2>2 DEF StartMove, NothingYet
    <2>3. CASE CopyPiece
        BY <2>3 DEF CopyPiece
    <2>4. CASE FinishMove
        BY <2>4 DEF FinishMove
    <2>5. CASE Clear
        BY <2>5 DEF Clear, Seeded
    <2>6. ASSUME NEW j \in Items, NEW p \in Pieces, Save(j, p)
          PROVE  saved[i] \cap OnDisk(i) \subseteq OnDisk(i)'
        BY <2>6 DEF Save
    <2>7. CASE UNCHANGED <<home, vol>>
        BY <2>7
    <2> QED
        BY <2>1, <2>2, <2>3, <2>4, <2>5, <2>6, <2>7
           DEF Next, SkipLinked, VolumeWins, MoveFails, Link, Up, Restart
<1> QED
    BY <1>1, SeededInvariance, PTL DEF Spec, NothingSavedIsRemoved
=============================================================================
