-------------------------- MODULE UpdateCheckProofs --------------------------
(***************************************************************************)
(* Proofs about UpdateCheck with Settings, for any number of page loads    *)
(* and callers, any bounds and with any operation failing: the types, that *)
(* one check runs at a time, that updates are honest and answers recent,   *)
(* that a write alone repairs the file and, undisturbed, loses nothing.    *)
(***************************************************************************)
EXTENDS UpdateCheck, TLAPS

USE DEF Writers

\* A writer's settings have its own key, and a check's update its own day.
Keys ==
    /\ \A p \in Pages \cap InWrite : next[p].query # None
    /\ \A c \in Callers \cap InWrite : next[c].update # NoUpdate
                                       /\ next[c].update.checked = began[c]

\* A writer that met no other is alone, and so is any before a disturbance;
\* one that is alone finds the file as it emptied it.
Solo ==
    /\ \A w \in InWrite \ met : InWrite = {w}
    /\ ~disturbed => met = {}
    /\ \A w \in InWrite \ met : stage[w] = "putting" => file = Blank

\* The updates that may end up in the file or in an answer are honest.
HonestOrNone(u) == u = NoUpdate \/ Honest(u)
AllHonest ==
    /\ HonestOrNone(Parsed(file).update)
    /\ \A w \in Writers : HonestOrNone(next[w].update)
    /\ answer # Unknown => HonestOrNone(answer)
    /\ \A c \in Callers : began[c] <= now

\* Without a disturbance a writer past its merge has the last value of the key
\* that is not its own, one before it has none.
Kept ==
    ~disturbed =>
        /\ (\A w \in Writers : stage[w] # "putting") => Parsed(file) = ours
        /\ \A w \in InWrite :
              LET other == IF stage[w] = "merging" THEN Empty ELSE ours
              IN  IF w \in Pages THEN next[w].update = other.update
                                 ELSE next[w].query = other.query

IndInv == TypeOK /\ OneCheckAtATime /\ Keys /\ Solo /\ AllHonest /\ Kept

-----------------------------------------------------------------------------
(* What the operators of the model return.                                 *)

LEMMA EmptyType == Empty \in Doc /\ NoUpdate \in Update \cup {NoUpdate}
BY DEF Empty, Doc

LEMMA ParsedType == ASSUME NEW content PROVE Parsed(content) \in Doc
BY EmptyType DEF Parsed

LEMMA ReadingsType == Readings \subseteq Doc
BY ParsedType, EmptyType DEF Readings

LEMMA MergeType ==
    ASSUME NEW old \in Doc, NEW new \in Doc
    PROVE  /\ Merge(old, new) \in Doc
           /\ new.query # None => Merge(old, new).query = new.query
           /\ new.query = None => Merge(old, new).query = old.query
           /\ new.update # NoUpdate => Merge(old, new).update = new.update
           /\ new.update = NoUpdate => Merge(old, new).update = old.update
BY DEF Merge, Doc

\* An honest update stays so: time passes, and the past does not change.
LEMMA HonestStays ==
    ASSUME TypeOK, NEW u \in Update, Honest(u),
           \/ UNCHANGED <<now, latestOn>>
           \/ Tick
    PROVE  Honest(u)'
<1>1. u.checked \in Day /\ u.version \in Version
    BY DEF Update
<1>2. CASE UNCHANGED <<now, latestOn>>
    BY <1>2 DEF Honest
<1>3. CASE Tick
    BY <1>1, <1>3, DistinctAssumption, SMTT(30) DEF Tick, Honest, TypeOK, Day, Version
<1> QED
    BY <1>2, <1>3

-----------------------------------------------------------------------------
(* One lemma for each kind of step of a write.                             *)

LEMMA InitIndInv == Init => IndInv
<1> SUFFICES ASSUME Init PROVE IndInv
    OBVIOUS
<1> USE DistinctAssumption, CheckAssumption DEF Init, SettingsInit
<1>1. InWrite = {} /\ InCheck = {} /\ Parsed(file) = Empty
    BY DEF InWrite, WriteStage, InCheck, Parsed
<1>2. TypeOK
    <2>1. 0 \in Day /\ 1 \in Version
        BY DEF Day, Version
    <2>2. SettingsTypeOK
        BY EmptyType DEF SettingsTypeOK, Content
    <2> QED
        BY <2>1, <2>2, EmptyType DEF TypeOK
<1>3. OneCheckAtATime
    BY <1>1 DEF OneCheckAtATime
<1>4. Keys /\ Solo
    BY <1>1 DEF Keys, Solo
<1>5. AllHonest
    BY <1>1 DEF AllHonest, HonestOrNone, Empty, Day
<1>6. Kept
    BY <1>1 DEF Kept
<1> QED
    BY <1>2, <1>3, <1>4, <1>5, <1>6 DEF IndInv

StageType == {"off", "reading"} \cup CheckStage \cup WriteStage

\* The parts of IndInv that a step of a write or its start can disturb.
WriteInv ==
    /\ SettingsTypeOK /\ stage \in [Writers -> StageType]
    /\ Keys /\ Solo /\ Kept
    /\ HonestOrNone(Parsed(file).update)
    /\ \A w \in Writers : HonestOrNone(next[w].update)

LEMMA IndInvWrites == IndInv => WriteInv
BY DEF IndInv, WriteInv, TypeOK, StageType, AllHonest

\* A write that starts.
LEMMA StartInv ==
    ASSUME IndInv, NEW w \in Writers, NEW partial \in Doc,
           stage[w] \notin WriteStage,
           IF w \in Pages THEN partial.query # None /\ partial.update = NoUpdate
           ELSE /\ partial.query = None /\ partial.update # NoUpdate
                /\ partial.update.checked = began[w],
           HonestOrNone(partial.update),
           StartWrite(w, partial), UNCHANGED <<file, now, latestOn, began>>
    PROVE  WriteInv'
<1> USE IndInvWrites DEF WriteInv
<1>1. /\ stage' = [stage EXCEPT ![w] = "merging"]
      /\ next' = [next EXCEPT ![w] = partial]
      /\ next'[w] = partial /\ stage'[w] = "merging"
      /\ \A v \in Writers : v # w => next'[v] = next[v] /\ stage'[v] = stage[v]
    BY DEF StartWrite, SettingsTypeOK
<1>2. InWrite' = InWrite \cup {w} /\ w \notin InWrite
    BY <1>1 DEF InWrite, WriteStage
<1>3. \/ InWrite = {} /\ met' = {} /\ UNCHANGED <<ours, disturbed>>
      \/ InWrite # {} /\ met' = InWrite \cup {w} /\ disturbed' = TRUE /\ ours' = Empty
    BY DEF StartWrite, Disturb
<1>4. SettingsTypeOK'
    <2>1. next' \in [Writers -> Doc]
        BY <1>1 DEF SettingsTypeOK
    <2>2. ours' \in Doc /\ met' \in SUBSET Writers /\ disturbed' \in BOOLEAN
        BY <1>3, EmptyType DEF SettingsTypeOK, InWrite
    <2>3. \A p \in Pages : stage'[p] \in {"off", "reading"} \cup WriteStage
        BY <1>1 DEF SettingsTypeOK, WriteStage
    <2> QED
        BY <2>1, <2>2, <2>3 DEF SettingsTypeOK
<1>5. stage' \in [Writers -> StageType]
    BY <1>1 DEF StageType, WriteStage
<1>6. Keys'
    BY <1>1, <1>2, DistinctAssumption DEF Keys
<1>7. Solo'
    BY <1>1, <1>2, <1>3 DEF Solo
<1>8. Kept'
    <2> SUFFICES ASSUME ~disturbed' PROVE Kept'
        BY DEF Kept
    <2>1. InWrite = {} /\ InWrite' = {w} /\ UNCHANGED <<ours, disturbed>>
        BY <1>2, <1>3
    <2>2. \A v \in Writers : stage[v] # "putting"
        BY <2>1 DEF InWrite, WriteStage
    <2>3. Parsed(file)' = ours'
        BY <2>1, <2>2 DEF Kept, Parsed
    <2> QED
        BY <1>1, <2>1, <2>3, DistinctAssumption DEF Kept, Empty
<1>9. HonestOrNone(Parsed(file).update)'
    BY DEF HonestOrNone, Honest, Parsed
<1>10. \A v \in Writers : HonestOrNone(next[v].update)'
    BY <1>1 DEF HonestOrNone, Honest
<1> QED
    BY <1>4, <1>5, <1>6, <1>7, <1>8, <1>9, <1>10

\* A write that has read the file.
LEMMA MergeInv ==
    ASSUME IndInv, NEW w \in Writers, ReadAndMerge(w),
           UNCHANGED <<now, latestOn, began>>
    PROVE  WriteInv'
<1> USE IndInvWrites DEF WriteInv
<1>1. PICK old \in Readings :
          /\ next' = [next EXCEPT ![w] = Merge(old, @)]
          /\ \/ old = Parsed(file) /\ UNCHANGED <<ours, disturbed>>
             \/ disturbed' = TRUE /\ ours' = Empty
    BY DEF ReadAndMerge, Disturb
<1>2. old \in Doc /\ next[w] \in Doc
    BY ReadingsType DEF SettingsTypeOK
<1>3. /\ stage' = [stage EXCEPT ![w] = "opening"]
      /\ next'[w] = Merge(old, next[w]) /\ stage'[w] = "opening" /\ stage[w] = "merging"
      /\ \A v \in Writers : v # w => next'[v] = next[v] /\ stage'[v] = stage[v]
      /\ UNCHANGED <<file, met>>
    BY <1>1 DEF ReadAndMerge, SettingsTypeOK
<1>4. InWrite' = InWrite /\ w \in InWrite
    BY <1>3 DEF InWrite, WriteStage
<1>5. next'[w] \in Doc
      /\ (w \in Pages => next'[w].query = next[w].query)
      /\ (w \notin Pages => next'[w].update = next[w].update)
    <2>1. w \in Pages => next[w].query # None
        BY <1>4 DEF Keys
    <2>2. w \notin Pages => next[w].update # NoUpdate
        BY <1>4 DEF Keys
    <2> QED
        BY <1>2, <1>3, <2>1, <2>2, MergeType
<1>6. SettingsTypeOK'
    <2>1. next' \in [Writers -> Doc]
        BY <1>1, <1>3, <1>5 DEF SettingsTypeOK
    <2>2. \A p \in Pages : stage'[p] \in {"off", "reading"} \cup WriteStage
        BY <1>3 DEF SettingsTypeOK, WriteStage
    <2>3. ours' \in Doc /\ disturbed' \in BOOLEAN
        BY <1>1, EmptyType DEF SettingsTypeOK
    <2> QED
        BY <1>3, <2>1, <2>2, <2>3 DEF SettingsTypeOK
<1>7. stage' \in [Writers -> StageType]
    BY <1>3 DEF StageType, WriteStage
<1>8. Keys'
    BY <1>3, <1>4, <1>5, DistinctAssumption DEF Keys
<1>9. Solo'
    BY <1>1, <1>3, <1>4 DEF Solo
<1>10. Kept'
    <2> SUFFICES ASSUME ~disturbed' PROVE Kept'
        BY DEF Kept
    <2>1. old = Parsed(file) /\ UNCHANGED <<ours, disturbed>>
        BY <1>1
    <2>2. InWrite = {w}
        BY <1>4, <2>1 DEF Solo
    <2>3. \A v \in Writers : stage[v] # "putting" /\ stage'[v] # "putting"
        BY <1>3, <2>2 DEF InWrite, WriteStage
    <2>4. Parsed(file) = ours /\ Parsed(file)' = ours'
        BY <1>3, <2>1, <2>3 DEF Kept, Parsed
    <2>5. IF w \in Pages THEN next[w].update = NoUpdate ELSE next[w].query = None
        BY <1>3, <1>4, <2>1 DEF Kept, Empty
    <2>6. IF w \in Pages THEN next'[w].update = ours.update
                          ELSE next'[w].query = ours.query
        BY <1>2, <1>3, <2>1, <2>4, <2>5, MergeType
    <2> QED
        BY <1>3, <1>4, <2>1, <2>2, <2>4, <2>6 DEF Kept
<1>11. HonestOrNone(Parsed(file).update)'
    BY <1>3 DEF HonestOrNone, Honest, Parsed
<1>12. \A v \in Writers : HonestOrNone(next[v].update)'
    <2>1. HonestOrNone(old.update)
        BY DEF Readings, Empty, HonestOrNone
    <2>2. next'[w].update \in {old.update, next[w].update}
        BY <1>2, <1>3, MergeType
    <2> QED
        BY <1>3, <2>1, <2>2 DEF HonestOrNone, Honest
<1> QED
    BY <1>6, <1>7, <1>8, <1>9, <1>10, <1>11, <1>12

\* A write that has emptied the file.
LEMMA OpenInv ==
    ASSUME IndInv, NEW w \in Writers, stage[w] = "opening", file' = Blank,
           stage' = [stage EXCEPT ![w] = "putting"],
           UNCHANGED <<next, ours, met, disturbed, now, latestOn, began>>
    PROVE  WriteInv'
<1> USE IndInvWrites DEF WriteInv
<1>1. /\ stage'[w] = "putting"
      /\ \A v \in Writers : v # w => stage'[v] = stage[v]
    OBVIOUS
<1>2. InWrite' = InWrite /\ w \in InWrite
    BY <1>1 DEF InWrite, WriteStage
<1>3. SettingsTypeOK'
    BY <1>1 DEF SettingsTypeOK, WriteStage, Content
<1>4. stage' \in [Writers -> StageType]
    BY DEF StageType, WriteStage
<1>5. Keys' /\ Solo'
    BY <1>1, <1>2 DEF Keys, Solo
<1>6. Kept'
    <2>1. \A v \in Writers : (stage'[v] = "merging") = (stage[v] = "merging")
        BY <1>1
    <2> QED
        BY <1>1, <1>2, <2>1 DEF Kept
<1>7. Parsed(file)' = Empty
    BY DistinctAssumption DEF Parsed
<1>8. HonestOrNone(Parsed(file).update)'
    BY <1>7 DEF HonestOrNone, Empty
<1>9. \A v \in Writers : HonestOrNone(next[v].update)'
    BY DEF HonestOrNone, Honest
<1> QED
    BY <1>3, <1>4, <1>5, <1>6, <1>8, <1>9

\* What an end of a write does to the writers, and to the day its check began.
Ends(w) ==
    /\ End(w)
    /\ began' \in [Callers -> Day]
    /\ \A c \in Callers : c # w => began'[c] = began[c]

LEMMA EndInv ==
    ASSUME IndInv, NEW w \in Writers, Ends(w), UNCHANGED <<now, latestOn>>
    PROVE  /\ InWrite' = InWrite \ {w}
           /\ next' \in [Writers -> Doc]
           /\ stage' \in [Writers -> StageType]
           /\ \A p \in Pages : stage'[p] \in {"off", "reading"} \cup WriteStage
           /\ \A v \in Writers : v # w => stage'[v] = stage[v] /\ next'[v] = next[v]
           /\ Keys'
           /\ \A v \in Writers : HonestOrNone(next[v].update)'
<1> USE IndInvWrites DEF WriteInv, Ends, End
<1>1. /\ stage'[w] = "off" /\ next'[w] = Empty
      /\ \A v \in Writers : v # w => stage'[v] = stage[v] /\ next'[v] = next[v]
    BY DEF SettingsTypeOK
<1>2. InWrite' = InWrite \ {w}
    BY <1>1 DEF InWrite, WriteStage
<1>3. next' \in [Writers -> Doc]
    BY EmptyType DEF SettingsTypeOK
<1>4. stage' \in [Writers -> StageType]
    BY DEF StageType
<1>5. \A p \in Pages : stage'[p] \in {"off", "reading"} \cup WriteStage
    BY <1>1 DEF SettingsTypeOK
<1>6. Keys'
    BY <1>1, <1>2 DEF Keys
<1>7. \A v \in Writers : HonestOrNone(next[v].update)'
    BY <1>1 DEF HonestOrNone, Honest, Empty
<1> QED
    BY <1>1, <1>2, <1>3, <1>4, <1>5, <1>6, <1>7

\* A write that fails.
LEMMA FailInv ==
    ASSUME IndInv, NEW w \in InWrite, Fails(w), Ends(w), UNCHANGED <<now, latestOn>>,
           file' \in {file, Torn}
    PROVE  WriteInv'
<1> USE IndInvWrites DEF WriteInv
<1>0. w \in Writers
    BY DEF InWrite
<1>1. met' = met \cup {w} /\ disturbed' = TRUE /\ ours' = Empty
    BY DEF Fails, Disturb
<1>2. SettingsTypeOK'
    <2>1. file' \in Content /\ met' \in SUBSET Writers
        BY <1>0, <1>1 DEF SettingsTypeOK, Content
    <2> QED
        BY <1>0, <1>1, <2>1, EndInv, EmptyType DEF SettingsTypeOK
<1>3. Solo'
    <2> SUFFICES ASSUME NEW v \in InWrite', v \notin met'
                 PROVE  InWrite' = {v} /\ (stage'[v] = "putting" => file' = Blank)
        BY <1>1 DEF Solo
    <2>1. v \in InWrite \ met /\ v # w
        BY <1>0, <1>1, EndInv
    <2>2. InWrite = {v} /\ w \notin InWrite /\ stage'[v] = stage[v]
        BY <1>0, <2>1, EndInv DEF Solo, InWrite
    <2> QED
        BY <2>2
<1>4. Kept'
    BY <1>1 DEF Kept
<1>5. HonestOrNone(Parsed(file).update)'
    <2>1. CASE file' = file
        BY <2>1 DEF HonestOrNone, Honest, Parsed
    <2>2. CASE file' = Torn
        BY <2>2, DistinctAssumption DEF HonestOrNone, Parsed, Empty
    <2> QED
        BY <2>1, <2>2
<1> QED
    BY <1>0, <1>2, <1>3, <1>4, <1>5, EndInv

\* A write that is done.
LEMMA PutInv ==
    ASSUME IndInv, NEW w \in Writers, stage[w] = "putting", Ends(w),
           file' \in Overlaid(next[w]), IF disturbed THEN UNCHANGED ours ELSE ours' = Written(w),
           UNCHANGED <<met, disturbed, now, latestOn>>
    PROVE  WriteInv' /\ (w \notin met => file' = next[w])
<1> USE IndInvWrites DEF WriteInv
<1>1. w \in InWrite /\ next[w] \in Doc
    BY DEF InWrite, WriteStage, SettingsTypeOK
<1>2. w \notin met => InWrite = {w} /\ file = Blank
    BY <1>1 DEF Solo
<1>3. w \notin met => file' = next[w]
    BY <1>2 DEF Overlaid
<1>4. file' \in {next[w], Torn}
    BY DEF Overlaid
<1>5. SettingsTypeOK'
    <2>1. file' \in Content
        BY <1>1, <1>4 DEF Content
    <2>2. ours' \in Doc
        BY <1>1 DEF SettingsTypeOK, Written, Doc
    <2> QED
        BY <2>1, <2>2, EndInv DEF SettingsTypeOK
<1>6. Solo'
    <2>1. \A v \in InWrite' : v \in InWrite /\ v # w /\ InWrite # {v}
        BY <1>1, EndInv
    <2> QED
        BY <2>1 DEF Solo
<1>7. Kept'
    <2> SUFFICES ASSUME ~disturbed PROVE Kept'
        BY DEF Kept
    <2>1. InWrite = {w} /\ file' = next[w] /\ ours' = Written(w) /\ InWrite' = {}
        BY <1>1, <1>2, <1>3, EndInv DEF Solo
    <2>2. next[w] = Written(w)
        BY <1>1, <2>1 DEF Kept, Written, Doc, SettingsTypeOK
    <2>3. Parsed(file)' = ours'
        BY <1>1, <2>1, <2>2 DEF Parsed
    <2> QED
        BY <2>1, <2>3 DEF Kept
<1>8. HonestOrNone(Parsed(file).update)'
    <2>1. CASE file' = next[w]
        BY <1>1, <2>1 DEF HonestOrNone, Honest, Parsed
    <2>2. CASE file' = Torn
        BY <2>2, DistinctAssumption DEF HonestOrNone, Parsed, Empty
    <2> QED
        BY <1>4, <2>1, <2>2
<1> QED
    BY <1>3, <1>5, <1>6, <1>7, <1>8, EndInv

\* Any step of a write.
LEMMA WriteStepInv ==
    ASSUME IndInv, NEW w \in Writers, WriteStep(w), UNCHANGED <<now, latestOn>>,
           IF stage'[w] = "off"
           THEN /\ began' \in [Callers -> Day]
                /\ \A c \in Callers : c # w => began'[c] = began[c]
           ELSE UNCHANGED began
    PROVE  /\ WriteInv'
           /\ stage[w] \in WriteStage /\ stage'[w] \in WriteStage \cup {"off"}
           /\ \A v \in Writers : v # w => stage'[v] = stage[v]
<1>1. stage \in [Writers -> StageType]
    BY IndInvWrites DEF WriteInv
<1>2. CASE ReadAndMerge(w)
    <2>1. stage' = [stage EXCEPT ![w] = "opening"] /\ stage[w] = "merging"
        BY <1>2 DEF ReadAndMerge
    <2>2. UNCHANGED began
        BY <1>1, <2>1
    <2> QED
        BY <1>1, <1>2, <2>1, <2>2, MergeInv DEF WriteStage
<1>3. ASSUME stage[w] \in {"opening", "putting"}, Fails(w), file' \in {file, Torn}
      PROVE  /\ WriteInv' /\ stage'[w] = "off"
             /\ \A v \in Writers : v # w => stage'[v] = stage[v]
    <2>1. stage' = [stage EXCEPT ![w] = "off"] /\ End(w)
        BY <1>3 DEF Fails, End
    <2>2. Ends(w) /\ w \in InWrite
        BY <1>1, <1>3, <2>1 DEF Ends, InWrite, WriteStage
    <2> QED
        BY <1>1, <1>3, <2>1, <2>2, FailInv
<1>4. CASE Open(w)
    <2>1. CASE Fails(w) /\ UNCHANGED file
        BY <1>3, <1>4, <2>1 DEF Open, WriteStage
    <2>2. CASE stage' = [stage EXCEPT ![w] = "putting"]
        <3>1. UNCHANGED began /\ file' = Blank /\ UNCHANGED <<next, ours, met, disturbed>>
            BY <1>1, <1>4, <2>2 DEF Open, Fails, End
        <3> QED
            BY <1>1, <1>4, <2>2, <3>1, OpenInv DEF Open, WriteStage
    <2> QED
        BY <1>4, <2>1, <2>2 DEF Open
<1>5. CASE Put(w)
    <2>1. CASE Fails(w) /\ file' \in {file, Torn}
        BY <1>3, <1>5, <2>1 DEF Put, WriteStage
    <2>2. CASE /\ file' \in Overlaid(next[w]) /\ End(w) /\ UNCHANGED <<met, disturbed>>
               /\ IF disturbed THEN UNCHANGED ours ELSE ours' = Written(w)
        <3>1. stage' = [stage EXCEPT ![w] = "off"] /\ Ends(w)
            BY <1>1, <2>2 DEF Ends, End
        <3> QED
            BY <1>1, <1>5, <2>2, <3>1, PutInv DEF Put, WriteStage
    <2> QED
        BY <1>5, <2>1, <2>2 DEF Put
<1> QED
    BY <1>2, <1>4, <1>5 DEF WriteStep

\* A step of a request w that is in no write, before or after.
LEMMA StillInv ==
    ASSUME IndInv, NEW w \in Writers, stage[w] \notin WriteStage,
           NEW s \in StageType \ WriteStage,
           w \in Pages => s \in {"off", "reading"},
           stage' = [stage EXCEPT ![w] = s],
           \A c \in Callers : c # w => began'[c] = began[c],
           UNCHANGED <<file, next, ours, met, disturbed, now, latestOn>>
    PROVE  WriteInv'
<1> USE IndInvWrites DEF WriteInv
<1>1. stage'[w] = s /\ \A v \in Writers : v # w => stage'[v] = stage[v]
    OBVIOUS
<1>2. InWrite' = InWrite /\ w \notin InWrite
    BY <1>1 DEF InWrite
<1>3. \A v \in Writers : (stage'[v] = "putting") = (stage[v] = "putting")
    BY <1>1 DEF WriteStage
<1>4. SettingsTypeOK'
    BY <1>1 DEF SettingsTypeOK
<1>5. stage' \in [Writers -> StageType]
    OBVIOUS
<1>6. Keys'
    BY <1>1, <1>2 DEF Keys
<1>7. Solo'
    BY <1>2, <1>3 DEF Solo
<1>8. Kept'
    <2>1. \A v \in InWrite : (stage'[v] = "merging") = (stage[v] = "merging")
        BY <1>1, <1>2 DEF InWrite
    <2> QED
        BY <1>2, <1>3, <2>1 DEF Kept, Parsed
<1>9. HonestOrNone(Parsed(file).update)' /\ \A v \in Writers : HonestOrNone(next[v].update)'
    BY DEF HonestOrNone, Honest, Parsed
<1> QED
    BY <1>4, <1>5, <1>6, <1>7, <1>8, <1>9

-----------------------------------------------------------------------------
(* The steps of the system.                                                *)

\* What a step keeps besides WriteInv.
CheckInv ==
    /\ now \in Day /\ latest \in Version /\ latestOn \in [Day -> Version]
    /\ update \in Callers \cup {NoOne} /\ waiting \in SUBSET Callers
    /\ began \in [Callers -> Day]
    /\ answer \in Update \cup {Unknown, NoUpdate}
    /\ OneCheckAtATime
    /\ answer # Unknown => HonestOrNone(answer)
    /\ \A c \in Callers : began[c] <= now

LEMMA IndInvParts ==
    /\ IndInv <=> WriteInv /\ CheckInv
    /\ IndInv' <=> WriteInv' /\ CheckInv'
BY DEF IndInv, WriteInv, CheckInv, TypeOK, StageType, AllHonest

LEMMA PageStepInv == ASSUME IndInv, NEW p \in Pages, PageStep(p) PROVE IndInv'
<1> USE IndInvParts DEF WriteInv, CheckInv
<1>1. UNCHANGED checkVars /\ p \in Writers /\ p \notin Callers
    BY DistinctAssumption DEF PageStep
<1>2. WriteInv' /\ \A c \in Callers : stage'[c] = stage[c]
    <2>1. ASSUME NEW query \in Query, stage[p] \in {"off", "reading"}, UNCHANGED file,
                 StartWrite(p, [Empty EXCEPT !.query = query])
          PROVE  WriteInv' /\ \A c \in Callers : stage'[c] = stage[c]
        <3> DEFINE partial == [Empty EXCEPT !.query = query]
        <3>1. /\ partial \in Doc /\ partial.query = query /\ query # None
              /\ partial.update = NoUpdate
            BY DistinctAssumption DEF Empty, Doc
        <3>2. HonestOrNone(partial.update)
            BY <3>1 DEF HonestOrNone
        <3>3. WriteInv'
            BY <1>1, <2>1, <3>1, <3>2, StartInv DEF WriteStage, checkVars
        <3> QED
            BY <1>1, <2>1, <3>3 DEF StartWrite
    <2>2. ASSUME NEW s \in {"off", "reading"}, stage[p] \in {"off", "reading"},
                 stage' = [stage EXCEPT ![p] = s],
                 UNCHANGED <<file, next, ours, met, disturbed>>
          PROVE  WriteInv' /\ \A c \in Callers : stage'[c] = stage[c]
        <3>1. s \in StageType \ WriteStage /\ stage[p] \notin WriteStage
            BY <2>2 DEF StageType, WriteStage
        <3> QED
            BY <1>1, <2>2, <3>1, StillInv DEF checkVars
    <2>3. CASE Load(p)
        BY <2>1, <2>2, <2>3 DEF Load
    <2>4. CASE ReadLast(p)
        BY <2>1, <2>2, <2>4 DEF ReadLast, Query
    <2>5. CASE WriteStep(p)
        BY <1>1, <2>5, WriteStepInv DEF checkVars
    <2> QED
        BY <2>3, <2>4, <2>5 DEF PageStep
<1>3. CheckInv'
    <2>1. OneCheckAtATime'
        BY <1>1, <1>2 DEF OneCheckAtATime, InCheck, checkVars
    <2> QED
        BY <1>1, <2>1 DEF checkVars, HonestOrNone, Honest
<1> QED
    BY <1>2, <1>3

LEMMA GetUpdateInv == ASSUME IndInv, NEW c \in Callers, GetUpdate(c) PROVE IndInv'
<1> USE IndInvParts DEF WriteInv, CheckInv
<1>1. c \in Writers /\ c \notin Pages /\ stage[c] = "off"
    BY DistinctAssumption DEF GetUpdate
<1>2. CASE update = NoOne
    <2>1. PICK s \in CheckStage : stage' = [stage EXCEPT ![c] = s]
        BY <1>2 DEF GetUpdate
    <2>2. /\ began' = [began EXCEPT ![c] = now] /\ update' = c /\ answer' = NoUpdate
          /\ waiting' = waiting \cup {c}
          /\ UNCHANGED <<file, next, ours, met, disturbed, now, latest, latestOn>>
        BY <1>2 DEF GetUpdate
    <2>3. s \in StageType \ WriteStage /\ stage[c] \notin WriteStage /\ s # "off"
        BY <1>1 DEF StageType, WriteStage, CheckStage
    <2>4. WriteInv'
        BY <1>1, <2>1, <2>2, <2>3, StillInv
    <2>5. OneCheckAtATime'
        <3>1. InCheck' = InCheck \cup {c}
            BY <2>1, <2>3 DEF InCheck
        <3> QED
            BY <1>2, <2>2, <3>1, CheckAssumption DEF OneCheckAtATime
    <2>6. \A d \in Callers : began'[d] <= now'
        BY <2>2 DEF Day
    <2> QED
        BY <2>2, <2>4, <2>5, <2>6 DEF HonestOrNone
<1>3. CASE update # NoOne
    <2>1. /\ waiting' = waiting \cup {c} /\ UNCHANGED <<stage, update, answer, began>>
          /\ UNCHANGED <<file, next, ours, met, disturbed, now, latest, latestOn>>
        BY <1>3 DEF GetUpdate
    <2>2. WriteInv'
        <3>1. stage' = [stage EXCEPT ![c] = "off"]
            BY <1>1, <2>1
        <3>2. "off" \in StageType \ WriteStage
            BY DEF StageType, WriteStage
        <3> QED
            BY <1>1, <2>1, <3>1, <3>2, StillInv
    <2>3. OneCheckAtATime'
        BY <1>3, <2>1 DEF OneCheckAtATime, InCheck
    <2> QED
        BY <2>1, <2>2, <2>3 DEF HonestOrNone, Honest
<1> QED
    BY <1>2, <1>3

\* The check that c began resolves to an honest result.
LEMMA SettleInv ==
    ASSUME IndInv, NEW c \in Callers, stage[c] # "off", stage'[c] = "off",
           \A v \in Callers : v # c => stage'[v] = stage[v],
           NEW result \in Update \cup {Unknown, NoUpdate},
           result # Unknown => HonestOrNone(result),
           Settle(c, result), UNCHANGED <<now, latest, latestOn>>
    PROVE  CheckInv'
<1> USE IndInvParts DEF CheckInv, Settle
<1>1. update = c /\ InCheck' = {}
    BY DEF OneCheckAtATime, InCheck
<1>2. OneCheckAtATime'
    BY <1>1 DEF OneCheckAtATime
<1>3. 0 \in Day /\ 0 <= now
    BY DistinctAssumption DEF Day
<1>4. began' \in [Callers -> Day] /\ \A d \in Callers : began'[d] <= now
    BY <1>3
<1> QED
    BY <1>2, <1>4 DEF HonestOrNone, Honest

\* The check that c began goes on.
LEMMA GoesOnInv ==
    ASSUME IndInv, NEW c \in Callers, stage[c] # "off", stage'[c] # "off",
           \A v \in Callers : v # c => stage'[v] = stage[v],
           UNCHANGED checkVars
    PROVE  CheckInv'
<1> USE IndInvParts DEF CheckInv, checkVars
<1>1. InCheck' = InCheck
    BY DEF InCheck
<1> QED
    BY <1>1 DEF OneCheckAtATime, HonestOrNone, Honest

LEMMA ReadStoredInv == ASSUME IndInv, NEW c \in Callers, ReadStored(c) PROVE IndInv'
<1> USE IndInvParts
<1>1. /\ c \in Writers /\ c \notin Pages /\ stage[c] = "checking"
      /\ stage \in [Writers -> StageType]
      /\ UNCHANGED <<file, next, ours, met, disturbed, now, latest, latestOn>>
    BY DistinctAssumption DEF ReadStored, WriteInv
<1>2. PICK settings \in Readings :
        LET stored == settings.update IN
        \/ /\ stage' = [stage EXCEPT ![c] = "fetching"]
           /\ UNCHANGED <<update, waiting, began, answer>>
        \/ /\ stage' = [stage EXCEPT ![c] = "off"]
           /\ Settle(c, stored)
    BY DEF ReadStored
<1>3. settings.update \in Update \cup {NoUpdate} /\ HonestOrNone(settings.update)
    <2>1. settings \in Doc
        BY ReadingsType
    <2>2. HonestOrNone(settings.update)
        BY DEF WriteInv, Readings, Empty, HonestOrNone
    <2> QED
        BY <2>1, <2>2 DEF Doc
<1>4. stage[c] \notin WriteStage /\ {"off", "fetching"} \subseteq StageType \ WriteStage
    BY <1>1 DEF WriteStage, StageType, CheckStage
<1>5. CASE stage' = [stage EXCEPT ![c] = "fetching"] /\ UNCHANGED <<update, waiting, began, answer>>
    <2>1. WriteInv'
        BY <1>1, <1>4, <1>5, StillInv
    <2>2. stage'[c] = "fetching" /\ \A v \in Callers : v # c => stage'[v] = stage[v]
        BY <1>1, <1>5
    <2>3. CheckInv'
        BY <1>1, <1>5, <2>2, GoesOnInv DEF checkVars
    <2> QED
        BY <2>1, <2>3
<1>6. CASE stage' = [stage EXCEPT ![c] = "off"] /\ Settle(c, settings.update)
    <2>1. stage'[c] = "off" /\ \A v \in Callers : v # c => stage'[v] = stage[v]
        BY <1>1, <1>6
    <2>2. \A d \in Callers : d # c => began'[d] = began[d]
        BY <1>6 DEF Settle, CheckInv
    <2>3. WriteInv'
        BY <1>1, <1>4, <1>6, <2>2, StillInv
    <2>4. CheckInv'
        BY <1>1, <1>3, <1>6, <2>1, SettleInv
    <2> QED
        BY <2>3, <2>4
<1> QED
    BY <1>2, <1>5, <1>6

LEMMA FetchInv == ASSUME IndInv, NEW c \in Callers, Fetch(c) PROVE IndInv'
<1> USE IndInvParts
<1>1. /\ c \in Writers /\ c \notin Pages /\ stage[c] = "fetching"
      /\ stage \in [Writers -> StageType]
      /\ UNCHANGED <<file, now, latest, latestOn>>
    BY DistinctAssumption DEF Fetch, WriteInv
<1>2. stage[c] \notin WriteStage /\ "off" \in StageType \ WriteStage
    BY <1>1 DEF WriteStage, StageType
<1>3. ASSUME NEW found \in Responses(c),
             StartWrite(c, [Empty EXCEPT !.update = found]),
             UNCHANGED <<update, waiting, began, answer>>
      PROVE  IndInv'
    <2>1. PICK version \in latestOn[began[c]]..latest : found = Found(c, version)
        BY DEF Responses
    <2>2. /\ began[c] \in Day /\ began[c] <= now /\ version \in Version
          /\ latestOn[began[c]] <= version
        <3>1. began[c] \in Day /\ began[c] <= now /\ latestOn[began[c]] \in Version
            BY DEF CheckInv
        <3> QED
            BY <3>1, DistinctAssumption DEF CheckInv, Version
    <2>3. /\ found \in Update /\ found # NoUpdate /\ found.checked = began[c]
          /\ HonestOrNone(found)
        BY <2>1, <2>2 DEF Found, Update, NoUpdate, Version, HonestOrNone, Honest
    <2> DEFINE partial == [Empty EXCEPT !.update = found]
    <2>4. partial \in Doc /\ partial.query = None /\ partial.update = found
        BY <2>3 DEF Empty, Doc
    <2> HIDE DEF partial
    <2>5. StartWrite(c, partial)
        BY <1>3 DEF partial
    <2>6. WriteInv'
        BY <1>1, <1>2, <1>3, <2>3, <2>4, <2>5, StartInv
    <2>7. stage'[c] = "merging" /\ \A v \in Callers : v # c => stage'[v] = stage[v]
        BY <1>1, <2>5 DEF StartWrite
    <2>8. CheckInv'
        BY <1>1, <1>3, <2>7, GoesOnInv DEF checkVars
    <2> QED
        BY <2>6, <2>8
<1>4. ASSUME stage' = [stage EXCEPT ![c] = "off"], Settle(c, Unknown),
             UNCHANGED <<next, ours, met, disturbed>>
      PROVE  IndInv'
    <2>1. stage'[c] = "off" /\ \A v \in Callers : v # c => stage'[v] = stage[v]
        BY <1>1, <1>4
    <2>2. \A d \in Callers : d # c => began'[d] = began[d]
        BY <1>4 DEF Settle, CheckInv
    <2>3. WriteInv'
        BY <1>1, <1>2, <1>4, <2>2, StillInv
    <2>4. CheckInv'
        BY <1>1, <1>4, <2>1, SettleInv
    <2> QED
        BY <2>3, <2>4
<1> QED
    BY <1>3, <1>4 DEF Fetch

LEMMA StoreInv == ASSUME IndInv, NEW c \in Callers, Store(c) PROVE IndInv'
<1> USE IndInvParts
<1>1. c \in Writers /\ WriteStep(c) /\ UNCHANGED <<now, latest, latestOn>>
    BY DEF Store
<1>2. CASE stage'[c] = "off"
    <2>1. Settle(c, next[c].update)
        BY <1>2 DEF Store
    <2>2. began' \in [Callers -> Day] /\ \A d \in Callers : d # c => began'[d] = began[d]
        BY <2>1, DistinctAssumption DEF Settle, CheckInv, Day
    <2>3. /\ WriteInv' /\ stage[c] \in WriteStage
          /\ \A v \in Writers : v # c => stage'[v] = stage[v]
        BY <1>1, <1>2, <2>2, WriteStepInv
    <2>4. next[c].update \in Update \cup {NoUpdate} /\ HonestOrNone(next[c].update)
        BY <1>1 DEF WriteInv, SettingsTypeOK, Doc
    <2>5. CheckInv'
        BY <1>1, <1>2, <2>1, <2>3, <2>4, SettleInv DEF WriteStage
    <2> QED
        BY <2>3, <2>5
<1>3. CASE stage'[c] # "off"
    <2>1. UNCHANGED checkVars
        BY <1>1, <1>3 DEF Store, checkVars
    <2>2. /\ WriteInv' /\ stage[c] \in WriteStage
          /\ \A v \in Writers : v # c => stage'[v] = stage[v]
        BY <1>1, <1>3, <2>1, WriteStepInv DEF checkVars
    <2>3. CheckInv'
        BY <1>3, <2>1, <2>2, GoesOnInv DEF WriteStage
    <2> QED
        BY <2>2, <2>3
<1> QED
    BY <1>2, <1>3

LEMMA TickInv == ASSUME IndInv, Tick PROVE IndInv'
<1> USE IndInvParts
<1>1. /\ now \in Nat /\ now' = now + 1 /\ now' \in Day /\ latestOn' \in [Day -> Version]
      /\ UNCHANGED <<settingsVars, latest, update, waiting, began, answer>>
    BY DEF Tick, CheckInv, Day
<1>2. ASSUME NEW u \in Update \cup {NoUpdate, Unknown}, u # Unknown, HonestOrNone(u)
      PROVE  HonestOrNone(u)'
    <2>1. TypeOK
        BY DEF IndInv
    <2> QED
        BY <1>2, <2>1, HonestStays DEF HonestOrNone
<1>3. WriteInv'
    <2>1. SettingsTypeOK' /\ stage' \in [Writers -> StageType] /\ Keys' /\ Solo' /\ Kept'
        BY <1>1 DEF settingsVars, WriteInv, SettingsTypeOK, Keys, Solo, Kept, InWrite, Parsed
    <2>2. HonestOrNone(Parsed(file).update)'
        <3>1. Parsed(file).update \in Update \cup {NoUpdate}
            BY ParsedType DEF Doc
        <3>2. Parsed(file).update # Unknown
            BY <3>1, CheckAssumption
        <3>3. Parsed(file)' = Parsed(file)
            BY <1>1 DEF settingsVars, Parsed
        <3> QED
            BY <1>1, <1>2, <3>1, <3>2, <3>3 DEF WriteInv, HonestOrNone, Honest
    <2>3. ASSUME NEW w \in Writers PROVE HonestOrNone(next[w].update)'
        <3>1. next[w].update \in Update \cup {NoUpdate}
            BY DEF WriteInv, SettingsTypeOK, Doc
        <3>2. next[w].update # Unknown
            BY <3>1, CheckAssumption
        <3>3. HonestOrNone(next[w].update)
            BY DEF WriteInv
        <3>4. next'[w] = next[w]
            BY <1>1 DEF settingsVars
        <3> QED
            BY <1>2, <3>1, <3>2, <3>3, <3>4 DEF HonestOrNone, Honest
    <2> QED
        BY <2>1, <2>2, <2>3 DEF WriteInv
<1>4. CheckInv'
    <2>1. answer' # Unknown => HonestOrNone(answer)'
        BY <1>1, <1>2 DEF CheckInv, HonestOrNone, Honest
    <2>2. OneCheckAtATime'
        BY <1>1 DEF CheckInv, OneCheckAtATime, InCheck, settingsVars
    <2>3. \A c \in Callers : began'[c] <= now'
        BY <1>1 DEF CheckInv, Day
    <2> QED
        BY <1>1, <2>1, <2>2, <2>3 DEF CheckInv
<1> QED
    BY <1>3, <1>4

LEMMA SettingsUnchanged ==
    ASSUME IndInv, UNCHANGED <<settingsVars, now, latestOn, update, waiting, began, answer>>,
           latest' \in Version
    PROVE  IndInv'
<1> USE IndInvParts
<1>1. WriteInv'
    BY DEF settingsVars, WriteInv, SettingsTypeOK, Keys, Solo, Kept, InWrite, Parsed,
           HonestOrNone, Honest
<1>2. CheckInv'
    BY DEF settingsVars, CheckInv, OneCheckAtATime, InCheck, HonestOrNone, Honest
<1> QED
    BY <1>1, <1>2

LEMMA RestartInv == ASSUME IndInv, Restart PROVE IndInv'
<1> USE IndInvParts
<1>1. /\ stage' = [w \in Writers |-> "off"] /\ next' = [w \in Writers |-> Empty]
      /\ met' = InWrite /\ UNCHANGED <<file, now, latest, latestOn>>
      /\ \/ InWrite = {} /\ UNCHANGED <<ours, disturbed>>
         \/ disturbed' = TRUE /\ ours' = Empty
      /\ update' = NoOne /\ waiting' = {} /\ answer' = NoUpdate
      /\ began' = [c \in Callers |-> 0]
    BY DEF Restart, DropWriters, Disturb
<1>2. InWrite' = {} /\ InCheck' = {}
    BY <1>1 DEF InWrite, InCheck, WriteStage
<1>3. WriteInv'
    <2>1. SettingsTypeOK' /\ stage' \in [Writers -> StageType]
        BY <1>1, EmptyType DEF WriteInv, SettingsTypeOK, StageType, InWrite
    <2>2. Keys'
        BY <1>2 DEF Keys
    <2>3. Solo'
        BY <1>1, <1>2 DEF WriteInv, Solo
    <2>4. Kept'
        <3> SUFFICES ASSUME ~disturbed' PROVE Kept'
            BY DEF Kept
        <3>1. InWrite = {} /\ UNCHANGED <<file, ours, disturbed>>
            BY <1>1
        <3>2. \A w \in Writers : stage[w] # "putting"
            BY <3>1 DEF InWrite, WriteStage
        <3> QED
            BY <1>2, <3>1, <3>2 DEF WriteInv, Kept, Parsed
    <2>5. HonestOrNone(Parsed(file).update)'
        BY <1>1 DEF WriteInv, HonestOrNone, Honest, Parsed
    <2>6. \A w \in Writers : HonestOrNone(next[w].update)'
        BY <1>1 DEF HonestOrNone, Empty
    <2> QED
        BY <2>1, <2>2, <2>3, <2>4, <2>5, <2>6 DEF WriteInv
<1>4. CheckInv'
    <2>1. 0 \in Day /\ 0 <= now
        BY DistinctAssumption DEF Day, CheckInv
    <2>2. OneCheckAtATime'
        BY <1>1, <1>2 DEF OneCheckAtATime
    <2> QED
        BY <1>1, <2>1, <2>2 DEF CheckInv, HonestOrNone
<1> QED
    BY <1>3, <1>4

LEMMA IndInvStep == IndInv /\ [Next]_vars => IndInv'
<1> SUFFICES ASSUME IndInv, [Next]_vars PROVE IndInv'
    OBVIOUS
<1>1. CASE \E p \in Pages : PageStep(p)
    BY <1>1, PageStepInv
<1>2. CASE \E c \in Callers : GetUpdate(c) \/ CheckStep(c)
    BY <1>2, GetUpdateInv, ReadStoredInv, FetchInv, StoreInv DEF CheckStep
<1>3. CASE Tick
    BY <1>3, TickInv
<1>4. CASE Release
    BY <1>4, SettingsUnchanged DEF Release
<1>5. CASE Restart
    BY <1>5, RestartInv
<1>6. CASE UNCHANGED vars
    <2>1. latest \in Version
        BY IndInvParts DEF CheckInv
    <2> QED
        BY <1>6, <2>1, SettingsUnchanged DEF vars, checkVars
<1> QED
    BY <1>1, <1>2, <1>3, <1>4, <1>5, <1>6 DEF Next

LEMMA SpecIndInv == Spec => []IndInv
BY InitIndInv, IndInvStep, PTL DEF Spec

-----------------------------------------------------------------------------

\* The variables stay in their types, whatever fails.
THEOREM TypeCorrect == Spec => []TypeOK
<1>1. IndInv => TypeOK
    BY DEF IndInv
<1> QED
    BY <1>1, SpecIndInv, PTL

\* getUpdate never runs two checks at once, and whoever waits has a check to
\* wait for (update.ts:41-49).
THEOREM OneCheck == Spec => []OneCheckAtATime
<1>1. IndInv => OneCheckAtATime
    BY DEF IndInv
<1> QED
    BY <1>1, SpecIndInv, PTL

\* No interleaving of writers, failure or restart makes the server store or
\* answer an update older than it says (update.ts:51-62).
THEOREM HonestUpdates == Spec => []UpdatesAreHonest
<1>1. IndInv => UpdatesAreHonest
    BY DEF IndInv, AllHonest, HonestOrNone, UpdatesAreHonest, Real
<1> QED
    BY <1>1, SpecIndInv, PTL

\* Undisturbed writes lose nothing of what the others wrote.
THEOREM UndisturbedMerge == Spec => []AloneMergeKeeps
<1>1. IndInv => AloneMergeKeeps
    BY DEF IndInv, Kept, AloneMergeKeeps
<1> QED
    BY <1>1, SpecIndInv, PTL

\* No caller is answered an update that was too old when its check began,
\* whatever other writers do to the file (update.ts:51-62).
THEOREM RecentAnswers == Spec => AnswersAreRecent
<1> DEFINE A == waiting # {} /\ waiting' = {} /\ Real(answer')
                => began[update] <= answer'.checked + Interval
<1>1. ASSUME IndInv, [Next]_vars, waiting # {}, waiting' = {}, Real(answer')
      PROVE  began[update] <= answer'.checked + Interval
    <2>1. PICK c \in Callers : CheckStep(c)
        <3>1. ~UNCHANGED waiting
            BY <1>1
        <3>2. answer' # NoUpdate
            BY <1>1 DEF Real
        <3>3. ~(\E c \in Callers : GetUpdate(c))
            BY <1>1 DEF GetUpdate
        <3> QED
            BY <1>1, <3>1, <3>2, <3>3
               DEF Next, vars, checkVars, PageStep, Tick, Release, Restart
    <2>2. PICK result :
            /\ Settle(c, result) /\ stage[c] # "off"
            /\ \/ ~TooOld(c, result) /\ \E settings \in Readings : result = settings.update
               \/ result = Unknown
               \/ result = next[c].update /\ WriteStep(c)
        <3>1. ~UNCHANGED waiting
            BY <1>1
        <3>2. CASE ReadStored(c)
            BY <3>1, <3>2 DEF ReadStored
        <3>3. CASE Fetch(c)
            BY <3>1, <3>3 DEF Fetch
        <3>4. CASE Store(c)
            <4>1. WriteStep(c) => stage[c] # "off"
                BY DEF WriteStep, ReadAndMerge, Open, Put
            <4> QED
                BY <3>1, <3>4, <4>1 DEF Store
        <3> QED
            BY <2>1, <3>2, <3>3, <3>4 DEF CheckStep
    <2>3. /\ update = c /\ answer' = result /\ result \notin {NoUpdate, Unknown}
          /\ began[c] \in Day
        BY <1>1, <2>1, <2>2, IndInvParts
           DEF CheckInv, OneCheckAtATime, InCheck, Settle, Real
    <2>4. CASE ~TooOld(c, result) /\ \E settings \in Readings : result = settings.update
        <3>1. result \in Update /\ result.checked \in Day
            BY <2>3, <2>4, ReadingsType DEF Doc, Update
        <3> QED
            BY <2>3, <2>4, <3>1, DistinctAssumption, CheckAssumption DEF TooOld, Day
    <2>5. CASE result = next[c].update /\ WriteStep(c)
        <3>1. stage[c] \in WriteStage
            BY <2>5 DEF WriteStep, ReadAndMerge, Open, Put, WriteStage
        <3>2. result.checked = began[c]
            <4>1. c \in Callers \cap InWrite
                BY <3>1 DEF InWrite
            <4> QED
                BY <1>1, <2>5, <4>1 DEF IndInv, Keys
        <3> QED
            BY <2>3, <3>2, CheckAssumption DEF Day
    <2> QED
        BY <2>2, <2>3, <2>4, <2>5
<1>2. IndInv /\ [Next]_vars => [A]_vars
    BY <1>1
<1> QED
    BY <1>2, SpecIndInv, PTL DEF Spec, AnswersAreRecent

\* A write that met no other and did not fail leaves a whole document with its
\* own key in it, whatever the file held (settings.ts:17-41).
THEOREM RepairingWrites == Spec => WriteRepairs
<1> DEFINE Repaired(w) == /\ file' \in Doc
                          /\ IF w \in Pages THEN file'.query # None
                             ELSE file'.update # NoUpdate
           A == \A w \in Writers :
                   w \in InWrite /\ w \notin InWrite' /\ w \notin met' => Repaired(w)
<1>1. ASSUME IndInv, [Next]_vars, NEW w \in Writers,
             w \in InWrite, w \notin InWrite', w \notin met'
      PROVE  Repaired(w)
    <2> USE IndInvParts DEF WriteInv
    <2>1. stage[w] \in WriteStage /\ stage'[w] \notin WriteStage /\ stage \in [Writers -> StageType]
        BY <1>1 DEF InWrite
    <2>2. ASSUME NEW v \in Writers, stage[v] \notin WriteStage,
                 NEW s, stage' = [stage EXCEPT ![v] = s]
          PROVE  FALSE
        BY <2>1, <2>2
    <2>3. ASSUME NEW v \in Writers, NEW partial, StartWrite(v, partial)
          PROVE  stage[v] \in WriteStage
        BY <2>2, <2>3 DEF StartWrite
    <2>4. WriteStep(w)
        <3>1. ~UNCHANGED stage
            BY <2>1
        <3>2. \A p \in Pages : ~Load(p) /\ ~ReadLast(p)
            <4>1. ASSUME NEW p \in Pages, Load(p) PROVE FALSE
                <5>1. stage[p] \notin WriteStage
                    BY <4>1 DEF Load, WriteStage
                <5> QED
                    BY <2>2, <2>3, <4>1, <5>1 DEF Load
            <4>2. ASSUME NEW p \in Pages, ReadLast(p) PROVE FALSE
                <5>1. stage[p] \notin WriteStage
                    BY <4>2 DEF ReadLast, WriteStage
                <5> QED
                    BY <2>2, <2>3, <4>2, <5>1 DEF ReadLast
            <4> QED
                BY <4>1, <4>2
        <3>3. \A c \in Callers : ~GetUpdate(c) /\ ~ReadStored(c) /\ ~Fetch(c)
            <4>1. \A c \in Callers : ~GetUpdate(c)
                BY <2>2, <3>1 DEF GetUpdate, WriteStage
            <4>2. \A c \in Callers : ~ReadStored(c)
                BY <2>2 DEF ReadStored, WriteStage
            <4>3. \A c \in Callers : ~Fetch(c)
                BY <2>2, <2>3 DEF Fetch, WriteStage
            <4> QED
                BY <4>1, <4>2, <4>3
        <3>4. ~Restart
            BY <1>1 DEF Restart, DropWriters
        <3>5. PICK v \in Writers : WriteStep(v)
            BY <1>1, <3>1, <3>2, <3>3, <3>4
               DEF Next, vars, settingsVars, PageStep, CheckStep, Store, Tick, Release
        <3>6. \E s : stage' = [stage EXCEPT ![v] = s]
            BY <3>5 DEF WriteStep, ReadAndMerge, Open, Put, Fails, End
        <3>7. v = w
            BY <2>1, <3>6
        <3> QED
            BY <3>5, <3>7
    <2>5. ~Fails(w)
        BY <1>1 DEF Fails, SettingsTypeOK
    <2>6. stage[w] = "putting" /\ file' \in Overlaid(next[w]) /\ met' = met
        <3>1. ~ReadAndMerge(w) /\ ~Open(w)
            BY <2>1, <2>5 DEF ReadAndMerge, Open, WriteStage
        <3> QED
            BY <2>4, <2>5, <3>1 DEF WriteStep, Put
    <2>7. file' = next[w]
        BY <1>1, <2>6 DEF Solo, Overlaid
    <2> QED
        BY <1>1, <2>7, DistinctAssumption DEF Keys, SettingsTypeOK
<1>2. IndInv /\ [Next]_vars => [A]_settingsVars
    BY <1>1
<1> QED
    BY <1>2, SpecIndInv, PTL DEF Spec, WriteRepairs
=============================================================================
