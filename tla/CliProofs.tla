------------------------------- MODULE CliProofs -------------------------------
(***************************************************************************)
(* Proofs of what cli.ts promises: of the safety of EditorSessions, for    *)
(* any editors, launchers, servers and files, and of Startup, for any      *)
(* number of starts, any command lines, config files and environments.     *)
(*                                                                         *)
(* Loops are recursive functions over the numbers up to the length of a    *)
(* list. What holds of them is proved by induction up to N, as membership  *)
(* in the set of the numbers it holds of; the induction rests on the least *)
(* element of a set of numbers.                                            *)
(***************************************************************************)
EXTENDS EditorSessions, Startup, FiniteSetTheorems, WellFoundedInduction,
        SequenceTheorems, TLAPS

-----------------------------------------------------------------------------
(* Loops and lists.                                                         *)

\* A set of numbers that is not empty has a least one.
LEMMA LeastNatural ==
    ASSUME NEW T \in SUBSET Nat, T # {}
    PROVE  \E x \in T : \A y \in T : x <= y
<1> DEFINE I == {1 .. n : n \in T}
           R == StrictSubsetOrdering(Nat)
<1>1. I \subseteq FiniteSubsetsOf(Nat) /\ I # {}
  <2>1. \A n \in T : IsFiniteSet(1 .. n) /\ 1 .. n \subseteq Nat
    BY FS_Interval
  <2> QED BY <2>1 DEF FiniteSubsetsOf
<1>2. \E x \in I : \A y \in I : ~ (<<y, x>> \in R)
  <2>1. IsWellFoundedOn(R, FiniteSubsetsOf(Nat))
    BY FS_StrictSubsetOrderingWellFounded
  <2> HIDE DEF I, R
  <2> QED BY <1>1, <2>1, WFMin
<1>3. PICK m \in T : \A y \in I : ~ (<<y, 1 .. m>> \in R)
  BY <1>2
<1>4. ASSUME NEW k \in T, k < m PROVE FALSE
  <2>1. <<1 .. k, 1 .. m>> \in R
    <3>1. m \in 1 .. m /\ m \notin 1 .. k /\ 1 .. k \subseteq 1 .. m
      BY <1>4
    <3>2. 1 .. k \in FiniteSubsetsOf(Nat) /\ 1 .. m \in FiniteSubsetsOf(Nat)
      BY <1>1
    <3> QED BY <3>1, <3>2 DEF StrictSubsetOrdering, FiniteSubsetsOf
  <2> QED BY <2>1, <1>3
<1> QED BY <1>4

\* Induction up to N, of membership in a set.
LEMMA UpTo ==
    ASSUME NEW N \in Nat, NEW G, 0 \in G, \A n \in 1..N : n - 1 \in G => n \in G
    PROVE  0..N \subseteq G
<1> DEFINE B == (0..N) \ G
<1>1. SUFFICES ASSUME NEW m \in B, \A k \in B : m <= k PROVE FALSE
  <2>1. B \subseteq Nat
    OBVIOUS
  <2> HIDE DEF B
  <2>2. B = {}
    BY <1>1, <2>1, LeastNatural
  <2> QED BY <2>2 DEF B
<1>2. m \in 1..N /\ m - 1 \in 0..N
  BY <1>1
<1> QED BY <1>1, <1>2

\* The values of a loop over 1..N, as a recursive function defines them.
IsLoop(f, N, X, b, turn) ==
    /\ f \in [0..N -> X]
    /\ f[0] = b
    /\ \A n \in 1..N : f[n] = turn[n][f[n - 1]]

\* A loop whose turns keep a type has values of that type.
LEMMA LoopExists ==
    ASSUME NEW N \in Nat, NEW X, NEW b \in X, NEW turn \in [1..N -> [X -> X]]
    PROVE  \E f : IsLoop(f, N, X, b, turn)
<1> DEFINE Loop(f, k) == f \in [0..k -> X] /\ f[0] = b /\ \A n \in 1..k : f[n] = turn[n][f[n - 1]]
           G == {k \in 0..N : \E f : Loop(f, k)}
<1>1. 0 \in G
  <2>1. Loop([n \in 0..0 |-> b], 0)
    OBVIOUS
  <2> HIDE DEF Loop
  <2> QED BY <2>1
<1>2. ASSUME NEW m \in 1..N, m - 1 \in G PROVE m \in G
  <2>2. PICK g : Loop(g, m - 1)
    BY <1>2
  <2> DEFINE h == [n \in 0..m |-> IF n = m THEN turn[m][g[m - 1]] ELSE g[n]]
  <2>3. h \in [0..m -> X] /\ h[0] = b
    BY <2>2
  <2>4. ASSUME NEW n \in 1..m PROVE h[n] = turn[n][h[n - 1]]
    BY <2>2
  <2>5. Loop(h, m)
    BY <2>3, <2>4
  <2> HIDE DEF h, Loop
  <2> QED BY <2>5
<1>3. N \in G
  <2> HIDE DEF G
  <2>1. 0..N \subseteq G
    BY <1>1, <1>2, UpTo
  <2> QED BY <2>1
<1>4. PICK f : Loop(f, N)
  BY <1>3, Zenon
<1> QED BY <1>4, Zenon DEF IsLoop

\* What is selected from a list, turn by turn.
IsSelection(f, s, S, T) ==
    /\ f \in [0..Len(s) -> Seq(T)]
    /\ f[0] = <<>>
    /\ \A n \in 1..Len(s) : f[n] = IF s[n] \in S THEN Append(f[n - 1], s[n]) ELSE f[n - 1]
    /\ Selected(s, S) = f[Len(s)]

\* Selected is the last value of its loop.
LEMMA SelectedTurns ==
    ASSUME NEW T, NEW s \in Seq(T), NEW S
    PROVE  \E f : IsSelection(f, s, S, T)
<1> DEFINE turn == [n \in 1..Len(s) |->
                       [t \in Seq(T) |-> IF s[n] \in S THEN Append(t, s[n]) ELSE t]]
           Is(f) == f = [n \in 0..Len(s) |->
                            IF n = 0 THEN <<>>
                            ELSE IF s[n] \in S THEN Append(f[n - 1], s[n]) ELSE f[n - 1]]
<1>1. Len(s) \in Nat /\ <<>> \in Seq(T) /\ turn \in [1..Len(s) -> [Seq(T) -> Seq(T)]]
  OBVIOUS
<1>2. PICK g \in [0..Len(s) -> Seq(T)] :
         /\ g[0] = <<>>
         /\ \A n \in 1..Len(s) : g[n] = turn[n][g[n - 1]]
  <2> HIDE DEF turn, Is
  <2>1. PICK g : IsLoop(g, Len(s), Seq(T), <<>>, turn)
    BY <1>1, LoopExists
  <2> QED BY <2>1 DEF IsLoop
<1>3. Is(g)
  <2>1. ASSUME NEW n \in 0..Len(s)
        PROVE  g[n] = IF n = 0 THEN <<>>
                      ELSE IF s[n] \in S THEN Append(g[n - 1], s[n]) ELSE g[n - 1]
    <3>1. n # 0 => n \in 1..Len(s) /\ g[n - 1] \in Seq(T)
      BY <1>1, <1>2
    <3> QED BY <1>2, <3>1
  <2> QED BY <1>1, <1>2, <2>1
<1>4. \E f : Is(f) /\ Selected(s, S) = f[Len(s)]
  <2>1. Selected(s, S) = (CHOOSE f : Is(f))[Len(s)]
    BY DEF Selected
  <2>2. Is(CHOOSE f : Is(f))
    <3> HIDE DEF Is
    <3> QED BY <1>3
  <2> HIDE DEF Is
  <2> QED BY <2>1, <2>2
<1>5. PICK f : Is(f) /\ Selected(s, S) = f[Len(s)]
  BY <1>4
<1>6. ASSUME NEW n \in 0..Len(s)
      PROVE  f[n] = IF n = 0 THEN <<>>
                    ELSE IF s[n] \in S THEN Append(f[n - 1], s[n]) ELSE f[n - 1]
  BY <1>5, Zenon
<1>7. \A n \in 0..Len(s) : f[n] \in Seq(T)
  <2> DEFINE G == {n \in 0..Len(s) : f[n] \in Seq(T)}
  <2>1. 0 \in G
    <3>1. 0 \in 0..Len(s)
      BY <1>1
    <3> QED BY <1>6, <3>1, <1>1
  <2>2. ASSUME NEW n \in 1..Len(s), n - 1 \in G PROVE n \in G
    <3>1. n \in 0..Len(s) /\ n # 0 /\ s[n] \in T
      BY <1>1
    <3>2. f[n] = IF s[n] \in S THEN Append(f[n - 1], s[n]) ELSE f[n - 1]
      BY <1>6, <3>1
    <3>3. f[n - 1] \in Seq(T)
      BY <2>2
    <3>4. f[n] \in Seq(T)
      BY <3>1, <3>2, <3>3, AppendProperties
    <3> QED BY <3>1, <3>4
  <2>3. 0..Len(s) \subseteq G
    <3> HIDE DEF G
    <3> QED BY <1>1, <2>1, <2>2, UpTo
  <2> QED BY <2>3
<1>8. f \in [0..Len(s) -> Seq(T)]
  <2>1. f = [n \in 0..Len(s) |-> f[n]]
    BY <1>5
  <2> QED BY <2>1, <1>7
<1>9. /\ f[0] = <<>>
      /\ \A n \in 1..Len(s) : f[n] = IF s[n] \in S THEN Append(f[n - 1], s[n]) ELSE f[n - 1]
  BY <1>1, <1>6
<1> HIDE DEF Is
<1> QED BY <1>5, <1>8, <1>9 DEF IsSelection

\* w is what is in S of the first n elements of s, in their order.
Embeds(m, w, s, n, S) ==
    /\ m \in [1..Len(w) -> 1..n]
    /\ \A k \in 1..Len(w) : w[k] = s[m[k]] /\ s[m[k]] \in S
    /\ \A j, k \in 1..Len(w) : j < k => m[j] < m[k]
    /\ \A i \in 1..n : s[i] \in S => \E k \in 1..Len(w) : m[k] = i

\* Selected keeps what is selected, all of it, in its order.
LEMMA SelectedEmbeds ==
    ASSUME NEW T, NEW s \in Seq(T), NEW S
    PROVE  /\ Selected(s, S) \in Seq(T)
           /\ \E m : Embeds(m, Selected(s, S), s, Len(s), S)
<1>1. PICK f : IsSelection(f, s, S, T)
  BY SelectedTurns
<1>2. Len(s) \in Nat
  OBVIOUS
<1> DEFINE G == {n \in 0..Len(s) : \E m : Embeds(m, f[n], s, n, S)}
<1>3. 0 \in G
  <2>1. Embeds([k \in 1..0 |-> k], <<>>, s, 0, S)
    BY DEF Embeds
  <2> QED BY <1>1, <1>2, <2>1 DEF IsSelection
<1>4. ASSUME NEW n \in 1..Len(s), n - 1 \in G PROVE n \in G
  <2>1. PICK m : Embeds(m, f[n - 1], s, n - 1, S)
    BY <1>4
  <2>2. n \in 0..Len(s) /\ n - 1 \in 0..Len(s)
    BY <1>2
  <2> DEFINE w == f[n - 1]
  <2>3. w \in Seq(T) /\ Len(w) \in Nat
    BY <1>1, <2>2 DEF IsSelection
  <2>4. CASE s[n] \in S
    <3> DEFINE h == [k \in 1..(Len(w) + 1) |-> IF k <= Len(w) THEN m[k] ELSE n]
    <3>1. f[n] = Append(w, s[n]) /\ s[n] \in T
      <4>1. f[n] = IF s[n] \in S THEN Append(w, s[n]) ELSE w
        BY <1>1 DEF IsSelection
      <4> QED BY <2>4, <4>1
    <3>2. /\ Len(f[n]) = Len(w) + 1
          /\ \A k \in 1..Len(w) : f[n][k] = w[k]
          /\ f[n][Len(w) + 1] = s[n]
      BY <2>3, <3>1, AppendProperties
    <3> HIDE DEF w
    <3>3. /\ m \in [1..Len(w) -> 1..(n - 1)]
          /\ \A k \in 1..Len(w) : w[k] = s[m[k]] /\ s[m[k]] \in S
          /\ \A j, k \in 1..Len(w) : j < k => m[j] < m[k]
          /\ \A i \in 1..(n - 1) : s[i] \in S => \E k \in 1..Len(w) : m[k] = i
      BY <2>1 DEF Embeds, w
    <3>4. h \in [1..Len(f[n]) -> 1..n]
      BY <2>3, <3>2, <3>3
    <3>5. \A k \in 1..Len(f[n]) : f[n][k] = s[h[k]] /\ s[h[k]] \in S
      BY <2>3, <2>4, <3>2, <3>3
    <3>6. \A j, k \in 1..Len(f[n]) : j < k => h[j] < h[k]
      <4> SUFFICES ASSUME NEW j \in 1..Len(f[n]), NEW k \in 1..Len(f[n]), j < k
                   PROVE  h[j] < h[k]
        OBVIOUS
      <4>0. j \in 1..(Len(w) + 1) /\ k \in 1..(Len(w) + 1)
        BY <3>2
      <4>1. j \in 1..Len(w)
        BY <2>3, <4>0
      <4>2. m[j] \in 1..(n - 1) /\ (k \in 1..Len(w) => m[k] \in 1..(n - 1))
        BY <3>3, <4>1
      <4> QED BY <2>3, <3>3, <4>0, <4>1, <4>2
    <3>7. ASSUME NEW i \in 1..n, s[i] \in S PROVE \E k \in 1..Len(f[n]) : h[k] = i
      <4>1. CASE i = n
        BY <2>3, <3>2, <4>1
      <4>2. CASE i # n
        <5>1. PICK k \in 1..Len(w) : m[k] = i
          BY <3>3, <3>7, <4>2
        <5> QED BY <2>3, <3>2, <5>1
      <4> QED BY <4>1, <4>2
    <3>8. Embeds(h, f[n], s, n, S)
      <4> HIDE DEF h
      <4> QED BY <3>4, <3>5, <3>6, <3>7 DEF Embeds
    <3> HIDE DEF h
    <3> QED BY <2>2, <3>8
  <2>5. CASE s[n] \notin S
    <3>1. f[n] = w
      BY <1>1, <2>5 DEF IsSelection
    <3>2. Embeds(m, w, s, n, S)
      <4> HIDE DEF w
      <4>1. Embeds(m, w, s, n - 1, S)
        BY <2>1 DEF w
      <4> QED BY <2>5, <4>1 DEF Embeds
    <3> QED BY <2>2, <3>1, <3>2
  <2> QED BY <2>4, <2>5
<1>5. Len(s) \in G
  <2> HIDE DEF G
  <2>1. 0..Len(s) \subseteq G
    BY <1>2, <1>3, <1>4, UpTo
  <2> QED BY <1>2, <2>1
<1> QED BY <1>1, <1>2, <1>5 DEF IsSelection

\* The elements of a selection.
LEMMA SelectedElements ==
    ASSUME NEW T, NEW s \in Seq(T), NEW S
    PROVE  ToSet(Selected(s, S)) = ToSet(s) \cap S
<1> DEFINE w == Selected(s, S)
<1>1. PICK m : Embeds(m, w, s, Len(s), S)
  BY SelectedEmbeds
<1>2. w \in Seq(T)
  BY SelectedEmbeds
<1>3. Len(w) \in Nat /\ DOMAIN w = 1..Len(w) /\ DOMAIN s = 1..Len(s)
  BY <1>2
<1> HIDE DEF w
<1>4. ASSUME NEW k \in 1..Len(w) PROVE w[k] \in S /\ \E i \in 1..Len(s) : w[k] = s[i]
  BY <1>1 DEF Embeds
<1>5. ASSUME NEW i \in 1..Len(s), s[i] \in S PROVE \E k \in 1..Len(w) : w[k] = s[i]
  BY <1>1, <1>5 DEF Embeds
<1>6. ToSet(w) = {w[k] : k \in 1..Len(w)} /\ ToSet(s) = {s[i] : i \in 1..Len(s)}
  BY <1>3 DEF ToSet
<1>7. ToSet(w) = ToSet(s) \cap S
  BY <1>4, <1>5, <1>6
<1> QED BY <1>7 DEF w

-----------------------------------------------------------------------------
(* EditorSessions.                                                          *)

\* An editor opens once and says so once: nothing is known of one that has not
\* opened, one whose registration is under way is in no map yet, and one that
\* takes it back is ending.
PostsInv ==
    /\ \A post \in posts :
          /\ editor[post.editor] # "new"
          /\ post.type = "delete" => editor[post.editor] \in {"ending", "closed"}
          /\ post.type = "add" =>
                /\ \A s \in Servers : post.editor \notin ToSet(entries[s])
                /\ \A l \in Launchers : post.editor \notin ToSet(seen[l])
                /\ \A other \in posts :
                      other.type = "add" /\ other.editor = post.editor => other = post
    /\ \A s \in Servers : \A e \in ToSet(entries[s]) : editor[e] # "new"
    /\ \A l \in Launchers : \A e \in ToSet(seen[l]) : editor[e] # "new"

\* A map has a key once.
Distinct(map) == \A i, j \in DOMAIN map : map[i] = map[j] => i = j
DistinctInv == \A s \in Servers : Distinct(entries[s])

\* The candidates a look-up has left are those it saw but for some that are
\* gone, in their order, and it waits for the first of them.
Looking(l) ==
    /\ asked[l] \in Servers /\ found[l] = Nobody
    /\ ToSet(candidates[l]) \subseteq ToSet(seen[l])
    /\ \A e \in ToSet(seen[l]) : e \in ToSet(candidates[l]) \/ Gone(l, e)
    /\ \A i, j \in DOMAIN candidates[l] :
          i < j => ~Better(l, candidates[l][j], candidates[l][i])
    /\ reached[l] # "unknown" => candidates[l] # <<>>
    /\ reached[l] = "down" => editor[Head(candidates[l])] = "closed"

Answered(l) ==
    /\ asked[l] \in Servers
    /\ \A e \in ToSet(seen[l]) :
          (found[l] # Nobody => Better(l, e, found[l])) => Gone(l, e)

LookupHeld(l) ==
    /\ launcher[l] = "looking" => Looking(l)
    /\ launcher[l] = "answered" => Answered(l)
    /\ launcher[l] # "looking" => reached[l] = "unknown"
    /\ launcher[l] \in {"idle", "asking"} => found[l] = Nobody
LookupInv == \A l \in Launchers : LookupHeld(l)

SessionsInv == SessionsTypeOK /\ PostsInv /\ DistinctInv /\ LookupInv

\* addSession adds an editor, once.
LEMMA AddedFacts ==
    ASSUME NEW map \in Seq(Editors), NEW e \in Editors
    PROVE  /\ Added(map, e) \in Seq(Editors)
           /\ ToSet(Added(map, e)) = ToSet(map) \cup {e}
           /\ Distinct(map) => Distinct(Added(map, e))
<1>1. CASE e \in ToSet(map)
  BY <1>1 DEF Added
<1>2. CASE e \notin ToSet(map)
  <2>1. Added(map, e) = Append(map, e) /\ Len(map) \in Nat /\ DOMAIN map = 1..Len(map)
    BY <1>2 DEF Added
  <2>2. /\ Append(map, e) \in Seq(Editors)
        /\ DOMAIN Append(map, e) = 1..(Len(map) + 1)
        /\ \A i \in 1..Len(map) : Append(map, e)[i] = map[i]
        /\ Append(map, e)[Len(map) + 1] = e
    BY <2>1, AppendProperties
  <2>3. ToSet(Append(map, e)) = ToSet(map) \cup {e}
    BY <2>1, <2>2 DEF ToSet
  <2>4. \A i \in 1..Len(map) : map[i] # e
    BY <1>2, <2>1 DEF ToSet
  <2>5. Distinct(map) => Distinct(Append(map, e))
    BY <2>1, <2>2, <2>4 DEF Distinct
  <2> QED BY <2>1, <2>2, <2>3, <2>5
<1> QED BY <1>1, <1>2

\* deleteSession takes an editor away and leaves the others in their order.
LEMMA DeletedFacts ==
    ASSUME NEW map \in Seq(Editors), NEW e \in Editors
    PROVE  /\ Deleted(map, e) \in Seq(Editors)
           /\ ToSet(Deleted(map, e)) = ToSet(map) \ {e}
           /\ Distinct(map) => Distinct(Deleted(map, e))
<1> DEFINE w == Deleted(map, e)
<1>1. w \in Seq(Editors) /\ \E m : Embeds(m, w, map, Len(map), Editors \ {e})
  BY SelectedEmbeds DEF Deleted
<1>2. ToSet(w) = ToSet(map) \ {e}
  <2>1. ToSet(w) = ToSet(map) \cap (Editors \ {e})
    BY SelectedElements DEF Deleted
  <2>2. ToSet(map) \subseteq Editors
    BY DEF ToSet
  <2> QED BY <2>1, <2>2
<1>3. PICK m : Embeds(m, w, map, Len(map), Editors \ {e})
  BY <1>1
<1>4. Distinct(map) => Distinct(w)
  <2> HIDE DEF w
  <2> SUFFICES ASSUME Distinct(map), NEW i \in DOMAIN w, NEW j \in DOMAIN w, w[i] = w[j]
               PROVE  i = j
    BY DEF Distinct
  <2>0. DOMAIN w = 1..Len(w) /\ DOMAIN map = 1..Len(map)
    BY <1>1
  <2>1. /\ i \in 1..Len(w) /\ j \in 1..Len(w)
        /\ m[i] \in DOMAIN map /\ m[j] \in DOMAIN map
        /\ map[m[i]] = map[m[j]]
    BY <1>3, <2>0 DEF Embeds
  <2>2. m[i] = m[j]
    BY <2>1 DEF Distinct
  <2>3. m[i] \in Int /\ m[j] \in Int /\ i \in Int /\ j \in Int
    BY <2>1
  <2> QED BY <1>3, <2>1, <2>2, <2>3 DEF Embeds
<1> HIDE DEF w
<1> QED BY <1>1, <1>2, <1>4 DEF w

\* What is selected of a map, the last first, has later ones before earlier ones.
LEMMA NewestFirst ==
    ASSUME NEW map \in Seq(Editors), Distinct(map), NEW S
    PROVE  LET w == Selected(Reverse(map), S)
           IN  /\ w \in Seq(Editors)
               /\ ToSet(w) = ToSet(map) \cap S
               /\ \A i, j \in DOMAIN w : i < j => Position(map, w[j]) < Position(map, w[i])
<1> DEFINE r == Reverse(map)
           w == Selected(r, S)
<1>1. /\ Len(map) \in Nat /\ DOMAIN map = 1..Len(map)
      /\ r \in Seq(Editors) /\ Len(r) = Len(map) /\ DOMAIN r = 1..Len(map)
      /\ \A i \in 1..Len(map) : r[i] = map[(Len(map) - i) + 1]
  BY DEF Reverse
<1>2. ToSet(r) = ToSet(map)
  <2> HIDE DEF r
  <2>1. \A i \in 1..Len(map) : (Len(map) - i) + 1 \in 1..Len(map)
                               /\ map[i] = r[(Len(map) - i) + 1]
    <3> SUFFICES ASSUME NEW i \in 1..Len(map)
                 PROVE  (Len(map) - i) + 1 \in 1..Len(map) /\ map[i] = r[(Len(map) - i) + 1]
      OBVIOUS
    <3>1. (Len(map) - i) + 1 \in 1..Len(map) /\ (Len(map) - ((Len(map) - i) + 1)) + 1 = i
      BY <1>1
    <3> QED BY <1>1, <3>1
  <2> QED BY <1>1, <2>1 DEF ToSet
<1>3. \A p \in 1..Len(map) : Position(map, map[p]) = p
  BY <1>1 DEF Position, Distinct
<1>4. /\ w \in Seq(Editors) /\ ToSet(w) = ToSet(map) \cap S
      /\ \E m : Embeds(m, w, r, Len(r), S)
  <2> HIDE DEF r
  <2> QED BY <1>1, <1>2, SelectedEmbeds, SelectedElements
<1>5. PICK m : Embeds(m, w, r, Len(r), S)
  BY <1>4
<1>6. ASSUME NEW i \in DOMAIN w, NEW j \in DOMAIN w, i < j
      PROVE  Position(map, w[j]) < Position(map, w[i])
  <2> HIDE DEF w, r
  <2>1. i \in 1..Len(w) /\ j \in 1..Len(w)
    BY <1>4
  <2>2. /\ m[i] \in 1..Len(map) /\ m[j] \in 1..Len(map) /\ m[i] < m[j]
        /\ w[i] = r[m[i]] /\ w[j] = r[m[j]]
    BY <1>1, <1>5, <1>6, <2>1 DEF Embeds
  <2>a. ASSUME NEW p \in 1..Len(map) PROVE (Len(map) - p) + 1 \in 1..Len(map)
    BY <1>1
  <2>3. /\ w[i] = map[(Len(map) - m[i]) + 1] /\ (Len(map) - m[i]) + 1 \in 1..Len(map)
        /\ w[j] = map[(Len(map) - m[j]) + 1] /\ (Len(map) - m[j]) + 1 \in 1..Len(map)
    BY <1>1, <2>2, <2>a
  <2>4. /\ Position(map, w[i]) = (Len(map) - m[i]) + 1
        /\ Position(map, w[j]) = (Len(map) - m[j]) + 1
    BY <1>3, <2>3
  <2> QED BY <1>1, <2>2, <2>4
<1> QED BY <1>4, <1>6

\* getCandidatesForFile returns every entry of the map, none before a better one.
LEMMA CandidatesFacts ==
    ASSUME NEW map \in Seq(Editors), Distinct(map), NEW file
    PROVE  LET c == Candidates(map, file)
           IN  /\ c \in Seq(Editors)
               /\ ToSet(c) = ToSet(map)
               /\ \A i, j \in DOMAIN c : i < j =>
                     IF Matches(c[j], file) <=> Matches(c[i], file)
                     THEN ~(Position(map, c[j]) > Position(map, c[i]))
                     ELSE ~Matches(c[j], file)
<1> DEFINE M == Matching(file)
           a == Selected(Reverse(map), M)
           b == Selected(Reverse(map), Editors \ M)
           c == a \o b
<1>1. /\ a \in Seq(Editors) /\ ToSet(a) = ToSet(map) \cap M
      /\ \A i, j \in DOMAIN a : i < j => Position(map, a[j]) < Position(map, a[i])
  BY NewestFirst
<1>2. /\ b \in Seq(Editors) /\ ToSet(b) = ToSet(map) \cap (Editors \ M)
      /\ \A i, j \in DOMAIN b : i < j => Position(map, b[j]) < Position(map, b[i])
  BY NewestFirst
<1>3. Candidates(map, file) = c
  BY DEF Candidates
<1> HIDE DEF a, b
<1>4. /\ c \in Seq(Editors) /\ Len(c) = Len(a) + Len(b)
      /\ Len(a) \in Nat /\ Len(b) \in Nat
      /\ DOMAIN a = 1..Len(a) /\ DOMAIN b = 1..Len(b) /\ DOMAIN c = 1..(Len(a) + Len(b))
      /\ \A i \in 1..(Len(a) + Len(b)) : c[i] = IF i <= Len(a) THEN a[i] ELSE b[i - Len(a)]
  BY <1>1, <1>2, ConcatProperties
<1> HIDE DEF c
<1>5. ToSet(c) = ToSet(map)
  <2>1. ToSet(c) = ToSet(a) \cup ToSet(b)
    <3>1. ASSUME NEW i \in 1..Len(a) PROVE i \in 1..(Len(a) + Len(b)) /\ c[i] = a[i]
      BY <1>4
    <3>2. ASSUME NEW i \in 1..Len(b)
          PROVE  Len(a) + i \in 1..(Len(a) + Len(b)) /\ c[Len(a) + i] = b[i]
      <4>1. /\ Len(a) + i \in 1..(Len(a) + Len(b)) /\ ~(Len(a) + i <= Len(a))
            /\ (Len(a) + i) - Len(a) = i
        BY <1>4
      <4> QED BY <1>4, <4>1
    <3>3. ASSUME NEW i \in 1..(Len(a) + Len(b))
          PROVE  \/ i \in 1..Len(a) /\ c[i] = a[i]
                 \/ i - Len(a) \in 1..Len(b) /\ c[i] = b[i - Len(a)]
      BY <1>4
    <3>4. /\ ToSet(a) = {a[i] : i \in 1..Len(a)} /\ ToSet(b) = {b[i] : i \in 1..Len(b)}
          /\ ToSet(c) = {c[i] : i \in 1..(Len(a) + Len(b))}
      BY <1>4 DEF ToSet
    <3> QED BY <3>1, <3>2, <3>3, <3>4
  <2>2. ToSet(map) \subseteq Editors
    BY DEF ToSet
  <2> QED BY <1>1, <1>2, <2>1, <2>2
<1>6. ASSUME NEW i \in DOMAIN c, NEW j \in DOMAIN c, i < j
      PROVE  IF Matches(c[j], file) <=> Matches(c[i], file)
             THEN ~(Position(map, c[j]) > Position(map, c[i]))
             ELSE ~Matches(c[j], file)
  <2>1. \A k \in 1..Len(a) : a[k] \in M
    BY <1>1, <1>4 DEF ToSet
  <2>2. \A k \in 1..Len(b) : b[k] \in Editors \ M
    BY <1>2, <1>4 DEF ToSet
  <2>a. Position(map, c[i]) \in Int /\ Position(map, c[j]) \in Int
    <3>1. c[i] \in ToSet(map) /\ c[j] \in ToSet(map)
      BY <1>5 DEF ToSet
    <3>2. ASSUME NEW e \in ToSet(map) PROVE Position(map, e) \in Int
      BY DEF Position, ToSet
    <3> QED BY <3>1, <3>2
  <2>3. CASE j <= Len(a)
    <3>1. i \in 1..Len(a) /\ j \in 1..Len(a) /\ c[i] = a[i] /\ c[j] = a[j]
      BY <1>4, <1>6, <2>3
    <3>2. Matches(c[i], file) /\ Matches(c[j], file)
      BY <2>1, <3>1 DEF Matching
    <3>3. Position(map, c[j]) < Position(map, c[i])
      BY <1>1, <1>4, <1>6, <3>1
    <3> QED BY <2>a, <3>2, <3>3
  <2>4. CASE i <= Len(a) /\ ~(j <= Len(a))
    <3>1. i \in 1..Len(a) /\ j - Len(a) \in 1..Len(b) /\ c[i] = a[i] /\ c[j] = b[j - Len(a)]
      BY <1>4, <1>6, <2>4
    <3> QED BY <2>1, <2>2, <3>1 DEF Matching
  <2>5. CASE ~(i <= Len(a))
    <3>1. /\ i - Len(a) \in 1..Len(b) /\ c[i] = b[i - Len(a)]
          /\ j - Len(a) \in 1..Len(b) /\ c[j] = b[j - Len(a)]
          /\ i - Len(a) < j - Len(a)
      BY <1>4, <1>6, <2>5
    <3>2. ~Matches(c[i], file) /\ ~Matches(c[j], file)
      BY <2>2, <3>1 DEF Matching
    <3>3. Position(map, c[j]) < Position(map, c[i])
      BY <1>2, <1>4, <3>1
    <3> QED BY <2>a, <3>2, <3>3
  <2> QED BY <2>3, <2>4, <2>5
<1> QED BY <1>3, <1>4, <1>5, <1>6

\* The first element of a list and the others.
LEMMA HeadFacts ==
    ASSUME NEW c \in Seq(Editors), c # <<>>
    PROVE  /\ Head(c) \in Editors /\ Head(c) = c[1] /\ 1 \in DOMAIN c
           /\ Tail(c) \in Seq(Editors)
           /\ ToSet(c) = {Head(c)} \cup ToSet(Tail(c))
           /\ \A i \in DOMAIN Tail(c) : i + 1 \in DOMAIN c /\ Tail(c)[i] = c[i + 1]
<1>1. /\ Len(c) \in Nat /\ Len(c) >= 1 /\ DOMAIN c = 1..Len(c) /\ Head(c) = c[1]
      /\ Tail(c) \in Seq(Editors) /\ DOMAIN Tail(c) = 1..(Len(c) - 1)
      /\ \A i \in 1..(Len(c) - 1) : Tail(c)[i] = c[i + 1]
  BY HeadTailProperties
<1>2. ToSet(c) = {c[1]} \cup ToSet(Tail(c))
  <2> DEFINE t == Tail(c)
  <2> HIDE DEF t
  <2>1. \A i \in 1..Len(c) : (i = 1 \/ (i - 1 \in 1..(Len(c) - 1) /\ c[i] = t[i - 1]))
    <3> SUFFICES ASSUME NEW i \in 1..Len(c), i # 1
                 PROVE  i - 1 \in 1..(Len(c) - 1) /\ c[i] = t[i - 1]
      OBVIOUS
    <3>1. i - 1 \in 1..(Len(c) - 1) /\ (i - 1) + 1 = i
      BY <1>1
    <3> QED BY <1>1, <3>1 DEF t
  <2>2. \A i \in 1..(Len(c) - 1) : i + 1 \in 1..Len(c) /\ t[i] = c[i + 1]
    BY <1>1 DEF t
  <2>3. ToSet(t) = {t[i] : i \in 1..(Len(c) - 1)} /\ ToSet(c) = {c[i] : i \in 1..Len(c)}
    BY <1>1 DEF ToSet, t
  <2>4. ToSet(c) = {c[1]} \cup ToSet(t)
    BY <1>1, <2>1, <2>2, <2>3
  <2> QED BY <2>4 DEF t
<1> QED BY <1>1, <1>2

\* Every step keeps the types.
LEMMA SessionsTypeStep ==
    SessionsInv /\ [SessionsNext]_sessionsVars => SessionsTypeOK'
<1> SUFFICES ASSUME SessionsInv, [SessionsNext]_sessionsVars PROVE SessionsTypeOK'
  OBVIOUS
<1> USE DEF SessionsTypeOK, editorVars, serverVars, lookupVars
<1>0. SessionsTypeOK
  BY DEF SessionsInv
<1>1. ASSUME NEW l \in Launchers, Launch(l) PROVE SessionsTypeOK'
  BY <1>0, <1>1 DEF Launch, LaunchStages
<1>2. ASSUME NEW l \in Launchers, Lookup(l) PROVE SessionsTypeOK'
  <2>1. CASE Listening /\ ~Throws(entries[bound])
    <3>1. bound \in Servers /\ entries[bound] \in Seq(Editors) /\ Distinct(entries[bound])
      BY <1>0, <2>1 DEF Listening, SessionsInv, DistinctInv
    <3>2. Candidates(entries[bound], wants[l].file) \in Seq(Editors)
      BY <3>1, CandidatesFacts
    <3>3. PICK cs \in Seq(Editors) : cs = Candidates(entries[bound], wants[l].file)
      BY <3>2
    <3>4. /\ launcher' = [launcher EXCEPT ![l] = "looking"]
          /\ asked' = [asked EXCEPT ![l] = bound]
          /\ candidates' = [candidates EXCEPT ![l] = cs]
          /\ seen' = [seen EXCEPT ![l] = entries[bound]]
          /\ UNCHANGED <<editorVars, posts, serverVars, wants, reached, found>>
      BY <1>2, <2>1, <3>3 DEF Lookup
    <3>5. launcher' \in [Launchers -> LaunchStages] /\ asked' \in [Launchers -> Servers \cup {Nobody}]
      BY <1>0, <3>1, <3>4 DEF LaunchStages
    <3>6. candidates' \in [Launchers -> Seq(Editors)] /\ seen' \in [Launchers -> Seq(Editors)]
      BY <1>0, <3>1, <3>3, <3>4
    <3> QED BY <1>0, <3>4, <3>5, <3>6
  <2>2. CASE ~(Listening /\ ~Throws(entries[bound]))
    BY <1>0, <1>2, <2>2 DEF Lookup, LaunchStages
  <2> QED BY <2>1, <2>2
<1>3. ASSUME NEW l \in Launchers, Connect(l) PROVE SessionsTypeOK'
  BY <1>0, <1>3 DEF Connect
<1>4. ASSUME NEW l \in Launchers, Resume(l) PROVE SessionsTypeOK'
  <2>1. /\ candidates[l] \in Seq(Editors) /\ candidates[l] # <<>>
        /\ asked[l] \in Servers /\ entries[asked[l]] \in Seq(Editors)
    BY <1>0, <1>4 DEF Resume, SessionsInv, LookupInv, LookupHeld, Looking
  <2>2. Head(candidates[l]) \in Editors /\ Tail(candidates[l]) \in Seq(Editors)
    BY <2>1, HeadFacts
  <2>3. Deleted(entries[asked[l]], Head(candidates[l])) \in Seq(Editors)
    BY <2>1, <2>2, DeletedFacts
  <2>4. CASE reached[l] = "up"
    <3>1. /\ launcher' = [launcher EXCEPT ![l] = "answered"]
          /\ found' = [found EXCEPT ![l] = Head(candidates[l])]
          /\ reached' = [reached EXCEPT ![l] = "unknown"]
          /\ UNCHANGED <<candidates, entries>>
          /\ UNCHANGED <<editorVars, posts, server, bound, wants, asked, seen>>
      BY <1>4, <2>4 DEF Resume
    <3>2. launcher' \in [Launchers -> LaunchStages]
      BY <1>0, <3>1 DEF LaunchStages
    <3>3. found' \in [Launchers -> Editors \cup {Nobody}]
      BY <1>0, <2>2, <3>1
    <3> QED BY <1>0, <3>1, <3>2, <3>3
  <2>5. CASE reached[l] = "down"
    <3>1. PICK es \in Seq(Editors) : es = Deleted(entries[asked[l]], Head(candidates[l]))
      BY <2>3
    <3>2. /\ entries' = [entries EXCEPT ![asked[l]] = es]
          /\ candidates' = [candidates EXCEPT ![l] = Tail(candidates[l])]
          /\ reached' = [reached EXCEPT ![l] = "unknown"]
          /\ UNCHANGED <<launcher, found>>
          /\ UNCHANGED <<editorVars, posts, server, bound, wants, asked, seen>>
      BY <1>4, <2>5, <3>1 DEF Resume
    <3>3. entries' \in [Servers -> Seq(Editors)]
      BY <1>0, <2>1, <3>1, <3>2
    <3>4. candidates' \in [Launchers -> Seq(Editors)]
      BY <1>0, <2>2, <3>2
    <3> QED BY <1>0, <3>2, <3>3, <3>4
  <2> QED BY <1>4, <2>4, <2>5 DEF Resume
<1>5. ASSUME NEW l \in Launchers, NoneLeft(l) PROVE SessionsTypeOK'
  BY <1>0, <1>5 DEF NoneLeft, LaunchStages
<1>6. ASSUME NEW l \in Launchers, LookupLost(l) PROVE SessionsTypeOK'
  BY <1>0, <1>6 DEF LookupLost, Forget, LaunchStages
<1>7. ASSUME NEW l \in Launchers, TakeAnswer(l) PROVE SessionsTypeOK'
  <2>1. Outcome(l) \in LaunchStages
    BY DEF Outcome, LaunchStages
  <2>2. /\ launcher' = [launcher EXCEPT ![l] = Outcome(l)]
        /\ UNCHANGED <<editorVars, posts, serverVars, wants>>
    BY <1>7 DEF TakeAnswer
  <2>3. launcher' \in [Launchers -> LaunchStages]
    BY <1>0, <2>1, <2>2
  <2>4. /\ asked' \in [Launchers -> Servers \cup {Nobody}]
        /\ candidates' \in [Launchers -> Seq(Editors)]
        /\ reached' \in [Launchers -> {"unknown", "up", "down"}]
        /\ found' \in [Launchers -> Editors \cup {Nobody}]
        /\ seen' \in [Launchers -> Seq(Editors)]
    BY <1>0, <1>7 DEF TakeAnswer, Forget
  <2> QED BY <1>0, <2>2, <2>3, <2>4
<1>8. ASSUME NEW s \in Servers, Unlink(s) \/ Bind(s) \/ Stop(s) PROVE SessionsTypeOK'
  <2>1. server' \in [Servers -> {"off", "binding", "up", "mute", "down"}]
    <3>1. \E x \in {"binding", "up", "mute", "down"} : server' = [server EXCEPT ![s] = x]
      BY <1>8 DEF Unlink, Bind, Stop
    <3> QED BY <1>0, <3>1
  <2>2. /\ \A t \in Servers \ {s} : server'[t] = server[t]
        /\ server[s] \in {"up", "down"} => server'[s] \in {"up", "down"}
    BY <1>0, <1>8 DEF Unlink, Bind, Stop
  <2>3. bound' \in {bound, Nobody} \/ (bound' = s /\ server'[s] = "up")
    BY <1>0, <1>8 DEF Unlink, Bind, Stop
  <2>4. bound' \in {t \in Servers : server'[t] \in {"up", "down"}} \cup {Nobody}
    BY <1>0, <2>2, <2>3
  <2> QED BY <1>0, <1>8, <2>1, <2>4 DEF Unlink, Bind, Stop
<1>9. ASSUME NEW post \in posts, Handle(post) PROVE SessionsTypeOK'
  <2>1. post.to \in Servers /\ post.editor \in Editors /\ entries[post.to] \in Seq(Editors)
    BY <1>0 DEF Post
  <2>2. /\ Added(entries[post.to], post.editor) \in Seq(Editors)
        /\ Deleted(entries[post.to], post.editor) \in Seq(Editors)
    BY <2>1, AddedFacts, DeletedFacts
  <2>3. entries' \in [Servers -> Seq(Editors)]
    BY <1>0, <1>9, <2>1, <2>2 DEF Handle
  <2> QED BY <1>0, <1>9, <2>3 DEF Handle
<1>10. ASSUME NEW e \in Editors, OpenEditor(e) \/ Terminate(e) \/ CloseEditor(e)
       PROVE  SessionsTypeOK'
  <2>1. \A type \in {"add", "delete"} : Sent(type, e) \in SUBSET Post
    BY <1>10 DEF Sent, Post, Listening
  <2>2. posts' \in SUBSET Post
    BY <1>0, <1>10, <2>1 DEF OpenEditor, Terminate, CloseEditor
  <2>3. editor' \in [Editors -> {"new", "open", "ending", "closed"}]
    BY <1>0, <1>10 DEF OpenEditor, Terminate, CloseEditor
  <2> QED BY <1>0, <1>10, <2>2, <2>3 DEF OpenEditor, Terminate, CloseEditor
<1>11. CASE UNCHANGED sessionsVars
  BY <1>0, <1>11 DEF sessionsVars
<1> QED BY <1>1, <1>2, <1>3, <1>4, <1>5, <1>6, <1>7, <1>8, <1>9, <1>10, <1>11 DEF SessionsNext

\* How entries change: an entry goes only when its editor is ending or closed,
\* and one comes only by a registration.
LEMMA EntriesStep ==
    ASSUME SessionsInv, [SessionsNext]_sessionsVars, NEW s \in Servers
    PROVE  /\ Distinct(entries'[s])
           /\ \A e \in ToSet(entries[s]) :
                 e \notin ToSet(entries'[s]) => editor[e] \in {"ending", "closed"}
           /\ \A e \in ToSet(entries'[s]) :
                 \/ e \in ToSet(entries[s])
                 \/ \E post \in posts : /\ post.type = "add" /\ post.editor = e
                                        /\ posts' = posts \ {post}
                                        /\ editor' = editor /\ seen' = seen
<1>0. /\ SessionsTypeOK /\ entries[s] \in Seq(Editors) /\ Distinct(entries[s])
      /\ ToSet(entries[s]) \subseteq Editors
  BY DEF SessionsInv, SessionsTypeOK, DistinctInv, ToSet
<1>1. CASE entries'[s] = entries[s]
  BY <1>0, <1>1
<1>2. ASSUME NEW l \in Launchers, Resume(l), asked[l] = s, reached[l] = "down",
             entries'[s] = Deleted(entries[s], Head(candidates[l]))
      PROVE  /\ Distinct(entries'[s])
             /\ \A e \in ToSet(entries[s]) :
                   e \notin ToSet(entries'[s]) => editor[e] \in {"ending", "closed"}
             /\ \A e \in ToSet(entries'[s]) : e \in ToSet(entries[s])
  <2>1. /\ candidates[l] \in Seq(Editors) /\ candidates[l] # <<>>
        /\ editor[Head(candidates[l])] = "closed"
    BY <1>0, <1>2 DEF Resume, SessionsInv, LookupInv, LookupHeld, Looking, SessionsTypeOK
  <2>2. Head(candidates[l]) \in Editors
    BY <2>1, HeadFacts
  <2>3. /\ ToSet(entries'[s]) = ToSet(entries[s]) \ {Head(candidates[l])}
        /\ Distinct(entries'[s])
    BY <1>0, <1>2, <2>2, DeletedFacts
  <2> QED BY <2>1, <2>3
<1>3. ASSUME NEW l \in Launchers, Resume(l)
      PROVE  \/ entries'[s] = entries[s]
             \/ /\ asked[l] = s /\ reached[l] = "down"
                /\ entries'[s] = Deleted(entries[s], Head(candidates[l]))
  BY <1>0, <1>3 DEF Resume, SessionsTypeOK
<1>4. ASSUME NEW post \in posts, Handle(post), post.type = "add",
             entries'[s] = Added(entries[s], post.editor)
      PROVE  /\ Distinct(entries'[s])
             /\ ToSet(entries[s]) \subseteq ToSet(entries'[s])
             /\ \A e \in ToSet(entries'[s]) :
                   \/ e \in ToSet(entries[s])
                   \/ /\ post.type = "add" /\ post.editor = e
                      /\ posts' = posts \ {post}
                      /\ editor' = editor /\ seen' = seen
  <2>1. post.editor \in Editors
    BY <1>0 DEF SessionsTypeOK, Post
  <2>2. /\ ToSet(entries'[s]) = ToSet(entries[s]) \cup {post.editor}
        /\ Distinct(entries'[s])
    BY <1>0, <1>4, <2>1, AddedFacts
  <2>3. posts' = posts \ {post} /\ editor' = editor /\ seen' = seen
    BY <1>4 DEF Handle, editorVars, lookupVars
  <2> QED BY <1>4, <2>2, <2>3
<1>5. ASSUME NEW post \in posts, Handle(post), post.type = "delete",
             entries'[s] = Deleted(entries[s], post.editor)
      PROVE  /\ Distinct(entries'[s])
             /\ \A e \in ToSet(entries[s]) :
                   e \notin ToSet(entries'[s]) => editor[e] \in {"ending", "closed"}
             /\ \A e \in ToSet(entries'[s]) : e \in ToSet(entries[s])
  <2>1. post.editor \in Editors /\ editor[post.editor] \in {"ending", "closed"}
    BY <1>0, <1>5 DEF SessionsTypeOK, Post, SessionsInv, PostsInv
  <2> QED BY <1>0, <1>5, <2>1, DeletedFacts
<1>6. ASSUME NEW post \in posts, Handle(post)
      PROVE  \/ entries'[s] = entries[s]
             \/ /\ post.type = "add"
                /\ entries'[s] = Added(entries[s], post.editor)
             \/ /\ post.type = "delete"
                /\ entries'[s] = Deleted(entries[s], post.editor)
  <2>1. post.type \in {"add", "delete"} /\ entries \in [Servers -> Seq(Editors)]
    BY <1>0 DEF SessionsTypeOK, Post
  <2> QED BY <1>6, <2>1 DEF Handle
<1>7. \/ entries'[s] = entries[s]
      \/ \E l \in Launchers : Resume(l)
      \/ \E post \in posts : Handle(post)
  BY DEF SessionsNext, sessionsVars, serverVars, Launch, Lookup, Connect, NoneLeft, LookupLost,
         TakeAnswer, Unlink, Bind, Stop, OpenEditor, Terminate, CloseEditor
<1> QED
  <2>1. ASSUME NEW l \in Launchers, Resume(l), entries'[s] # entries[s]
        PROVE  /\ Distinct(entries'[s])
               /\ \A e \in ToSet(entries[s]) :
                     e \notin ToSet(entries'[s]) => editor[e] \in {"ending", "closed"}
               /\ \A e \in ToSet(entries'[s]) : e \in ToSet(entries[s])
    BY <1>2, <1>3, <2>1
  <2>2. ASSUME NEW post \in posts, Handle(post), entries'[s] # entries[s]
        PROVE  \/ /\ Distinct(entries'[s])
                  /\ ToSet(entries[s]) \subseteq ToSet(entries'[s])
                  /\ \A e \in ToSet(entries'[s]) :
                        \/ e \in ToSet(entries[s])
                        \/ /\ post.type = "add" /\ post.editor = e
                           /\ posts' = posts \ {post}
                           /\ editor' = editor /\ seen' = seen
               \/ /\ Distinct(entries'[s])
                  /\ \A e \in ToSet(entries[s]) :
                        e \notin ToSet(entries'[s]) => editor[e] \in {"ending", "closed"}
                  /\ \A e \in ToSet(entries'[s]) : e \in ToSet(entries[s])
    BY <1>4, <1>5, <1>6, <2>2
  <2> QED BY <1>1, <1>7, <2>1, <2>2

\* What else a step may change: an editor never goes back, what a look-up saw is
\* the entries of a server, and a request is sent by an editor that opens or ends.
LEMMA SurroundingsStep ==
    ASSUME SessionsInv, [SessionsNext]_sessionsVars
    PROVE  /\ workspace' = workspace /\ wants' = wants
           /\ \A e \in Editors :
                 /\ editor[e] # "new" => editor'[e] # "new"
                 /\ editor[e] \in {"ending", "closed"} => editor'[e] \in {"ending", "closed"}
                 /\ editor[e] = "closed" => editor'[e] = "closed"
           /\ \A l \in Launchers :
                 \/ seen'[l] = seen[l] \/ seen'[l] = <<>>
                 \/ \E s \in Servers : seen'[l] = entries[s] /\ entries' = entries
           /\ \A post \in posts' \ posts :
                 /\ editor'[post.editor] # "new"
                 /\ post.type = "delete" => editor'[post.editor] = "ending"
                 /\ post.type = "add" => /\ editor[post.editor] = "new"
                                        /\ entries' = entries /\ seen' = seen
                                        /\ posts' \ posts = {post}
<1>0. SessionsTypeOK
  BY DEF SessionsInv
<1>1. workspace' = workspace /\ wants' = wants
  BY DEF SessionsNext, sessionsVars, editorVars, serverVars, Launch, Lookup, Connect, Resume,
         NoneLeft, LookupLost, TakeAnswer, Unlink, Bind, Stop, Handle, OpenEditor, Terminate,
         CloseEditor
<1>2. \/ editor' = editor /\ posts' \subseteq posts
      \/ \E e \in Editors : OpenEditor(e) \/ Terminate(e) \/ CloseEditor(e)
  BY DEF SessionsNext, sessionsVars, editorVars, serverVars, Launch, Lookup, Connect, Resume,
         NoneLeft, LookupLost, TakeAnswer, Unlink, Bind, Stop, Handle
<1>4. ASSUME NEW e \in Editors, OpenEditor(e) \/ Terminate(e) \/ CloseEditor(e)
      PROVE  /\ \A f \in Editors :
                   /\ editor[f] # "new" => editor'[f] # "new"
                   /\ editor[f] \in {"ending", "closed"} => editor'[f] \in {"ending", "closed"}
                   /\ editor[f] = "closed" => editor'[f] = "closed"
             /\ entries' = entries /\ seen' = seen
             /\ \A post \in posts' \ posts :
                   /\ post.editor = e /\ posts' \ posts = {post}
                   /\ post.type = "add" => editor[e] = "new" /\ editor'[e] = "open"
                   /\ post.type = "delete" => editor'[e] = "ending"
                   /\ editor'[e] # "new"
  <2>1. entries' = entries /\ seen' = seen
    BY <1>4 DEF OpenEditor, Terminate, CloseEditor, serverVars, lookupVars
  <2>2. \A f \in Editors : editor'[f] = IF f = e THEN editor'[e] ELSE editor[f]
    BY <1>0, <1>4 DEF OpenEditor, Terminate, CloseEditor, SessionsTypeOK
  <2>3. CASE OpenEditor(e)
    <3>1. editor[e] = "new" /\ editor'[e] = "open"
      BY <1>0, <2>3 DEF OpenEditor, SessionsTypeOK
    <3>2. \A post \in posts' \ posts : /\ post = [type |-> "add", editor |-> e, to |-> bound]
                                       /\ posts' \ posts = {post}
      BY <2>3 DEF OpenEditor, Sent
    <3> QED BY <2>1, <2>2, <3>1, <3>2
  <2>4. CASE Terminate(e)
    <3>1. editor[e] = "open" /\ editor'[e] = "ending"
      BY <1>0, <2>4 DEF Terminate, SessionsTypeOK
    <3>2. \A post \in posts' \ posts : /\ post = [type |-> "delete", editor |-> e, to |-> bound]
                                       /\ posts' \ posts = {post}
      BY <2>4 DEF Terminate, Sent
    <3> QED BY <2>1, <2>2, <3>1, <3>2
  <2>5. CASE CloseEditor(e)
    <3>1. editor[e] # "new" /\ editor'[e] = "closed" /\ posts' = posts
      BY <1>0, <2>5 DEF CloseEditor, Accepts, SessionsTypeOK
    <3> QED BY <2>1, <2>2, <3>1
  <2> QED BY <1>4, <2>3, <2>4, <2>5
<1>5. \/ seen' = seen
      \/ \E l \in Launchers : Lookup(l) \/ LookupLost(l) \/ TakeAnswer(l)
  BY DEF SessionsNext, sessionsVars, editorVars, serverVars, lookupVars, Launch, Connect, Resume,
         NoneLeft, Unlink, Bind, Stop, Handle, OpenEditor, Terminate, CloseEditor
<1>6. ASSUME NEW l \in Launchers, Lookup(l) \/ LookupLost(l) \/ TakeAnswer(l), NEW k \in Launchers
      PROVE  \/ seen'[k] = seen[k] \/ seen'[k] = <<>>
             \/ \E s \in Servers : seen'[k] = entries[s] /\ entries' = entries
  <2>1. seen \in [Launchers -> Seq(Editors)]
    BY <1>0 DEF SessionsTypeOK
  <2>2. CASE Lookup(l)
    BY <2>1, <2>2 DEF Lookup, Listening, serverVars
  <2>3. CASE LookupLost(l) \/ TakeAnswer(l)
    BY <2>1, <2>3 DEF LookupLost, TakeAnswer, Forget
  <2> QED BY <1>6, <2>2, <2>3
<1>7. \A l \in Launchers :
         \/ seen'[l] = seen[l] \/ seen'[l] = <<>>
         \/ \E s \in Servers : seen'[l] = entries[s] /\ entries' = entries
  BY <1>5, <1>6
<1>8. CASE editor' = editor /\ posts' \subseteq posts
  BY <1>1, <1>7, <1>8
<1>9. ASSUME NEW e \in Editors, OpenEditor(e) \/ Terminate(e) \/ CloseEditor(e)
      PROVE  /\ \A f \in Editors :
                   /\ editor[f] # "new" => editor'[f] # "new"
                   /\ editor[f] \in {"ending", "closed"} => editor'[f] \in {"ending", "closed"}
                   /\ editor[f] = "closed" => editor'[f] = "closed"
             /\ \A post \in posts' \ posts :
                   /\ editor'[post.editor] # "new"
                   /\ post.type = "delete" => editor'[post.editor] = "ending"
                   /\ post.type = "add" => /\ editor[post.editor] = "new"
                                          /\ entries' = entries /\ seen' = seen
                                          /\ posts' \ posts = {post}
  BY <1>4, <1>9
<1> QED BY <1>1, <1>2, <1>7, <1>8, <1>9

\* Every step keeps PostsInv.
LEMMA PostsStep ==
    SessionsInv /\ [SessionsNext]_sessionsVars => PostsInv'
<1> SUFFICES ASSUME SessionsInv, [SessionsNext]_sessionsVars PROVE PostsInv'
  OBVIOUS
<1>0. SessionsTypeOK /\ SessionsTypeOK' /\ PostsInv
  BY SessionsTypeStep DEF SessionsInv
<1>1. /\ \A post \in posts : post.editor \in Editors
      /\ \A s \in Servers : ToSet(entries[s]) \subseteq Editors
      /\ \A l \in Launchers : ToSet(seen[l]) \subseteq Editors
      /\ ToSet(<<>>) = {}
  BY <1>0 DEF SessionsTypeOK, Post, ToSet
<1>2. ASSUME NEW s \in Servers, NEW e \in ToSet(entries'[s])
      PROVE  editor'[e] # "new"
  BY <1>0, <1>1, <1>2, EntriesStep, SurroundingsStep DEF PostsInv
<1>3. ASSUME NEW l \in Launchers, NEW e \in ToSet(seen'[l])
      PROVE  editor'[e] # "new"
  <2>1. editor[e] # "new" /\ e \in Editors
    BY <1>0, <1>1, <1>3, SurroundingsStep DEF PostsInv
  <2> QED BY <2>1, SurroundingsStep
<1>4. ASSUME NEW post \in posts'
      PROVE  /\ editor'[post.editor] # "new"
             /\ post.type = "delete" => editor'[post.editor] \in {"ending", "closed"}
  <2>1. CASE post \in posts
    BY <1>0, <1>1, <2>1, SurroundingsStep DEF PostsInv
  <2>2. CASE post \notin posts
    BY <2>2, SurroundingsStep
  <2> QED BY <2>1, <2>2
<1>5. ASSUME NEW post \in posts', post.type = "add", post \in posts
      PROVE  /\ \A s \in Servers : post.editor \notin ToSet(entries'[s])
             /\ \A l \in Launchers : post.editor \notin ToSet(seen'[l])
             /\ \A other \in posts' :
                   other.type = "add" /\ other.editor = post.editor => other = post
  <2>1. /\ editor[post.editor] # "new"
        /\ \A s \in Servers : post.editor \notin ToSet(entries[s])
        /\ \A l \in Launchers : post.editor \notin ToSet(seen[l])
        /\ \A other \in posts :
              other.type = "add" /\ other.editor = post.editor => other = post
    BY <1>0, <1>5 DEF PostsInv
  <2>2. ASSUME NEW s \in Servers PROVE post.editor \notin ToSet(entries'[s])
    <3> SUFFICES ASSUME post.editor \in ToSet(entries'[s]) PROVE FALSE
      OBVIOUS
    <3>1. PICK other \in posts : /\ other.type = "add" /\ other.editor = post.editor
                                 /\ posts' = posts \ {other}
      BY <2>1, EntriesStep
    <3> QED BY <2>1, <3>1
  <2>3. ASSUME NEW l \in Launchers PROVE post.editor \notin ToSet(seen'[l])
    BY <1>1, <2>1, SurroundingsStep
  <2>4. ASSUME NEW other \in posts', other.type = "add", other.editor = post.editor
        PROVE  other = post
    BY <2>1, <2>4, SurroundingsStep
  <2> QED BY <2>2, <2>3, <2>4
<1>6. ASSUME NEW post \in posts', post.type = "add", post \notin posts
      PROVE  /\ \A s \in Servers : post.editor \notin ToSet(entries'[s])
             /\ \A l \in Launchers : post.editor \notin ToSet(seen'[l])
             /\ \A other \in posts' :
                   other.type = "add" /\ other.editor = post.editor => other = post
  <2>1. /\ editor[post.editor] = "new" /\ entries' = entries /\ seen' = seen
        /\ posts' \ posts = {post}
    BY <1>6, SurroundingsStep
  <2>2. \A other \in posts : other.editor # post.editor
    BY <1>0, <2>1 DEF PostsInv
  <2> QED BY <1>0, <2>1, <2>2 DEF PostsInv
<1> QED BY <1>2, <1>3, <1>4, <1>5, <1>6 DEF PostsInv

\* What a look-up saw and is gone stays so.
LEMMA GoneStays ==
    ASSUME SessionsInv, [SessionsNext]_sessionsVars,
           NEW l \in Launchers, asked[l] \in Servers, asked'[l] = asked[l],
           NEW e \in ToSet(seen[l]), Gone(l, e)
    PROVE  Gone(l, e)'
<1>1. e \in Editors /\ PostsInv
  BY DEF SessionsInv, SessionsTypeOK, ToSet
<1>2. editor[e] = "closed" /\ e \notin ToSet(entries[asked[l]])
  BY DEF Gone
<1>3. \A post \in posts : post.type = "add" => post.editor # e
  BY <1>1 DEF PostsInv
<1>4. e \notin ToSet(entries'[asked[l]])
  BY <1>2, <1>3, EntriesStep
<1>5. editor'[e] = "closed"
  BY <1>1, <1>2, SurroundingsStep
<1> QED BY <1>4, <1>5 DEF Gone

\* A step that leaves a launcher alone keeps what holds of its look-up.
LEMMA OthersLookup ==
    ASSUME SessionsInv, [SessionsNext]_sessionsVars, NEW l \in Launchers,
           launcher'[l] = launcher[l], asked'[l] = asked[l], candidates'[l] = candidates[l],
           reached'[l] = reached[l], found'[l] = found[l], seen'[l] = seen[l]
    PROVE  LookupHeld(l)'
<1>1. LookupHeld(l) /\ SessionsTypeOK
  BY DEF SessionsInv, LookupInv
<1>2. \A e, f : Better(l, e, f)' <=> Better(l, e, f)
  BY SurroundingsStep DEF Better, Matches
<1>3. CASE launcher[l] = "looking"
  <2>1. Looking(l) /\ asked[l] \in Servers
    BY <1>1, <1>3 DEF LookupHeld, Looking
  <2>2. \A e \in ToSet(seen[l]) : Gone(l, e) => Gone(l, e)'
    BY <2>1, GoneStays
  <2>3. reached[l] = "down" => editor'[Head(candidates[l])] = "closed"
    <3>1. candidates[l] # <<>> => Head(candidates[l]) \in Editors
      BY <1>1, HeadFacts DEF SessionsTypeOK
    <3> QED BY <2>1, <3>1, SurroundingsStep DEF Looking
  <2>4. Looking(l)'
    BY <1>2, <2>1, <2>2, <2>3 DEF Looking
  <2> QED BY <1>3, <2>4 DEF LookupHeld
<1>4. CASE launcher[l] = "answered"
  <2>1. Answered(l) /\ asked[l] \in Servers
    BY <1>1, <1>4 DEF LookupHeld, Answered
  <2>2. \A e \in ToSet(seen[l]) : Gone(l, e) => Gone(l, e)'
    BY <2>1, GoneStays
  <2>3. Answered(l)'
    BY <1>2, <2>1, <2>2 DEF Answered
  <2> QED BY <1>1, <1>4, <2>3 DEF LookupHeld
<1>5. CASE launcher[l] \notin {"looking", "answered"}
  BY <1>1, <1>5 DEF LookupHeld
<1> QED BY <1>3, <1>4, <1>5

\* The candidates of a new look-up are all it saw, the best first.
LEMMA LookupBegins ==
    ASSUME SessionsInv, [SessionsNext]_sessionsVars, NEW l \in Launchers, Lookup(l)
    PROVE  LookupHeld(l)'
<1>0. SessionsTypeOK /\ LookupHeld(l) /\ DistinctInv
  BY DEF SessionsInv, LookupInv
<1>1. /\ found'[l] = Nobody /\ reached'[l] = "unknown"
  BY <1>0 DEF Lookup, LookupHeld
<1>2. CASE Listening /\ ~Throws(entries[bound])
  <2>1. /\ bound \in Servers /\ entries[bound] \in Seq(Editors) /\ Distinct(entries[bound])
    BY <1>0, <1>2 DEF Listening, DistinctInv, SessionsTypeOK
  <2>a. PICK c : c = Candidates(entries[bound], wants[l].file)
    OBVIOUS
  <2>2. /\ launcher'[l] = "looking" /\ asked'[l] = bound
        /\ candidates'[l] = c /\ seen'[l] = entries[bound]
    BY <1>0, <1>2, <2>a DEF Lookup, SessionsTypeOK
  <2>3. /\ ToSet(c) = ToSet(entries[bound])
        /\ \A i, j \in DOMAIN c : i < j =>
              IF Matches(c[j], wants[l].file) <=> Matches(c[i], wants[l].file)
              THEN ~(Position(entries[bound], c[j]) > Position(entries[bound], c[i]))
              ELSE ~Matches(c[j], wants[l].file)
    BY <2>1, <2>a, CandidatesFacts
  <2>4. \A e, f : Better(l, e, f)' =
                     IF Matches(e, wants[l].file) <=> Matches(f, wants[l].file)
                     THEN Position(entries[bound], e) > Position(entries[bound], f)
                     ELSE Matches(e, wants[l].file)
    BY <2>2, SurroundingsStep DEF Better, Matches
  <2>5. ASSUME NEW i \in DOMAIN c, NEW j \in DOMAIN c, i < j
        PROVE  ~Better(l, c[j], c[i])'
    BY <2>3, <2>4, <2>5
  <2>6. Looking(l)'
    BY <1>1, <2>1, <2>2, <2>3, <2>5 DEF Looking
  <2> QED BY <1>1, <2>2, <2>6 DEF LookupHeld
<1>3. CASE ~(Listening /\ ~Throws(entries[bound]))
  <2>1. launcher'[l] = "failed"
    BY <1>0, <1>3 DEF Lookup, SessionsTypeOK
  <2> QED BY <1>1, <2>1 DEF LookupHeld
<1> QED BY <1>2, <1>3

\* An attempt that fails found its editor closed.
LEMMA ConnectKeeps ==
    ASSUME SessionsInv, [SessionsNext]_sessionsVars, NEW l \in Launchers, Connect(l)
    PROVE  LookupHeld(l)'
<1>0. /\ SessionsTypeOK /\ LookupHeld(l) /\ PostsInv
      /\ launcher[l] = "looking" /\ Looking(l)
  BY DEF SessionsInv, LookupInv, LookupHeld, Connect
<1>1. /\ candidates[l] \in Seq(Editors) /\ candidates[l] # <<>>
  BY <1>0 DEF Connect, SessionsTypeOK
<1>2. /\ Head(candidates[l]) \in Editors
      /\ Head(candidates[l]) \in ToSet(candidates[l])
  BY <1>1, HeadFacts
<1>3. editor[Head(candidates[l])] # "new"
  BY <1>0, <1>2 DEF Looking, PostsInv
<1>4. reached'[l] = "down" => editor[Head(candidates[l])] = "closed"
  BY <1>0, <1>2, <1>3 DEF Connect, Accepts, SessionsTypeOK
<1>5. /\ launcher' = launcher /\ asked' = asked /\ candidates' = candidates /\ editor' = editor
      /\ found' = found /\ seen' = seen /\ entries' = entries
  BY DEF Connect, editorVars, serverVars
<1>6. \A e, f : Better(l, e, f)' <=> Better(l, e, f)
  BY <1>5, SurroundingsStep DEF Better, Matches
<1>7. Looking(l)'
  BY <1>0, <1>1, <1>4, <1>5, <1>6 DEF Looking, Gone
<1> QED BY <1>0, <1>5, <1>7 DEF LookupHeld

\* A candidate that took the connection: what is better is gone already.
LEMMA ResumeAnswers ==
    ASSUME SessionsInv, [SessionsNext]_sessionsVars, NEW l \in Launchers, Resume(l),
           reached[l] = "up"
    PROVE  LookupHeld(l)'
<1>0. SessionsTypeOK /\ launcher[l] = "looking" /\ Looking(l)
  BY DEF SessionsInv, LookupInv, LookupHeld, Resume
<1> DEFINE c == candidates[l]
<1>1. c \in Seq(Editors) /\ c # <<>>
  BY <1>0 DEF Looking, SessionsTypeOK
<1>2. /\ launcher'[l] = "answered" /\ found'[l] = Head(c) /\ reached'[l] = "unknown"
      /\ asked' = asked /\ seen' = seen /\ editor' = editor /\ entries' = entries
  BY <1>0 DEF Resume, SessionsTypeOK, editorVars, serverVars
<1>3. Head(c) = c[1] /\ 1 \in DOMAIN c /\ DOMAIN c = 1..Len(c) /\ Len(c) \in Nat
  BY <1>1, HeadFacts
<1>4. \A e, f : Better(l, e, f)' <=> Better(l, e, f)
  BY <1>2, SurroundingsStep DEF Better, Matches
<1>5. ASSUME NEW e \in ToSet(seen[l]), Better(l, e, Head(c)) PROVE e \notin ToSet(c)
  <2> SUFFICES ASSUME NEW j \in DOMAIN c, e = c[j] PROVE FALSE
    BY DEF ToSet
  <2>1. CASE j = 1
    <3>1. Position(seen[l], e) \in Int
      BY <1>0 DEF Position, ToSet, SessionsTypeOK
    <3>2. Better(l, e, e)
      BY <1>3, <1>5, <2>1
    <3>3. Position(seen[l], e) > Position(seen[l], e)
      BY <3>2 DEF Better
    <3> QED BY <3>1, <3>3
  <2>2. CASE j # 1
    <3>1. 1 < j
      BY <1>3, <2>2
    <3>2. ~Better(l, c[j], c[1])
      BY <1>0, <1>3, <3>1 DEF Looking
    <3> QED BY <1>3, <1>5, <3>2
  <2> QED BY <2>1, <2>2
<1>6. \A e \in ToSet(seen[l]) : Better(l, e, Head(c)) => Gone(l, e)
  BY <1>0, <1>5 DEF Looking
<1>7. Head(c) # Nobody
  BY <1>1, HeadFacts, NamesAssumption
<1>8. \A e : Gone(l, e)' <=> Gone(l, e)
  BY <1>2 DEF Gone
<1> HIDE DEF c
<1>9. Answered(l)'
  BY <1>0, <1>2, <1>4, <1>6, <1>7, <1>8 DEF Answered, Looking
<1> QED BY <1>2, <1>9 DEF LookupHeld

\* A candidate that did not is closed, and is deleted.
LEMMA ResumeDeletes ==
    ASSUME SessionsInv, [SessionsNext]_sessionsVars, NEW l \in Launchers, Resume(l),
           reached[l] = "down"
    PROVE  LookupHeld(l)'
<1>0. SessionsTypeOK /\ launcher[l] = "looking" /\ Looking(l)
  BY DEF SessionsInv, LookupInv, LookupHeld, Resume
<1> DEFINE c == candidates[l]
           t == Tail(c)
<1>1. c \in Seq(Editors) /\ c # <<>> /\ editor[Head(c)] = "closed" /\ asked[l] \in Servers
  BY <1>0 DEF Looking, SessionsTypeOK
<1>2. /\ launcher' = launcher /\ found' = found /\ reached'[l] = "unknown" /\ candidates'[l] = t
      /\ asked' = asked /\ seen' = seen /\ editor' = editor
      /\ entries'[asked[l]] = Deleted(entries[asked[l]], Head(c))
  BY <1>0, <1>1 DEF Resume, SessionsTypeOK, editorVars
<1>3. /\ Head(c) \in Editors /\ ToSet(c) = {Head(c)} \cup ToSet(t)
      /\ \A i \in DOMAIN t : i + 1 \in DOMAIN c /\ t[i] = c[i + 1]
      /\ \A i \in DOMAIN t : i \in Int
  BY <1>1, HeadFacts
<1>4. ToSet(entries'[asked[l]]) = ToSet(entries[asked[l]]) \ {Head(c)}
  <2>1. entries[asked[l]] \in Seq(Editors)
    BY <1>0, <1>1 DEF SessionsTypeOK
  <2> QED BY <1>2, <1>3, <2>1, DeletedFacts
<1>5. \A e, f : Better(l, e, f)' <=> Better(l, e, f)
  BY <1>2, SurroundingsStep DEF Better, Matches
<1> HIDE DEF c, t
<1>6. \A e \in ToSet(seen'[l]) : e \in ToSet(candidates'[l]) \/ Gone(l, e)'
  BY <1>0, <1>1, <1>2, <1>3, <1>4 DEF Looking, Gone, c
<1>7. ASSUME NEW i \in DOMAIN t, NEW j \in DOMAIN t, i < j PROVE ~Better(l, t[j], t[i])
  <2>1. i + 1 < j + 1
    BY <1>3, <1>7
  <2> QED BY <1>0, <1>3, <2>1 DEF Looking, c
<1>8. Looking(l)'
  BY <1>0, <1>1, <1>2, <1>3, <1>5, <1>6, <1>7 DEF Looking, c
<1> QED BY <1>0, <1>2, <1>8 DEF LookupHeld

\* Every step keeps what a look-up knows.
LEMMA LookupStep ==
    SessionsInv /\ [SessionsNext]_sessionsVars => LookupInv'
<1> SUFFICES ASSUME SessionsInv, [SessionsNext]_sessionsVars, NEW k \in Launchers
             PROVE  LookupHeld(k)'
  BY DEF LookupInv
<1>0. SessionsTypeOK /\ LookupHeld(k)
  BY DEF SessionsInv, LookupInv
<1> DEFINE Others(l) == /\ launcher'[k] = launcher[k] \/ k = l
                        /\ asked'[k] = asked[k] \/ k = l
                        /\ candidates'[k] = candidates[k] \/ k = l
                        /\ reached'[k] = reached[k] \/ k = l
                        /\ found'[k] = found[k] \/ k = l
                        /\ seen'[k] = seen[k] \/ k = l
           Own(l) == \/ Launch(l) \/ Lookup(l) \/ Connect(l) \/ Resume(l) \/ NoneLeft(l)
                     \/ LookupLost(l) \/ TakeAnswer(l)
<1>1. ASSUME NEW l \in Launchers, Own(l) PROVE Others(l)
  BY <1>0, <1>1 DEF SessionsTypeOK, serverVars, lookupVars, Launch, Lookup, Connect, Resume,
         NoneLeft, LookupLost, TakeAnswer, Forget
<1>2. \/ \E l \in Launchers : Own(l)
      \/ UNCHANGED <<launcher, lookupVars>>
  BY DEF SessionsNext, sessionsVars, Unlink, Bind, Stop, Handle, OpenEditor, Terminate, CloseEditor
<1>3. CASE UNCHANGED <<launcher, lookupVars>>
  BY <1>3, OthersLookup DEF lookupVars
<1>4. ASSUME NEW l \in Launchers, Own(l), k # l PROVE LookupHeld(k)'
  BY <1>1, <1>4, OthersLookup
<1>5. CASE Launch(k)
  <2>1. /\ launcher'[k] \in {"spawned", "asking"}
        /\ reached' = reached /\ found' = found /\ launcher[k] = "idle"
    BY <1>0, <1>5 DEF Launch, SessionsTypeOK, lookupVars
  <2> QED BY <1>0, <2>1 DEF LookupHeld
<1>6. CASE Resume(k)
  BY <1>6, ResumeAnswers, ResumeDeletes DEF Resume
<1>7. CASE NoneLeft(k)
  <2>1. /\ launcher[k] = "looking" /\ launcher'[k] = "answered"
        /\ UNCHANGED <<editorVars, entries, lookupVars>> /\ candidates[k] = <<>>
    BY <1>0, <1>7 DEF NoneLeft, SessionsTypeOK, serverVars
  <2>2. Looking(k) /\ ToSet(candidates[k]) = {}
    BY <1>0, <2>1 DEF LookupHeld, ToSet
  <2>3. \A e \in ToSet(seen[k]) : Gone(k, e)
    BY <2>2 DEF Looking
  <2>4. Answered(k)'
    BY <2>1, <2>2, <2>3 DEF Answered, Looking, Gone, editorVars, lookupVars
  <2>5. reached'[k] = "unknown"
    BY <1>0, <2>1, <2>2 DEF Looking, lookupVars, SessionsTypeOK
  <2> QED BY <2>1, <2>4, <2>5 DEF LookupHeld
<1>8. CASE LookupLost(k) \/ TakeAnswer(k)
  <2>1. /\ launcher'[k] \in {"failed", "opened", "lost", "spawned"}
        /\ reached'[k] = "unknown"
    BY <1>0, <1>8 DEF LookupLost, TakeAnswer, Outcome, Forget, SessionsTypeOK
  <2> QED BY <2>1 DEF LookupHeld
<1>9. ASSUME Own(k) PROVE LookupHeld(k)'
  BY <1>5, <1>6, <1>7, <1>8, <1>9, LookupBegins, ConnectKeeps
<1> QED BY <1>2, <1>3, <1>4, <1>9

\* Initially nothing is registered and nobody looks.
LEMMA SessionsInitially == SessionsInit => SessionsInv
<1> SUFFICES ASSUME SessionsInit PROVE SessionsInv
  OBVIOUS
<1> USE DEF SessionsInit
<1>1. SessionsTypeOK
  BY DEF SessionsTypeOK, LaunchStages
<1>2. PostsInv
  BY DEF PostsInv, ToSet
<1>3. DistinctInv
  BY DEF DistinctInv, Distinct
<1>4. LookupInv
  BY DEF LookupInv, LookupHeld
<1> QED BY <1>1, <1>2, <1>3, <1>4 DEF SessionsInv

\* Every step keeps the invariant.
LEMMA SessionsInductive ==
    SessionsInv /\ [SessionsNext]_sessionsVars => SessionsInv'
<1>1. SessionsInv /\ [SessionsNext]_sessionsVars => DistinctInv'
  BY EntriesStep DEF DistinctInv
<1> QED BY <1>1, SessionsTypeStep, PostsStep, LookupStep DEF SessionsInv

\* The invariant holds of every behaviour.
LEMMA SessionsInvariant == SessionsSpec => []SessionsInv
<1> QED BY SessionsInitially, SessionsInductive, PTL DEF SessionsSpec

\* Type correctness of the registry and its look-ups (vscodeSocket.ts, cli.ts).
THEOREM SessionsTypeCorrect == SessionsSpec => []SessionsTypeOK
<1>1. SessionsInv => SessionsTypeOK
  BY DEF SessionsInv
<1> QED BY <1>1, SessionsInvariant, PTL

\* The answer of a look-up is the best entry it saw that is not gone, whatever
\* editors, servers and other look-ups did meanwhile (vscodeSocket.ts:127-145).
THEOREM AnswerIsBest == SessionsSpec => []BestAnswer
<1>1. SessionsInv => BestAnswer
  BY DEF SessionsInv, LookupInv, LookupHeld, Answered, BestAnswer
<1> QED BY <1>1, SessionsInvariant, PTL

\* No look-up and no request takes the registration of an open editor away
\* (vscodeSocket.ts:89-92, 122-125, 136-141).
THEOREM OpenKeepsItsEntry == SessionsSpec => OpenStaysRegistered
<1>1. SessionsInv /\ [SessionsNext]_sessionsVars
      => [\A s \in Servers : \A e \in ToSet(entries[s]) :
             e \notin ToSet(entries'[s]) => editor[e] \in {"ending", "closed"}]_sessionsVars
  BY EntriesStep
<1> QED BY <1>1, SessionsInvariant, PTL DEF OpenStaysRegistered, SessionsSpec

\* A registry has an editor once, whoever registers and deletes (vscodeSocket.ts:89-92, 122-125).
THEOREM EntriesDistinct == SessionsSpec => []DistinctInv
<1>1. SessionsInv => DistinctInv
  BY DEF SessionsInv
<1> QED BY <1>1, SessionsInvariant, PTL

-----------------------------------------------------------------------------
(* Startup: parse.                                                          *)

\* What the options are.
LEMMA KindFacts ==
    /\ \A k \in Options :
          Kind[k] \in {"boolean", "number", "list", "optional", "choice", "string"}
    /\ "words" \notin Options /\ "--" \notin Options /\ None \notin Options
    /\ Options = {"verbose", "disable-proxy", "help", "port", "idle-timeout-seconds",
                  "proxy-domain", "cert", "auth", "log", "host", "bind-addr", "cert-key",
                  "password", "hashed-password"}
    /\ Kind["verbose"] = "boolean" /\ Kind["port"] = "number"
    /\ Kind["idle-timeout-seconds"] = "number" /\ Kind["proxy-domain"] = "list"
    /\ Kind["auth"] = "choice" /\ Kind["log"] = "choice"
    /\ Kind["host"] = "string" /\ Kind["bind-addr"] = "string"
    /\ Kind["password"] = "string" /\ Kind["hashed-password"] = "string"
<1>1. Options = {"verbose", "disable-proxy", "help", "port", "idle-timeout-seconds",
                  "proxy-domain", "cert", "auth", "log", "host", "bind-addr", "cert-key",
                  "password", "hashed-password"}
  BY DEF Options, BooleanOptions, NumberOptions, ChoiceOptions, StringOptions
<1>2. "words" \notin Options /\ "--" \notin Options
  BY <1>1
<1>3. None \notin Options
  BY ArgumentsAssumption
<1>4. \A k \in Options :
         Kind[k] = CASE k \in BooleanOptions -> "boolean" [] k \in NumberOptions -> "number"
                     [] k = "proxy-domain" -> "list" [] k = "cert" -> "optional"
                     [] k \in ChoiceOptions -> "choice" [] k \in StringOptions -> "string"
  BY DEF Kind
<1>5. \A k \in Options :
          Kind[k] \in {"boolean", "number", "list", "optional", "choice", "string"}
  BY <1>4 DEF Options
<1> QED BY <1>1, <1>2, <1>3, <1>4, <1>5 DEF BooleanOptions, NumberOptions, ChoiceOptions, StringOptions

\* The states of parse's loop, as the recursive function defines them.
Start == [args |-> NoArgs, ended |-> FALSE, skip |-> FALSE, refused |-> FALSE]
IsLoopOf(f, arguments, fromFile) ==
    /\ f[0] = Start
    /\ \A n \in 1..Len(arguments) : f[n] = ParseOne(f[n - 1], arguments, n, fromFile)
    /\ Parse(arguments, fromFile) =
          LET p == f[Len(arguments)]
              keyMissing == Get(p.args, "cert", None) # None /\ "cert-key" \notin DOMAIN p.args
          IN  IF p.refused \/ keyMissing THEN Refusal ELSE p.args

\* parse returns what its loop comes to.
LEMMA ParseLoops ==
    ASSUME NEW arguments, NEW fromFile, Len(arguments) \in Nat
    PROVE  \E f : IsLoopOf(f, arguments, fromFile)
<1> DEFINE N == Len(arguments)
           Loop(f, k) == f = [n \in 0..k |-> IF n = 0 THEN Start
                                             ELSE ParseOne(f[n - 1], arguments, n, fromFile)]
           G == {k \in 0..N : \E f : Loop(f, k)}
<1>1. 0 \in G
  <2>1. Loop([n \in 0..0 |-> Start], 0)
    OBVIOUS
  <2> HIDE DEF Loop
  <2> QED BY <2>1
<1>2. ASSUME NEW m \in 1..N, m - 1 \in G PROVE m \in G
  <2>1. PICK g : Loop(g, m - 1)
    BY <1>2
  <2> DEFINE h == [n \in 0..m |-> IF n = m THEN ParseOne(g[m - 1], arguments, m, fromFile)
                                  ELSE g[n]]
  <2>2. ASSUME NEW n \in 0..m
        PROVE  h[n] = IF n = 0 THEN Start ELSE ParseOne(h[n - 1], arguments, n, fromFile)
    BY <2>1
  <2>3. Loop(h, m)
    BY <2>2
  <2> HIDE DEF h, Loop
  <2> QED BY <2>3
<1>3. N \in G
  <2> HIDE DEF G
  <2>1. 0..N \subseteq G
    BY <1>1, <1>2, UpTo
  <2> QED BY <2>1
<1>4. \E f : Loop(f, N)
  BY <1>3
<1> DEFINE f0 == CHOOSE f : Loop(f, N)
<1>5. Loop(f0, N)
  <2> HIDE DEF Loop
  <2> QED BY <1>4
<1>6. Parse(arguments, fromFile) =
          LET p == f0[N]
              keyMissing == Get(p.args, "cert", None) # None /\ "cert-key" \notin DOMAIN p.args
          IN  IF p.refused \/ keyMissing THEN Refusal ELSE p.args
  BY DEF Parse, Start
<1> HIDE DEF f0
<1>7. f0[0] = Start
  BY <1>5
<1>8. ASSUME NEW n \in 1..N PROVE f0[n] = ParseOne(f0[n - 1], arguments, n, fromFile)
  BY <1>5
<1>9. IsLoopOf(f0, arguments, fromFile)
  BY <1>6, <1>7, <1>8 DEF IsLoopOf
<1> HIDE DEF Loop
<1> QED BY <1>9

\* The occurrence of an option, and what a turn does to the arguments that is
\* not refused: an option is taken over, a word is added, a "--" or a value is
\* passed over.
IsOption(arguments, i) == arguments[i].flag \in Options /\ ~EndedAt(arguments, i)
Turn(a, b, arguments, i, fromFile) ==
    \/ /\ IsOption(arguments, i) /\ ~IsWord(arguments, i)
       /\ ~Rejected(arguments, i, fromFile) /\ b = Taken(arguments, i, a)
    \/ /\ ~IsOption(arguments, i) /\ IsWord(arguments, i)
       /\ b = With(a, "words", Append(Get(a, "words", <<>>), arguments[i]))
    \/ ~IsOption(arguments, i) /\ ~IsWord(arguments, i) /\ b = a

\* How the arguments come about that parse returns.
IsRun(a, arguments, fromFile) ==
    /\ a[0] = NoArgs
    /\ \A n \in 1..Len(arguments) : Turn(a[n - 1], a[n], arguments, n, fromFile)
    /\ Parse(arguments, fromFile) = a[Len(arguments)]

\* The state of the loop behind the first n arguments.
Behind(p, arguments, n) ==
    /\ p = [args |-> p.args, ended |-> p.ended, skip |-> p.skip, refused |-> p.refused]
    /\ p.ended \in BOOLEAN /\ p.skip \in BOOLEAN /\ p.refused = FALSE
    /\ p.ended <=> EndedAt(arguments, n + 1)
    /\ p.skip <=> n > 0 /\ IsOption(arguments, n) /\ Consumes(arguments, n)
    /\ n > 0 => EndedAt(arguments, n) \/ arguments[n].flag # "unknown"

\* Options have ended before an argument, or at it, or not.
LEMMA EndedNext ==
    ASSUME NEW arguments, NEW n \in Nat
    PROVE  /\ ~EndedAt(arguments, 1) /\ ~EndedAt(arguments, 0)
           /\ n > 0 => (EndedAt(arguments, n + 1) <=> EndedAt(arguments, n) \/ arguments[n].flag = "--")
<1>1. 1..0 = {} /\ 1..(0 - 1) = {} /\ 1..(1 - 1) = {}
  OBVIOUS
<1>2. n > 0 => 1..((n + 1) - 1) = 1..(n - 1) \cup {n}
  OBVIOUS
<1> QED BY <1>1, <1>2 DEF EndedAt

\* One turn that is not refused.
LEMMA OneTurn ==
    ASSUME NEW arguments \in Seq(Argument), NEW n \in 1..Len(arguments), NEW fromFile,
           NEW p, NEW q, Behind(q, arguments, n - 1),
           p = ParseOne(q, arguments, n, fromFile), p.refused = FALSE
    PROVE  Behind(p, arguments, n) /\ Turn(q.args, p.args, arguments, n, fromFile)
<1>0. /\ Len(arguments) \in Nat /\ n \in Nat /\ n - 1 \in Nat
      /\ arguments[n] \in Argument
      /\ (n - 1) + 1 = n
  OBVIOUS
<1>1. /\ q = [args |-> q.args, ended |-> q.ended, skip |-> q.skip, refused |-> q.refused]
      /\ q.ended \in BOOLEAN /\ q.skip \in BOOLEAN /\ q.refused = FALSE
      /\ q.ended <=> EndedAt(arguments, n)
      /\ q.skip <=> n - 1 > 0 /\ IsOption(arguments, n - 1) /\ Consumes(arguments, n - 1)
      /\ n - 1 > 0 => EndedAt(arguments, n - 1) \/ arguments[n - 1].flag # "unknown"
  BY <1>0 DEF Behind
<1>2. EndedAt(arguments, n + 1) <=> EndedAt(arguments, n) \/ arguments[n].flag = "--"
  BY <1>0, EndedNext
<1>3. n - 1 > 0 => (EndedAt(arguments, n) <=> EndedAt(arguments, n - 1) \/ arguments[n - 1].flag = "--")
  BY <1>0, EndedNext
<1>4. /\ arguments[n].flag \in Options \cup {"unknown", "--", None} /\ "unknown" \notin Options
      /\ arguments[n].flag = None => arguments[n].text # None
      /\ None \notin Options \cup {"unknown", "--"} /\ "--" \notin Options
  BY <1>0, KindFacts, ArgumentsAssumption DEF Argument
<1>5. n - 1 > 0 => /\ n - 1 < Len(arguments) /\ arguments[(n - 1) + 1] = arguments[n]
                   /\ arguments[n - 1].flag \in Options \cup {"unknown", "--", None}
  <2> SUFFICES ASSUME n - 1 > 0
               PROVE  /\ n - 1 < Len(arguments) /\ arguments[(n - 1) + 1] = arguments[n]
                      /\ arguments[n - 1].flag \in Options \cup {"unknown", "--", None}
    OBVIOUS
  <2>1. n - 1 \in 1..Len(arguments)
    BY <1>0
  <2> QED BY <1>0, <2>1 DEF Argument
\* The argument is the value of the option before it.
<1>6. q.skip <=> /\ n - 1 > 0 /\ IsOption(arguments, n - 1)
                 /\ Kind[arguments[n - 1].flag] # "boolean" /\ arguments[n - 1].text = None
                 /\ arguments[n].flag = None
  BY <1>0, <1>1, <1>4, <1>5 DEF Consumes, Ahead
<1>7. CASE q.skip
  <2>1. p = [q EXCEPT !.skip = FALSE]
    BY <1>1, <1>7 DEF ParseOne
  <2>2. p = [args |-> q.args, ended |-> q.ended, skip |-> FALSE, refused |-> FALSE]
    BY <1>1, <2>1
  <2>3. ~IsOption(arguments, n) /\ arguments[n].flag # "--"
    BY <1>4, <1>6, <1>7 DEF IsOption
  <2>4. ~IsWord(arguments, n)
    <3>1. ~EndedAt(arguments, n)
      BY <1>3, <1>4, <1>6, <1>7 DEF IsOption
    <3> QED BY <1>0, <1>4, <1>6, <1>7, <3>1 DEF IsWord, IsOption
  <2>5. Behind(p, arguments, n)
    BY <1>1, <1>2, <1>4, <1>6, <1>7, <2>2, <2>3 DEF Behind
  <2>6. p.args = q.args
    BY <2>2
  <2>7. Turn(q.args, p.args, arguments, n, fromFile)
    BY <2>3, <2>4, <2>6 DEF Turn
  <2> QED BY <2>5, <2>7
<1>8. CASE ~q.skip /\ ~q.ended /\ arguments[n].flag = "--"
  <2>1. p = [args |-> q.args, ended |-> TRUE, skip |-> FALSE, refused |-> FALSE]
    BY <1>1, <1>8 DEF ParseOne
  <2>2. ~IsOption(arguments, n) /\ ~IsWord(arguments, n)
    BY <1>1, <1>4, <1>8 DEF IsOption, IsWord
  <2>3. Behind(p, arguments, n)
    BY <1>1, <1>2, <1>8, <2>1, <2>2 DEF Behind
  <2>4. p.args = q.args
    BY <2>1
  <2>5. Turn(q.args, p.args, arguments, n, fromFile)
    BY <2>2, <2>4 DEF Turn
  <2> QED BY <2>3, <2>5
<1>9. CASE ~q.skip /\ ~q.ended /\ arguments[n].flag \notin {None, "--"}
  <2>1. p = IF Rejected(arguments, n, fromFile) THEN [q EXCEPT !.refused = TRUE]
            ELSE [q EXCEPT !.args = Taken(arguments, n, @), !.skip = Consumes(arguments, n)]
    BY <1>1, <1>9 DEF ParseOne
  <2>2. ~Rejected(arguments, n, fromFile)
    BY <1>1, <2>1
  <2>3. p = [args |-> Taken(arguments, n, q.args), ended |-> q.ended,
             skip |-> Consumes(arguments, n), refused |-> FALSE]
    BY <1>1, <2>1, <2>2
  <2>4. arguments[n].flag \in Options
    BY <2>2 DEF Rejected
  <2>5. IsOption(arguments, n) /\ ~IsWord(arguments, n)
    BY <1>1, <1>9, <2>4 DEF IsOption, IsWord
  <2>6. Consumes(arguments, n) \in BOOLEAN
    BY DEF Consumes
  <2>7. Behind(p, arguments, n)
    BY <1>0, <1>1, <1>2, <1>4, <1>9, <2>3, <2>4, <2>5, <2>6 DEF Behind
  <2>8. Turn(q.args, p.args, arguments, n, fromFile)
    BY <2>2, <2>3, <2>5 DEF Turn
  <2> QED BY <2>7, <2>8
<1>10. CASE ~q.skip /\ (q.ended \/ arguments[n].flag = None)
  <2>1. p = [q EXCEPT !.args = With(@, "words", Append(Get(@, "words", <<>>), arguments[n]))]
    BY <1>1, <1>4, <1>10 DEF ParseOne
  <2>2. p = [args |-> With(q.args, "words", Append(Get(q.args, "words", <<>>), arguments[n])),
             ended |-> q.ended, skip |-> FALSE, refused |-> FALSE]
    BY <1>1, <1>10, <2>1
  <2>3. ~IsOption(arguments, n)
    BY <1>1, <1>4, <1>10 DEF IsOption
  <2>4. IsWord(arguments, n)
    <3>1. CASE q.ended
      BY <1>1, <3>1 DEF IsWord
    <3>2. CASE ~q.ended
      <4>1. arguments[n].flag = None
        BY <1>10, <3>2
      <4>2. n > 1 => \/ arguments[n - 1].flag \in {None, "--"} \/ arguments[n - 1].text # None
                     \/ Kind[arguments[n - 1].flag] = "boolean"
        BY <1>0, <1>1, <1>3, <1>5, <1>6, <1>10, <3>2, <4>1 DEF IsOption
      <4> QED BY <4>1, <4>2 DEF IsWord
    <3> QED BY <3>1, <3>2
  <2>a. PICK with : with = With(q.args, "words", Append(Get(q.args, "words", <<>>), arguments[n]))
    OBVIOUS
  <2>b. p = [args |-> with, ended |-> q.ended, skip |-> FALSE, refused |-> FALSE]
    BY <2>2, <2>a, Zenon
  <2>c. /\ p.args = with
        /\ p.ended = q.ended /\ p.skip = FALSE /\ p.refused = FALSE
        /\ p = [args |-> p.args, ended |-> p.ended, skip |-> p.skip, refused |-> p.refused]
    BY <2>b
  <2>5. /\ p.args = With(q.args, "words", Append(Get(q.args, "words", <<>>), arguments[n]))
        /\ p.ended = q.ended /\ p.skip = FALSE /\ p.refused = FALSE
        /\ p = [args |-> p.args, ended |-> p.ended, skip |-> p.skip, refused |-> p.refused]
    BY <2>a, <2>c
  <2>6. Turn(q.args, p.args, arguments, n, fromFile)
    BY <2>3, <2>4, <2>5 DEF Turn
  <2>7. EndedAt(arguments, n) \/ arguments[n].flag # "unknown"
    BY <1>1, <1>4, <1>10
  <2>8. ~q.ended => arguments[n].flag # "--"
    BY <1>4, <1>10
  <2>9. Behind(p, arguments, n)
    BY <1>1, <1>2, <2>3, <2>5, <2>7, <2>8 DEF Behind
  <2> QED BY <2>6, <2>9
<1> QED BY <1>1, <1>7, <1>8, <1>9, <1>10

\* A state of the loop.
IsState(p) ==
    /\ p = [args |-> p.args, ended |-> p.ended, skip |-> p.skip, refused |-> p.refused]
    /\ p.ended \in BOOLEAN /\ p.skip \in BOOLEAN /\ p.refused \in BOOLEAN

\* A loop that refused has refused, and one that goes on is in a state it should be in.
LEMMA StateStays ==
    ASSUME NEW p, IsState(p), NEW arguments, NEW n, NEW fromFile
    PROVE  /\ IsState(ParseOne(p, arguments, n, fromFile))
           /\ p.refused => ParseOne(p, arguments, n, fromFile) = p
<1>1. /\ p = [args |-> p.args, ended |-> p.ended, skip |-> p.skip, refused |-> p.refused]
      /\ p.ended \in BOOLEAN /\ p.skip \in BOOLEAN /\ p.refused \in BOOLEAN
  BY DEF IsState
<1>2. PICK w : w = With(p.args, "words", Append(Get(p.args, "words", <<>>), arguments[n]))
  OBVIOUS
<1>3. PICK t : t = Taken(arguments, n, p.args)
  OBVIOUS
<1>4. PICK c \in BOOLEAN : c = Consumes(arguments, n)
  BY DEF Consumes
<1>5. \/ ParseOne(p, arguments, n, fromFile) = p
      \/ ParseOne(p, arguments, n, fromFile) = [p EXCEPT !.skip = FALSE]
      \/ ParseOne(p, arguments, n, fromFile) = [p EXCEPT !.ended = TRUE]
      \/ ParseOne(p, arguments, n, fromFile) = [p EXCEPT !.args = w]
      \/ ParseOne(p, arguments, n, fromFile) = [p EXCEPT !.refused = TRUE]
      \/ ParseOne(p, arguments, n, fromFile) = [p EXCEPT !.args = t, !.skip = c]
  BY <1>2, <1>3, <1>4 DEF ParseOne
<1>6. p.refused => ParseOne(p, arguments, n, fromFile) = p
  BY DEF ParseOne
<1> DEFINE r == ParseOne(p, arguments, n, fromFile)
<1> HIDE DEF r
<1>7. \/ r = p
      \/ r = [args |-> p.args, ended |-> p.ended, skip |-> FALSE, refused |-> p.refused]
      \/ r = [args |-> p.args, ended |-> TRUE, skip |-> p.skip, refused |-> p.refused]
      \/ r = [args |-> w, ended |-> p.ended, skip |-> p.skip, refused |-> p.refused]
      \/ r = [args |-> p.args, ended |-> p.ended, skip |-> p.skip, refused |-> TRUE]
      \/ r = [args |-> t, ended |-> p.ended, skip |-> c, refused |-> p.refused]
  BY <1>1, <1>5 DEF r
<1>8. IsState(r)
  <2>1. ASSUME NEW x, NEW e \in BOOLEAN, NEW k \in BOOLEAN, NEW d \in BOOLEAN
        PROVE  IsState([args |-> x, ended |-> e, skip |-> k, refused |-> d])
    BY DEF IsState
  <2>2. TRUE \in BOOLEAN /\ FALSE \in BOOLEAN
    OBVIOUS
  <2>3. \/ r = p
        \/ \E e, k, d \in BOOLEAN, x \in {p.args, w, t} :
              r = [args |-> x, ended |-> e, skip |-> k, refused |-> d]
    BY <1>1, <1>4, <1>7, <2>2
  <2> QED BY <2>1, <2>3
<1> QED BY <1>6, <1>8 DEF r

\* What parse returns comes about turn by turn, unless it is refused.
LEMMA ParseRuns ==
    ASSUME NEW arguments \in Seq(Argument), NEW fromFile, Parse(arguments, fromFile) # Refusal
    PROVE  \E a : IsRun(a, arguments, fromFile)
<1> DEFINE N == Len(arguments)
<1>0. N \in Nat
  OBVIOUS
<1>1. PICK f : IsLoopOf(f, arguments, fromFile)
  BY <1>0, ParseLoops
<1>2. /\ f[0] = Start
      /\ \A n \in 1..N : f[n] = ParseOne(f[n - 1], arguments, n, fromFile)
  BY <1>1 DEF IsLoopOf
<1>3. f[N].refused # TRUE /\ Parse(arguments, fromFile) = f[N].args
  BY <1>1 DEF IsLoopOf
<1>4. \A n \in 0..N : IsState(f[n])
  <2> DEFINE G == {n \in 0..N : IsState(f[n])}
  <2>1. 0 \in G
    <3>1. IsState(Start)
      BY DEF IsState, Start
    <3> QED BY <1>0, <1>2, <3>1
  <2>2. ASSUME NEW n \in 1..N, n - 1 \in G PROVE n \in G
    <3>1. IsState(f[n - 1]) /\ n \in 0..N
      BY <1>0, <2>2
    <3> QED BY <1>2, <3>1, StateStays
  <2> HIDE DEF G
  <2>3. 0..N \subseteq G
    BY <1>0, <2>1, <2>2, UpTo
  <2> QED BY <2>3 DEF G
<1>5. \A n \in 0..N : f[n].refused = FALSE
  <2> DEFINE G == {n \in 0..N : \A m \in 0..n : f[m].refused => f[n].refused}
  <2>1. 0 \in G
    BY <1>0
  <2>2. ASSUME NEW n \in 1..N, n - 1 \in G PROVE n \in G
    <3>1. n \in 0..N /\ n - 1 \in 0..N /\ 0..n = 0..(n - 1) \cup {n}
      BY <1>0
    <3>2. f[n - 1].refused => f[n] = f[n - 1]
      BY <1>2, <1>4, <3>1, StateStays
    <3> QED BY <2>2, <3>1, <3>2
  <2> HIDE DEF G
  <2>3. N \in G
    <3>1. 0..N \subseteq G
      BY <1>0, <2>1, <2>2, UpTo
    <3> QED BY <1>0, <3>1
  <2>4. \A m \in 0..N : f[m].refused => f[N].refused
    BY <2>3 DEF G
  <2>5. N \in 0..N
    BY <1>0
  <2> QED BY <1>3, <1>4, <2>4, <2>5 DEF IsState
<1>6. \A n \in 0..N : Behind(f[n], arguments, n)
  <2> DEFINE G == {n \in 0..N : Behind(f[n], arguments, n)}
  <2>1. 0 \in G
    <3>1. ~EndedAt(arguments, 0 + 1)
      BY EndedNext
    <3>2. Behind(Start, arguments, 0)
      BY <3>1 DEF Behind, Start
    <3> QED BY <1>0, <1>2, <3>2
  <2>2. ASSUME NEW n \in 1..N, n - 1 \in G PROVE n \in G
    <3>1. n \in 0..N /\ f[n].refused = FALSE
      BY <1>0, <1>5
    <3> QED BY <1>2, <2>2, <3>1, OneTurn
  <2> HIDE DEF G
  <2>3. 0..N \subseteq G
    BY <1>0, <2>1, <2>2, UpTo
  <2> QED BY <2>3 DEF G
<1> DEFINE a == [n \in 0..N |-> f[n].args]
<1>7. ASSUME NEW n \in 1..N PROVE Turn(a[n - 1], a[n], arguments, n, fromFile)
  <2>1. n \in 0..N /\ n - 1 \in 0..N
    BY <1>0
  <2>2. Turn(f[n - 1].args, f[n].args, arguments, n, fromFile)
    BY <1>2, <1>5, <1>6, <2>1, OneTurn
  <2> QED BY <2>1, <2>2
<1>8. a[0] = NoArgs /\ a[N] = f[N].args
  BY <1>0, <1>2 DEF Start
<1> HIDE DEF a
<1>9. IsRun(a, arguments, fromFile)
  BY <1>3, <1>7, <1>8 DEF IsRun
<1> QED BY <1>9

-----------------------------------------------------------------------------

\* The occurrences of an option that count, and what the last of them stands for.
Counts(arguments, k) ==
    {i \in Occurs(arguments, k) : Kind[k] = "optional" => ValueAt(arguments, i) # "false"}
ValueOf(arguments, k, i) ==
    CASE Kind[k] = "boolean" -> TRUE
      [] Kind[k] = "number" -> ParseInt(ValueAt(arguments, i))
      [] OTHER -> ValueAt(arguments, i)

Kept(a, b, k) == (k \in DOMAIN b <=> k \in DOMAIN a) /\ (k \in DOMAIN a => b[k] = a[k])

Counted(a, b, arguments, k, n) ==
    /\ k \in DOMAIN b
    /\ b[k] = IF Kind[k] = "list" THEN Append(Get(a, k, <<>>), ValueAt(arguments, n))
              ELSE ValueOf(arguments, k, n)

\* An argument is set and the others are left.
LEMMA WithFacts ==
    ASSUME NEW a, NEW k, NEW x
    PROVE  /\ DOMAIN With(a, k, x) = DOMAIN a \cup {k} /\ With(a, k, x)[k] = x
           /\ \A j : j # k => Kept(a, With(a, k, x), j)
BY DEF With, Kept

\* What a turn does to one option, and to the words.
LEMMA TurnOf ==
    ASSUME NEW arguments \in Seq(Argument), NEW n \in 1..Len(arguments), NEW fromFile,
           NEW a, NEW b, Turn(a, b, arguments, n, fromFile), NEW k \in Options
    PROVE  /\ n \in Counts(arguments, k) =>
                 /\ ~Rejected(arguments, n, fromFile) /\ arguments[n].flag = k
                 /\ Counted(a, b, arguments, k, n)
           /\ n \notin Counts(arguments, k) => Kept(a, b, k)
<1>0. n \in DOMAIN arguments /\ "words" # k
  <2>1. "words" # k
    BY KindFacts
  <2>2. DOMAIN arguments = 1..Len(arguments)
    OBVIOUS
  <2> QED BY <2>1, <2>2
<1>1. CASE arguments[n].flag = k /\ ~EndedAt(arguments, n)
  <2>1. ~Rejected(arguments, n, fromFile) /\ b = Taken(arguments, n, a)
    BY <1>1 DEF Turn, IsOption
  <2>2. n \in Counts(arguments, k) <=> (Kind[k] = "optional" => ValueAt(arguments, n) # "false")
    BY <1>0, <1>1 DEF Counts, Occurs
  <2>3. n \notin Counts(arguments, k) => b = a
    BY <1>1, <2>1, <2>2 DEF Taken
  <2>4. PICK x : x = IF Kind[k] = "list"
                     THEN Append(Get(a, k, <<>>), ValueAt(arguments, n))
                     ELSE ValueOf(arguments, k, n)
    OBVIOUS
  <2>5. n \in Counts(arguments, k) => b = With(a, k, x)
    BY <1>1, <2>1, <2>2, <2>4, KindFacts DEF Taken, ValueOf
  <2>6. n \in Counts(arguments, k) => k \in DOMAIN b /\ b[k] = x
    BY <2>5 DEF With
  <2>7. n \notin Counts(arguments, k) => Kept(a, b, k)
    BY <2>3 DEF Kept
  <2> QED BY <1>1, <2>1, <2>4, <2>6, <2>7 DEF Counted
<1>2. CASE ~(arguments[n].flag = k /\ ~EndedAt(arguments, n))
  <2>1. n \notin Counts(arguments, k)
    BY <1>2 DEF Counts, Occurs
  <2>2. \/ b = a
        \/ \E x : b = With(a, "words", x)
        \/ arguments[n].flag # k /\ \E x : b = With(a, arguments[n].flag, x)
    <3>1. CASE IsOption(arguments, n)
      <4>1. b = Taken(arguments, n, a) /\ arguments[n].flag # k
        BY <1>2, <3>1 DEF Turn, IsOption
      <4>2. Kind[arguments[n].flag] \in {"boolean", "number", "list", "optional", "choice", "string"}
        BY <3>1, KindFacts DEF IsOption
      <4> QED BY <4>1, <4>2 DEF Taken
    <3>2. CASE ~IsOption(arguments, n)
      BY <3>2, Zenon DEF Turn
    <3> QED BY <3>1, <3>2
  <2>3. Kept(a, b, k)
    <3>1. CASE b = a
      BY <3>1 DEF Kept
    <3>2. ASSUME NEW other, other # k, NEW x, b = With(a, other, x) PROVE Kept(a, b, k)
      BY <3>2, WithFacts
    <3> QED BY <1>0, <2>2, <3>1, <3>2
  <2> QED BY <2>1, <2>3
<1> QED BY <1>1, <1>2

\* A turn appends its word or leaves the words alone.
LEMMA WordTurn ==
    ASSUME NEW arguments \in Seq(Argument), NEW n \in 1..Len(arguments), NEW fromFile,
           NEW a, NEW b, Turn(a, b, arguments, n, fromFile)
    PROVE  Get(b, "words", <<>>) = IF IsWord(arguments, n)
                               THEN Append(Get(a, "words", <<>>), arguments[n])
                               ELSE Get(a, "words", <<>>)
<1>1. CASE IsWord(arguments, n)
  <2>0. PICK x : x = Append(Get(a, "words", <<>>), arguments[n])
    OBVIOUS
  <2>1. b = With(a, "words", x)
    BY <1>1, <2>0 DEF Turn
  <2>2. "words" \in DOMAIN b /\ b["words"] = Append(Get(a, "words", <<>>), arguments[n])
    BY <2>0, <2>1 DEF With
  <2>3. Get(b, "words", <<>>) = b["words"]
    BY <2>2 DEF Get
  <2> QED BY <1>1, <2>2, <2>3
<1>2. CASE ~IsWord(arguments, n)
  <2>1. CASE IsOption(arguments, n)
    <3>1. b = Taken(arguments, n, a) /\ arguments[n].flag \in Options
      BY <1>2, <2>1 DEF Turn, IsOption
    <3>2. b = a \/ \E x : b = With(a, arguments[n].flag, x)
      <4>1. Kind[arguments[n].flag] \in {"boolean", "number", "list", "optional", "choice", "string"}
        BY <3>1, KindFacts
      <4> QED BY <3>1, <4>1 DEF Taken
    <3>3. Kept(a, b, "words")
      <4>1. CASE b = a
        BY <4>1 DEF Kept
      <4>2. ASSUME NEW x, b = With(a, arguments[n].flag, x) PROVE Kept(a, b, "words")
        <5>1. arguments[n].flag # "words"
          BY <3>1, KindFacts
        <5> QED BY <4>2, <5>1, WithFacts
      <4> QED BY <3>2, <4>1, <4>2
    <3> QED BY <1>2, <3>3 DEF Get, Kept
  <2>2. CASE ~IsOption(arguments, n)
    BY <1>2, <2>2, Zenon DEF Turn
  <2> QED BY <2>1, <2>2
<1> QED BY <1>1, <1>2

\* After n turns an option is there if it occurred, with the value of the last.
LastAt(p, arguments, k, n) ==
    /\ k \in DOMAIN p <=> \E i \in Counts(arguments, k) : i <= n
    /\ k \in DOMAIN p /\ Kind[k] # "list" =>
          \E i \in Counts(arguments, k) :
              /\ i <= n /\ \A j \in Counts(arguments, k) : j <= n => j <= i
              /\ p[k] = ValueOf(arguments, k, i)

\* An option that is no list has what its last occurrence says.
LEMMA OptionRun ==
    ASSUME NEW arguments \in Seq(Argument), NEW fromFile, NEW a, IsRun(a, arguments, fromFile),
           NEW k \in Options
    PROVE  LastAt(Parse(arguments, fromFile), arguments, k, Len(arguments))
<1> DEFINE N == Len(arguments)
           G == {n \in 0..N : LastAt(a[n], arguments, k, n)}
<1>0. /\ N \in Nat /\ DOMAIN arguments = 1..N
      /\ \A i \in Counts(arguments, k) : i \in 1..N
  <2>1. N \in Nat /\ DOMAIN arguments = 1..N
    OBVIOUS
  <2> QED BY <2>1 DEF Counts, Occurs
<1>1. 0 \in G
  <2>1. DOMAIN a[0] = {}
    BY DEF IsRun, NoArgs
  <2>2. LastAt(a[0], arguments, k, 0)
    BY <1>0, <2>1 DEF LastAt
  <2> QED BY <1>0, <2>2
<1>2. ASSUME NEW n \in 1..N, n - 1 \in G PROVE n \in G
  <2>1. /\ Turn(a[n - 1], a[n], arguments, n, fromFile) /\ LastAt(a[n - 1], arguments, k, n - 1)
        /\ n \in 0..N
    BY <1>0, <1>2 DEF IsRun
  <2>2. \A i \in Counts(arguments, k) : i <= n <=> i <= n - 1 \/ i = n
    BY <1>0
  <2>3. CASE n \in Counts(arguments, k)
    <3>1. k \in DOMAIN a[n] /\ (Kind[k] # "list" => a[n][k] = ValueOf(arguments, k, n))
      BY <2>1, <2>3, TurnOf DEF Counted
    <3>2. n <= n
      BY <1>0
    <3>3. LastAt(a[n], arguments, k, n)
      BY <2>3, <3>1, <3>2 DEF LastAt
    <3> QED BY <2>1, <3>3
  <2>4. CASE n \notin Counts(arguments, k)
    <3>1. Kept(a[n - 1], a[n], k)
      BY <2>1, <2>4, TurnOf
    <3>2. LastAt(a[n], arguments, k, n)
      BY <2>1, <2>2, <2>4, <3>1 DEF LastAt, Kept
    <3> QED BY <2>1, <3>2
  <2> QED BY <2>3, <2>4
<1>3. N \in G
  <2> HIDE DEF G
  <2>1. 0..N \subseteq G
    BY <1>0, <1>1, <1>2, UpTo
  <2> QED BY <1>0, <2>1
<1> QED BY <1>3 DEF IsRun

\* A list that grows by the values at the turns in S.
Collects(c, N, S, V) ==
    /\ c[0] = <<>>
    /\ \A n \in 1..N : c[n] = IF n \in S THEN Append(c[n - 1], V[n]) ELSE c[n - 1]

\* What is collected turn by turn is what is selected, value by value.
LEMMA Collected ==
    ASSUME NEW N \in Nat, NEW ids, ids = [i \in 1..N |-> i], NEW S, NEW V, NEW c,
           Collects(c, N, S, V)
    PROVE  c[N] = [m \in DOMAIN Selected(ids, S) |-> V[Selected(ids, S)[m]]]
<1>0. /\ ids \in Seq(1..N) /\ Len(ids) = N
      /\ c[0] = <<>>
      /\ \A n \in 1..N : c[n] = IF n \in S THEN Append(c[n - 1], V[n]) ELSE c[n - 1]
  BY DEF Collects
<1>1. PICK g : IsSelection(g, ids, S, 1..N)
  BY <1>0, SelectedTurns
<1>2. /\ g \in [0..N -> Seq(1..N)] /\ g[0] = <<>>
      /\ \A n \in 1..N : g[n] = IF n \in S THEN Append(g[n - 1], n) ELSE g[n - 1]
      /\ Selected(ids, S) = g[N]
  BY <1>0, <1>1 DEF IsSelection
<1> DEFINE M(w) == [m \in DOMAIN w |-> V[w[m]]]
           G == {n \in 0..N : c[n] = M(g[n])}
<1>3. 0 \in G
  <2>1. M(<<>>) = <<>>
    OBVIOUS
  <2> QED BY <1>0, <1>2, <2>1
<1>4. ASSUME NEW w \in Seq(1..N), NEW n \in 1..N PROVE M(Append(w, n)) = Append(M(w), V[n])
  <2>1. /\ Len(w) \in Nat /\ DOMAIN w = 1..Len(w)
        /\ DOMAIN Append(w, n) = 1..(Len(w) + 1)
        /\ \A i \in 1..Len(w) : Append(w, n)[i] = w[i] /\ w[i] \in 1..N
        /\ Append(w, n)[Len(w) + 1] = n
    BY AppendProperties
  <2> DEFINE T == {V[i] : i \in 1..N}
             u == M(w)
  <2>2. u \in Seq(T) /\ Len(u) = Len(w) /\ V[n] \in T /\ \A i \in 1..Len(w) : u[i] = V[w[i]]
    BY <2>1
  <2> HIDE DEF u, T
  <2>3. /\ DOMAIN Append(u, V[n]) = 1..(Len(w) + 1)
        /\ \A i \in 1..Len(w) : Append(u, V[n])[i] = V[w[i]]
        /\ Append(u, V[n])[Len(w) + 1] = V[n]
        /\ Append(u, V[n]) \in Seq(T)
    BY <2>1, <2>2, AppendProperties
  <2>4. Append(u, V[n]) = [m \in 1..(Len(w) + 1) |-> Append(u, V[n])[m]]
    BY <2>3
  <2>5. \A m \in 1..(Len(w) + 1) : m \in 1..Len(w) \/ m = Len(w) + 1
    BY <2>1
  <2>6. \A m \in 1..(Len(w) + 1) : Append(u, V[n])[m] = V[Append(w, n)[m]]
    BY <2>1, <2>3, <2>5
  <2>7. M(Append(w, n)) = Append(u, V[n])
    BY <2>1, <2>4, <2>6
  <2> QED BY <2>7 DEF u
<1>5. ASSUME NEW n \in 1..N, n - 1 \in G PROVE n \in G
  <2>1. n \in 0..N /\ n - 1 \in 0..N /\ g[n - 1] \in Seq(1..N) /\ c[n - 1] = M(g[n - 1])
    BY <1>2, <1>5
  <2>2. M(Append(g[n - 1], n)) = Append(M(g[n - 1]), V[n])
    BY <1>4, <2>1
  <2> HIDE DEF M
  <2> QED BY <1>0, <1>2, <2>1, <2>2
<1>6. N \in G
  <2> HIDE DEF G
  <2>1. 0..N \subseteq G
    BY <1>3, <1>5, UpTo
  <2> QED BY <2>1
<1> QED BY <1>2, <1>6

\* A list has what its occurrences say, in their order.
LEMMA ListRun ==
    ASSUME NEW arguments \in Seq(Argument), NEW fromFile, NEW a, IsRun(a, arguments, fromFile),
           NEW k \in Options, Kind[k] = "list"
    PROVE  LET all == Picked(arguments, Counts(arguments, k))
           IN  Get(Parse(arguments, fromFile), k, <<>>)
               = [n \in DOMAIN all |-> ValueAt(arguments, all[n])]
<1> DEFINE N == Len(arguments)
           S == Counts(arguments, k)
           V == [i \in 1..N |-> ValueAt(arguments, i)]
           c == [n \in 0..N |-> Get(a[n], k, <<>>)]
           ids == [i \in 1..N |-> i]
           all == Selected(ids, S)
<1>1. N \in Nat /\ DOMAIN arguments = 1..N
  OBVIOUS
<1>2. c[0] = <<>>
  <2>1. a[0] = NoArgs /\ DOMAIN NoArgs = {} /\ 0 \in 0..N
    BY <1>1 DEF IsRun, NoArgs
  <2> QED BY <2>1 DEF Get
<1>3. ASSUME NEW n \in 1..N
      PROVE  c[n] = IF n \in S THEN Append(c[n - 1], V[n]) ELSE c[n - 1]
  <2>1. n \in 0..N /\ n - 1 \in 0..N /\ Turn(a[n - 1], a[n], arguments, n, fromFile)
    BY <1>1 DEF IsRun
  <2>2. CASE n \in S
    <3>1. /\ k \in DOMAIN a[n]
          /\ a[n][k] = Append(Get(a[n - 1], k, <<>>), ValueAt(arguments, n))
      <4>1. Counted(a[n - 1], a[n], arguments, k, n)
        BY <2>1, <2>2, TurnOf
      <4> HIDE DEF S, c, V, ids, all
      <4> QED BY <4>1 DEF Counted
    <3>2. Get(a[n], k, <<>>) = a[n][k]
      BY <3>1 DEF Get
    <3>3. V[n] = ValueAt(arguments, n) /\ c[n] = Get(a[n], k, <<>>) /\ c[n - 1] = Get(a[n - 1], k, <<>>)
      BY <2>1
    <3> HIDE DEF c, V
    <3> QED BY <2>2, <3>1, <3>2, <3>3
  <2>3. CASE n \notin S
    <3>1. Kept(a[n - 1], a[n], k)
      BY <2>1, <2>3, TurnOf
    <3> QED BY <2>1, <2>3, <3>1 DEF Kept, Get
  <2> QED BY <2>2, <2>3
<1>4. c[N] = [m \in DOMAIN all |-> V[all[m]]]
  <2>1. ids = [i \in 1..N |-> i]
    OBVIOUS
  <2>2. \A n \in 1..N : c[n] = IF n \in S THEN Append(c[n - 1], V[n]) ELSE c[n - 1]
    BY <1>3
  <2> HIDE DEF c, V, ids, S
  <2>3. Collects(c, N, S, V)
    BY <1>2, <2>2 DEF Collects
  <2> QED BY <1>1, <2>1, <2>3, Collected
<1>5. \A m \in DOMAIN all : V[all[m]] = ValueAt(arguments, all[m])
  <2>1. ids \in Seq(1..N)
    BY <1>1
  <2>2. all \in Seq(1..N)
    <3> HIDE DEF ids, S
    <3> QED BY <2>1, SelectedEmbeds
  <2> HIDE DEF all
  <2>3. \A m \in DOMAIN all : all[m] \in 1..N
    BY <2>2
  <2> QED BY <2>3
<1>6. c[N] = Get(Parse(arguments, fromFile), k, <<>>)
  BY <1>1 DEF IsRun
<1>7. Picked(arguments, S) = all
  BY <1>1 DEF Picked
<1> HIDE DEF all, c, V, S
<1>8. Get(Parse(arguments, fromFile), k, <<>>) = [m \in DOMAIN all |-> ValueAt(arguments, all[m])]
  BY <1>4, <1>5, <1>6
<1> QED BY <1>7, <1>8 DEF S

\* The words are the words, in their order.
LEMMA WordRun ==
    ASSUME NEW arguments \in Seq(Argument), NEW fromFile, NEW a, IsRun(a, arguments, fromFile)
    PROVE  LET words == Picked(arguments, {i \in DOMAIN arguments : IsWord(arguments, i)})
           IN  Get(Parse(arguments, fromFile), "words", <<>>)
               = [n \in DOMAIN words |-> arguments[words[n]]]
<1> DEFINE N == Len(arguments)
           S == {i \in DOMAIN arguments : IsWord(arguments, i)}
           c == [n \in 0..N |-> Get(a[n], "words", <<>>)]
           ids == [i \in 1..N |-> i]
           words == Selected(ids, S)
<1>1. N \in Nat /\ DOMAIN arguments = 1..N
  OBVIOUS
<1>2. c[0] = <<>>
  <2>1. a[0] = NoArgs /\ DOMAIN NoArgs = {} /\ 0 \in 0..N
    BY <1>1 DEF IsRun, NoArgs
  <2> QED BY <2>1 DEF Get
<1>3. ASSUME NEW n \in 1..N
      PROVE  c[n] = IF n \in S THEN Append(c[n - 1], arguments[n]) ELSE c[n - 1]
  <2>1. n \in 0..N /\ n - 1 \in 0..N /\ Turn(a[n - 1], a[n], arguments, n, fromFile)
    BY <1>1 DEF IsRun
  <2>2. n \in S <=> IsWord(arguments, n)
    BY <1>1
  <2>3. Get(a[n], "words", <<>>) = IF IsWord(arguments, n)
                               THEN Append(Get(a[n - 1], "words", <<>>), arguments[n])
                               ELSE Get(a[n - 1], "words", <<>>)
    <3>1. PICK x, y : x = a[n - 1] /\ y = a[n]
      OBVIOUS
    <3>2. Turn(x, y, arguments, n, fromFile)
      BY <2>1, <3>1
    <3>3. Get(y, "words", <<>>) = IF IsWord(arguments, n)
                                  THEN Append(Get(x, "words", <<>>), arguments[n])
                                  ELSE Get(x, "words", <<>>)
      BY <3>2, WordTurn
    <3> QED BY <3>1, <3>3
  <2> HIDE DEF S
  <2> QED BY <2>1, <2>2, <2>3
<1>4. c[N] = [m \in DOMAIN words |-> arguments[words[m]]]
  <2>1. ids = [i \in 1..N |-> i]
    OBVIOUS
  <2>2. \A n \in 1..N : c[n] = IF n \in S THEN Append(c[n - 1], arguments[n]) ELSE c[n - 1]
    BY <1>3
  <2> HIDE DEF c, ids, S
  <2>3. Collects(c, N, S, arguments)
    BY <1>2, <2>2 DEF Collects
  <2> HIDE DEF N, words
  <2>4. c[N] = [m \in DOMAIN Selected(ids, S) |-> arguments[Selected(ids, S)[m]]]
    BY <1>1, <2>1, <2>3, Collected
  <2>5. Selected(ids, S) = words
    BY DEF words
  <2> QED BY <2>4, <2>5
<1>5. c[N] = Get(Parse(arguments, fromFile), "words", <<>>)
  BY <1>1 DEF IsRun
<1>6. Picked(arguments, S) = words
  BY <1>1 DEF Picked
<1> HIDE DEF words, c
<1> QED BY <1>4, <1>5, <1>6

\* An occurrence that counts is not refused.
LEMMA CountsAccepted ==
    ASSUME NEW arguments \in Seq(Argument), NEW fromFile, NEW a, IsRun(a, arguments, fromFile),
           NEW k \in Options, NEW i \in Counts(arguments, k)
    PROVE  /\ i \in 1..Len(arguments) /\ arguments[i].flag = k
           /\ ~Rejected(arguments, i, fromFile)
<1>1. i \in 1..Len(arguments)
  BY DEF Counts, Occurs
<1>2. Turn(a[i - 1], a[i], arguments, i, fromFile)
  BY <1>1 DEF IsRun
<1> QED BY <1>1, <1>2, TurnOf

\* What parse returns of a command line is what is on it.
LEMMA ParseIsParse ==
    ASSUME NEW arguments \in Seq(Argument), Parse(arguments, FALSE) # Refusal
    PROVE  IsParseOf(arguments, Parse(arguments, FALSE))
<1> DEFINE parsed == Parse(arguments, FALSE)
<1>1. PICK a : IsRun(a, arguments, FALSE)
  BY ParseRuns
<1>2. /\ Len(arguments) \in Nat /\ DOMAIN arguments = 1..Len(arguments)
  OBVIOUS
<1>3. ASSUME NEW k \in Options
      PROVE  LET counts == {i \in Occurs(arguments, k) :
                               Kind[k] = "optional" => ValueAt(arguments, i) # "false"}
                 last == CHOOSE i \in counts : \A j \in counts : j <= i
                 all == Picked(arguments, counts)
             IN  /\ k \in DOMAIN parsed <=> counts # {}
                 /\ k \in DOMAIN parsed =>
                       parsed[k] =
                          CASE Kind[k] = "boolean" -> TRUE
                            [] Kind[k] = "number" -> ParseInt(ValueAt(arguments, last))
                            [] Kind[k] = "list" -> [n \in DOMAIN all |-> ValueAt(arguments, all[n])]
                            [] OTHER -> ValueAt(arguments, last)
  <2> DEFINE counts == Counts(arguments, k)
             last == CHOOSE i \in counts : \A j \in counts : j <= i
             all == Picked(arguments, counts)
  <2>1. \A i \in counts : i \in 1..Len(arguments)
    BY <1>2 DEF Counts, Occurs
  <2>2. LastAt(parsed, arguments, k, Len(arguments))
    BY <1>1, OptionRun
  <2>3. k \in DOMAIN parsed <=> counts # {}
    <3> HIDE DEF parsed, counts
    <3>1. k \in DOMAIN parsed <=> \E i \in counts : i <= Len(arguments)
      BY <2>2 DEF LastAt, counts
    <3> QED BY <1>2, <2>1, <3>1
  <2>4. CASE Kind[k] = "list"
    <3>1. Get(parsed, k, <<>>) = [n \in DOMAIN all |-> ValueAt(arguments, all[n])]
      BY <1>1, <2>4, ListRun
    <3>2. k \in DOMAIN parsed => parsed[k] = [n \in DOMAIN all |-> ValueAt(arguments, all[n])]
      BY <3>1 DEF Get
    <3> HIDE DEF parsed, all, last
    <3> QED BY <2>3, <2>4, <3>2 DEF Counts, all, last
  <2>5. CASE Kind[k] # "list"
    <3>1. k \in DOMAIN parsed => parsed[k] = ValueOf(arguments, k, last)
      <4> SUFFICES ASSUME k \in DOMAIN parsed PROVE parsed[k] = ValueOf(arguments, k, last)
        OBVIOUS
      <4>1. PICK i \in counts : /\ \A j \in counts : j <= Len(arguments) => j <= i
                                /\ parsed[k] = ValueOf(arguments, k, i)
        BY <2>2, <2>5 DEF LastAt
      <4>2. \A j \in counts : j <= i
        BY <1>2, <2>1, <4>1
      <4>3. last \in counts /\ \A j \in counts : j <= last
        BY <4>2
      <4>4. last = i
        <5> HIDE DEF last, counts
        <5>1. last <= i /\ i <= last /\ last \in 1..Len(arguments) /\ i \in 1..Len(arguments)
          BY <2>1, <4>2, <4>3
        <5> QED BY <1>2, <5>1
      <4> QED BY <4>1, <4>4
    <3> HIDE DEF parsed, all, last
    <3> QED BY <2>3, <2>5, <3>1 DEF ValueOf, Counts, all, last
  <2> QED BY <2>4, <2>5
<1>4. LET words == Picked(arguments, {i \in DOMAIN arguments : IsWord(arguments, i)})
      IN  Get(parsed, "words", <<>>) = [n \in DOMAIN words |-> arguments[words[n]]]
  BY <1>1, WordRun
<1>5. DOMAIN parsed \cap Secrets = {}
  <2>1. \A k \in Secrets : k \in Options
    BY KindFacts DEF Secrets
  <2>2. ASSUME NEW k \in Secrets, k \in DOMAIN parsed PROVE FALSE
    <3>1. PICK i : i \in Counts(arguments, k)
      BY <1>1, <2>1, <2>2, OptionRun DEF LastAt
    <3>2. ~Rejected(arguments, i, FALSE) /\ arguments[i].flag = k
      BY <1>1, <2>1, <3>1, CountsAccepted
    <3> QED BY <3>2 DEF Rejected
  <2> HIDE DEF parsed
  <2> QED BY <2>2
<1> HIDE DEF parsed
<1> QED BY <1>3, <1>4, <1>5 DEF IsParseOf, parsed

-----------------------------------------------------------------------------

\* What setDefaults may rely on of arguments that were parsed: undefined is no
\* value of an option that has one, and domains are a list.
Parsed(parsed) ==
    /\ \A k \in StringOptions \cup ChoiceOptions : k \in DOMAIN parsed => parsed[k] \in Texts
    /\ \A k \in NumberOptions : k \in DOMAIN parsed => parsed[k] # None
    /\ \E T : Get(parsed, "proxy-domain", <<>>) \in Seq(T)

\* The value of an argument is a text, if it has one.
LEMMA ValueIsText ==
    ASSUME NEW arguments \in Seq(Argument), NEW i \in 1..Len(arguments)
    PROVE  ValueAt(arguments, i) \in Texts \cup {None}
<1>1. arguments[i] \in Argument
  OBVIOUS
<1>2. i < Len(arguments) => arguments[i + 1] \in Argument
  <2> SUFFICES ASSUME i < Len(arguments) PROVE arguments[i + 1] \in Argument
    OBVIOUS
  <2>1. i + 1 \in 1..Len(arguments)
    OBVIOUS
  <2> QED BY <2>1
<1> QED BY <1>1, <1>2 DEF ValueAt, Ahead, Argument

\* What parse returns: texts are texts, and there is no secret of the command line.
LEMMA ParseGives ==
    ASSUME NEW arguments \in Seq(Argument), NEW fromFile, Parse(arguments, fromFile) # Refusal
    PROVE  /\ Parsed(Parse(arguments, fromFile))
           /\ ~fromFile => DOMAIN Parse(arguments, fromFile) \cap Secrets = {}
<1> DEFINE parsed == Parse(arguments, fromFile)
<1>1. PICK a : IsRun(a, arguments, fromFile)
  BY ParseRuns
<1>2. ASSUME NEW k \in Options, k \in DOMAIN parsed, Kind[k] # "list"
      PROVE  \E i \in 1..Len(arguments) : /\ parsed[k] = ValueOf(arguments, k, i)
                                          /\ arguments[i].flag = k
                                          /\ ~Rejected(arguments, i, fromFile)
  <2>1. PICK i \in Counts(arguments, k) : parsed[k] = ValueOf(arguments, k, i)
    BY <1>1, <1>2, OptionRun DEF LastAt
  <2> QED BY <1>1, <2>1, CountsAccepted
<1>3. ASSUME NEW k \in StringOptions \cup ChoiceOptions, k \in DOMAIN parsed
      PROVE  parsed[k] \in Texts
  <2>1. k \in Options /\ Kind[k] \in {"string", "choice"}
    BY DEF Kind, Options, StringOptions, ChoiceOptions, BooleanOptions, NumberOptions
  <2>2. PICK i \in 1..Len(arguments) : /\ parsed[k] = ValueOf(arguments, k, i)
                                       /\ arguments[i].flag = k
                                       /\ ~Rejected(arguments, i, fromFile)
    BY <1>2, <1>3, <2>1
  <2>3. parsed[k] = ValueAt(arguments, i) /\ ValueAt(arguments, i) # None
    BY <2>1, <2>2 DEF ValueOf, Rejected
  <2> QED BY <2>3, ValueIsText
<1>4. ASSUME NEW k \in NumberOptions, k \in DOMAIN parsed
      PROVE  parsed[k] # None
  <2>1. k \in Options /\ Kind[k] = "number"
    BY DEF Kind, Options, StringOptions, ChoiceOptions, BooleanOptions, NumberOptions
  <2>2. PICK i \in 1..Len(arguments) : /\ parsed[k] = ValueOf(arguments, k, i)
                                       /\ arguments[i].flag = k
                                       /\ ~Rejected(arguments, i, fromFile)
    BY <1>2, <1>4, <2>1
  <2>3. parsed[k] = ParseInt(ValueAt(arguments, i)) /\ ValueAt(arguments, i) # None
    BY <2>1, <2>2 DEF ValueOf, Rejected
  <2>4. ValueAt(arguments, i) \in Texts
    BY <2>3, ValueIsText
  <2> QED BY <2>3, <2>4, ArgumentsAssumption
<1>5. \E T : Get(parsed, "proxy-domain", <<>>) \in Seq(T)
  <2> DEFINE ids == [i \in DOMAIN arguments |-> i]
             S == Counts(arguments, "proxy-domain")
             all == Selected(ids, S)
  <2>1. Get(parsed, "proxy-domain", <<>>) = [n \in DOMAIN all |-> ValueAt(arguments, all[n])]
    <3>1. "proxy-domain" \in Options /\ Kind["proxy-domain"] = "list"
      BY KindFacts
    <3> QED BY <1>1, <3>1, ListRun DEF Picked
  <2>2. ids \in Seq(1..Len(arguments))
    OBVIOUS
  <2>3. all \in Seq(1..Len(arguments))
    <3> HIDE DEF ids, S
    <3> QED BY <2>2, SelectedEmbeds
  <2> HIDE DEF all
  <2>4. [n \in DOMAIN all |-> ValueAt(arguments, all[n])] \in Seq(Texts \cup {None})
    <3>1. \A n \in DOMAIN all : ValueAt(arguments, all[n]) \in Texts \cup {None}
      <4>1. \A n \in DOMAIN all : all[n] \in 1..Len(arguments)
        BY <2>3
      <4> QED BY <4>1, ValueIsText
    <3>2. DOMAIN all = 1..Len(all) /\ Len(all) \in Nat
      BY <2>3
    <3> QED BY <3>1, <3>2
  <2> QED BY <2>1, <2>4
<1>6. ~fromFile => DOMAIN parsed \cap Secrets = {}
  <2>1. \A k \in Secrets : k \in Options /\ Kind[k] # "list"
    BY KindFacts DEF Secrets
  <2>2. ASSUME ~fromFile, NEW k \in Secrets, k \in DOMAIN parsed PROVE FALSE
    <3>1. PICK i \in 1..Len(arguments) : arguments[i].flag = k /\ ~Rejected(arguments, i, fromFile)
      BY <1>2, <2>1, <2>2
    <3> QED BY <2>2, <3>1 DEF Rejected
  <2> HIDE DEF parsed
  <2> QED BY <2>2
<1> HIDE DEF parsed
<1>7. Parsed(parsed)
  BY <1>3, <1>4, <1>5 DEF Parsed
<1> QED BY <1>6, <1>7 DEF parsed

\* The concatenation of lists is a list.
LEMMA Flattened ==
    ASSUME NEW T, NEW lists \in Seq(Seq(T))
    PROVE  FlattenSeq(lists) \in Seq(T)
<1> DEFINE N == Len(lists)
           Is(f) == f = [i \in 1..N |-> IF i = 1 THEN lists[i] ELSE f[i - 1] \o lists[i]]
<1>0. N \in Nat /\ \A i \in 1..N : lists[i] \in Seq(T)
  OBVIOUS
<1>1. CASE N = 0
  <2>1. lists = <<>>
    BY <1>1
  <2>2. FlattenSeq(lists) = lists
    BY <1>1 DEF FlattenSeq
  <2>3. <<>> \in Seq(T)
    OBVIOUS
  <2>4. FlattenSeq(lists) = <<>>
    BY <2>1, <2>2
  <2> QED BY <2>3, <2>4
<1>2. CASE N # 0
  <2> DEFINE turn == [i \in 1..N |-> [w \in Seq(T) |-> w \o lists[i]]]
  <2>1. PICK g \in [0..N -> Seq(T)] : g[0] = <<>> /\ \A i \in 1..N : g[i] = turn[i][g[i - 1]]
    <3>1. <<>> \in Seq(T)
      OBVIOUS
    <3>2. turn \in [1..N -> [Seq(T) -> Seq(T)]]
      BY <1>0, ConcatProperties
    <3> HIDE DEF turn
    <3>3. PICK g : IsLoop(g, N, Seq(T), <<>>, turn)
      BY <1>0, <3>1, <3>2, LoopExists
    <3> QED BY <3>3 DEF IsLoop
  <2> DEFINE h == [i \in 1..N |-> g[i]]
  <2>2. ASSUME NEW i \in 1..N PROVE g[i] = g[i - 1] \o lists[i] /\ g[i - 1] \in Seq(T)
    <3>1. i - 1 \in 0..N
      BY <1>0
    <3> QED BY <2>1, <3>1
  <2>3. ASSUME NEW i \in 1..N PROVE h[i] = IF i = 1 THEN lists[i] ELSE h[i - 1] \o lists[i]
    <3>1. CASE i = 1
      <4>1. <<>> \o lists[1] = lists[1] /\ i - 1 = 0
        BY <1>0, <3>1
      <4> QED BY <2>1, <2>2, <3>1, <4>1
    <3>2. CASE i # 1
      <4>1. i - 1 \in 1..N
        BY <1>0, <3>2
      <4> QED BY <2>2, <3>2, <4>1
    <3> QED BY <3>1, <3>2
  <2>4. Is(h)
    BY <2>3
  <2>5. PICK f : Is(f) /\ FlattenSeq(lists) = f[N]
    <3>1. FlattenSeq(lists) = (CHOOSE f : Is(f))[N]
      BY <1>2 DEF FlattenSeq
    <3>2. Is(CHOOSE f : Is(f))
      <4> HIDE DEF Is, h
      <4> QED BY <2>4
    <3> HIDE DEF Is
    <3> QED BY <3>1, <3>2
  <2>6. ASSUME NEW i \in 1..N PROVE f[i] = IF i = 1 THEN lists[i] ELSE f[i - 1] \o lists[i]
    BY <2>5, Zenon
  <2> DEFINE G == {0} \cup {i \in 1..N : f[i] \in Seq(T)}
  <2>7. ASSUME NEW i \in 1..N, i - 1 \in G PROVE i \in G
    <3>1. i # 1 => f[i - 1] \in Seq(T)
      BY <1>0, <2>7
    <3>2. CASE i = 1
      <4>1. f[i] = lists[i] /\ lists[i] \in Seq(T)
        BY <1>0, <2>6, <3>2
      <4> QED BY <4>1
    <3>3. CASE i # 1
      <4>1. f[i] = f[i - 1] \o lists[i] /\ lists[i] \in Seq(T)
        BY <1>0, <2>6, <3>3
      <4>2. f[i] \in Seq(T)
        BY <3>1, <3>3, <4>1, ConcatProperties
      <4> QED BY <4>2
    <3> QED BY <3>2, <3>3
  <2>8. N \in G
    <3>1. 0 \in G
      OBVIOUS
    <3> HIDE DEF G
    <3>2. 0..N \subseteq G
      BY <1>0, <2>7, <3>1, UpTo
    <3> QED BY <1>0, <3>2
  <2> QED BY <1>2, <2>5, <2>8
<1> QED BY <1>1, <1>2

\* The flags that the config file becomes are arguments.
LEMMA FlagsAreArguments ==
    ASSUME NEW doc \in Seq(Entry)
    PROVE  FlagsOf(doc) \in Seq(Argument)
<1> DEFINE flags(i) == [j \in DOMAIN doc[i].texts |-> [flag |-> doc[i].key, text |-> doc[i].texts[j]]]
           lists == [i \in DOMAIN doc |-> flags(i)]
<1>1. ASSUME NEW i \in DOMAIN doc PROVE flags(i) \in Seq(Argument)
  <2>0. doc[i] \in Entry
    OBVIOUS
  <2>1. /\ doc[i].key \in Options \cup {"unknown"} /\ doc[i].texts \in Seq(Texts \cup {None})
    BY <2>0 DEF Entry
  <2>2. doc[i].key # None
    BY <2>1, ArgumentsAssumption
  <2>3. ASSUME NEW j \in DOMAIN doc[i].texts
        PROVE  [flag |-> doc[i].key, text |-> doc[i].texts[j]] \in Argument
    <3>1. doc[i].texts[j] \in Texts \cup {None}
      BY <2>1
    <3> QED BY <2>1, <2>2, <3>1 DEF Argument
  <2>4. DOMAIN doc[i].texts = 1..Len(doc[i].texts) /\ Len(doc[i].texts) \in Nat
    BY <2>1
  <2> DEFINE n == Len(doc[i].texts)
             arg(j) == [flag |-> doc[i].key, text |-> doc[i].texts[j]]
  <2>5. flags(i) = [j \in 1..n |-> arg(j)] /\ \A j \in 1..n : arg(j) \in Argument
    BY <2>3, <2>4
  <2> HIDE DEF n, arg
  <2>6. n \in Nat => [j \in 1..n |-> arg(j)] \in Seq(Argument)
    BY <2>5
  <2> QED BY <2>4, <2>5, <2>6 DEF n
<1>2. lists \in Seq(Seq(Argument))
  BY <1>1
<1> HIDE DEF lists
<1>3. FlattenSeq(lists) \in Seq(Argument)
  BY <1>2, Flattened
<1> QED BY <1>3 DEF FlagsOf, lists

-----------------------------------------------------------------------------
(* Startup: setDefaults.                                                    *)

\* The loop that drops duplicate domains.
DropsDuplicates(f, given) ==
    /\ f[0] = <<>>
    /\ \A n \in 1..Len(given) :
          f[n] = IF Stripped(given[n]) \in ToSet(f[n - 1]) THEN f[n - 1]
                 ELSE Append(f[n - 1], Stripped(given[n]))

\* The proxy domains are what the loop comes to that drops duplicates.
LEMMA DomainsLoop ==
    ASSUME NEW T, NEW given \in Seq(T), NEW parsed, given = Get(parsed, "proxy-domain", <<>>)
    PROVE  \E f : /\ DropsDuplicates(f, given)
                  /\ ProxyDomains(parsed) =
                        [i \in DOMAIN f[Len(given)] |-> WithPort(f[Len(given)][i])]
<1> DEFINE N == Len(given)
           Next1(w, n) == IF Stripped(given[n]) \in ToSet(w) THEN w
                         ELSE Append(w, Stripped(given[n]))
           Loop(f, k) == f = [n \in 0..k |-> IF n = 0 THEN <<>>
                                ELSE IF Stripped(given[n]) \in ToSet(f[n - 1]) THEN f[n - 1]
                                     ELSE Append(f[n - 1], Stripped(given[n]))]
           G == {k \in 0..N : \E f : Loop(f, k)}
<1>0. N \in Nat
  OBVIOUS
<1>1. 0 \in G
  <2>1. Loop([n \in 0..0 |-> <<>>], 0)
    OBVIOUS
  <2> HIDE DEF Loop
  <2> QED BY <1>0, <2>1
<1>2. ASSUME NEW m \in 1..N, m - 1 \in G PROVE m \in G
  <2>1. PICK g : Loop(g, m - 1)
    BY <1>2
  <2> DEFINE h == [n \in 0..m |-> IF n = m THEN Next1(g[m - 1], m) ELSE g[n]]
  <2>2. ASSUME NEW n \in 0..m
        PROVE  h[n] = IF n = 0 THEN <<>>
                      ELSE IF Stripped(given[n]) \in ToSet(h[n - 1]) THEN h[n - 1]
                           ELSE Append(h[n - 1], Stripped(given[n]))
    <3>1. CASE n = m
      <4>1. h[n - 1] = g[m - 1] /\ h[n] = Next1(g[m - 1], m) /\ n # 0
        BY <1>0, <3>1
      <4> QED BY <3>1, <4>1
    <3>2. CASE n # m
      <4>1. h[n] = g[n] /\ n \in 0..(m - 1) /\ (n # 0 => h[n - 1] = g[n - 1])
        BY <1>0, <3>2
      <4>2. g[n] = IF n = 0 THEN <<>>
                      ELSE IF Stripped(given[n]) \in ToSet(g[n - 1]) THEN g[n - 1]
                           ELSE Append(g[n - 1], Stripped(given[n]))
        BY <2>1, <4>1, Zenon
      <4> QED BY <4>1, <4>2
    <3> QED BY <3>1, <3>2
  <2>3. Loop(h, m)
    <3> HIDE DEF Next1
    <3> QED BY <2>2, Zenon
  <2> HIDE DEF h, Loop
  <2> QED BY <1>0, <2>3
<1>3. \E f : Loop(f, N)
  <2> HIDE DEF G
  <2>1. 0..N \subseteq G
    BY <1>0, <1>1, <1>2, UpTo
  <2>2. N \in G
    BY <1>0, <2>1
  <2> QED BY <2>2, Zenon DEF G
<1> DEFINE f0 == CHOOSE f : Loop(f, N)
<1>4. Loop(f0, N)
  <2> HIDE DEF Loop
  <2> QED BY <1>3
<1>5. ProxyDomains(parsed) = [i \in DOMAIN f0[N] |-> WithPort(f0[N][i])]
  BY DEF ProxyDomains
<1> HIDE DEF f0
<1>6. f0[0] = <<>>
  BY <1>0, <1>4
<1>7. ASSUME NEW n \in 1..N
      PROVE  f0[n] = IF Stripped(given[n]) \in ToSet(f0[n - 1]) THEN f0[n - 1]
                     ELSE Append(f0[n - 1], Stripped(given[n]))
  <2>1. n \in 0..N /\ n # 0
    BY <1>0
  <2> QED BY <1>4, <2>1, Zenon
<1>8. DropsDuplicates(f0, given)
  BY <1>6, <1>7 DEF DropsDuplicates
<1> HIDE DEF Loop
<1> QED BY <1>5, <1>8

\* The domains are what was given, each once.
LEMMA DomainsOnce ==
    ASSUME NEW T, NEW given \in Seq(T), NEW parsed, given = Get(parsed, "proxy-domain", <<>>)
    PROVE  LET domains == {Stripped(d) : d \in ToSet(given)}
           IN  /\ ToSet(ProxyDomains(parsed)) = {WithPort(d) : d \in domains}
               /\ Len(ProxyDomains(parsed)) = Cardinality(domains)
<1> DEFINE N == Len(given)
           D == {Stripped(d) : d \in T}
           Each(w, n) == /\ w \in Seq(D)
                         /\ \A i, j \in 1..Len(w) : w[i] = w[j] => i = j
                         /\ ToSet(w) = {Stripped(given[i]) : i \in 1..n}
<1>0. N \in Nat /\ \A n \in 1..N : given[n] \in T
  OBVIOUS
<1>1. PICK f : /\ DropsDuplicates(f, given)
               /\ ProxyDomains(parsed) = [i \in DOMAIN f[N] |-> WithPort(f[N][i])]
  BY DomainsLoop
<1> DEFINE G == {n \in 0..N : Each(f[n], n)}
<1>2. 0 \in G
  <2>1. f[0] = <<>> /\ 0 \in 0..N
    BY <1>0, <1>1 DEF DropsDuplicates
  <2>2. ToSet(<<>>) = {Stripped(given[i]) : i \in 1..0}
    BY DEF ToSet
  <2>3. Each(<<>>, 0)
    BY <2>2
  <2> HIDE DEF Each
  <2> QED BY <2>1, <2>3
<1>3. ASSUME NEW n \in 1..N, n - 1 \in G PROVE n \in G
  <2>1. PICK w, x : w = f[n - 1] /\ x = Stripped(given[n])
    OBVIOUS
  <2>2. Each(w, n - 1) /\ x \in D /\ n \in 0..N
    BY <1>0, <1>3, <2>1
  <2>3. f[n] = IF x \in ToSet(w) THEN w ELSE Append(w, x)
    BY <1>1, <2>1 DEF DropsDuplicates
  <2>4. {Stripped(given[i]) : i \in 1..n} = {Stripped(given[i]) : i \in 1..(n - 1)} \cup {x}
    <3>1. 1..n = 1..(n - 1) \cup {n}
      BY <1>0
    <3> QED BY <2>1, <3>1
  <2>5. CASE x \in ToSet(w)
    <3>1. ToSet(w) = {Stripped(given[i]) : i \in 1..n}
      BY <2>2, <2>4, <2>5
    <3> QED BY <2>2, <2>3, <2>5, <3>1
  <2>6. CASE x \notin ToSet(w)
    <3> DEFINE v == Append(w, x)
    <3>1. /\ Len(w) \in Nat /\ DOMAIN w = 1..Len(w) /\ v \in Seq(D) /\ Len(v) = Len(w) + 1
          /\ \A i \in 1..Len(w) : v[i] = w[i]
          /\ v[Len(w) + 1] = x
      BY <2>2, AppendProperties
    <3> HIDE DEF v
    <3>2. \A i \in 1..Len(w) : w[i] # x
      BY <2>6, <3>1 DEF ToSet
    <3>3. ASSUME NEW i \in 1..Len(v), NEW j \in 1..Len(v), v[i] = v[j] PROVE i = j
      <4>1. (i \in 1..Len(w) \/ i = Len(w) + 1) /\ (j \in 1..Len(w) \/ j = Len(w) + 1)
        BY <3>1
      <4> QED BY <2>2, <3>1, <3>2, <3>3, <4>1
    <3>4. ToSet(v) = ToSet(w) \cup {x}
      <4>1. DOMAIN v = 1..(Len(w) + 1)
        BY <3>1
      <4>2. ToSet(v) = {v[i] : i \in 1..(Len(w) + 1)} /\ ToSet(w) = {w[i] : i \in 1..Len(w)}
        BY <3>1, <4>1 DEF ToSet
      <4>3. 1..(Len(w) + 1) = 1..Len(w) \cup {Len(w) + 1}
        BY <3>1
      <4> QED BY <3>1, <4>2, <4>3
    <3>5. Each(v, n)
      BY <2>2, <2>4, <3>1, <3>3, <3>4
    <3>6. f[n] = v
      BY <2>3, <2>6 DEF v
    <3> QED BY <2>2, <3>5, <3>6
  <2> QED BY <2>5, <2>6
<1>4. Each(f[N], N)
  <2> HIDE DEF G
  <2>1. 0..N \subseteq G
    BY <1>0, <1>2, <1>3, UpTo
  <2>2. N \in G
    BY <1>0, <2>1
  <2> QED BY <2>2, Zenon DEF G
<1>5. PICK w : w = f[N]
  OBVIOUS
<1> DEFINE domains == {Stripped(d) : d \in ToSet(given)}
           n == Len(w)
<1>6. /\ w \in Seq(D) /\ n \in Nat /\ DOMAIN w = 1..n
      /\ \A i, j \in 1..n : w[i] = w[j] => i = j
  BY <1>4, <1>5
<1>7. ToSet(w) = domains
  <2>1. ToSet(w) = {Stripped(given[i]) : i \in 1..N}
    BY <1>4, <1>5
  <2>2. ToSet(given) = {given[i] : i \in 1..N}
    BY DEF ToSet
  <2> QED BY <2>1, <2>2
<1>8. Cardinality(domains) = n
  <2>1. w \in [1..n -> domains]
    <3>1. w = [i \in 1..n |-> w[i]]
      BY <1>6
    <3>2. \A i \in 1..n : w[i] \in domains
      BY <1>6, <1>7 DEF ToSet
    <3> HIDE DEF domains, n
    <3> QED BY <3>1, <3>2
  <2>2. \A d \in domains : \E i \in 1..n : w[i] = d
    BY <1>6, <1>7 DEF ToSet
  <2>3. w \in Bijection(1..n, domains)
    <3> HIDE DEF domains, n
    <3> QED BY <1>6, <2>1, <2>2 DEF Bijection, Injection, Surjection, IsInjective
  <2> HIDE DEF domains, n
  <2>4. ExistsBijection(1..n, domains)
    BY <2>3 DEF ExistsBijection
  <2> QED BY <1>6, <2>4, FS_CountingElements
<1>9. Len(ProxyDomains(parsed)) = n
  <2>1. ProxyDomains(parsed) = [i \in 1..n |-> WithPort(w[i])]
    BY <1>1, <1>5, <1>6
  <2> HIDE DEF n
  <2> QED BY <1>6, <2>1
<1>10. ToSet(ProxyDomains(parsed)) = {WithPort(d) : d \in domains}
  <2>1. ProxyDomains(parsed) = [i \in 1..n |-> WithPort(w[i])]
    BY <1>1, <1>5, <1>6
  <2>2. ToSet(w) = {w[i] : i \in 1..n}
    BY <1>6 DEF ToSet
  <2>3. ToSet(ProxyDomains(parsed)) = {WithPort(w[i]) : i \in 1..n}
    <3> HIDE DEF n
    <3> QED BY <2>1 DEF ToSet
  <2> HIDE DEF domains, n
  <2> QED BY <1>7, <2>2, <2>3
<1> QED BY <1>8, <1>9, <1>10

\* The first of a list that is something.
LEMMA FirstIs ==
    ASSUME NEW T, NEW c \in Seq(T), NEW i \in 1..Len(c), c[i] # None,
           \A j \in 1..(i - 1) : c[j] = None
    PROVE  FirstGiven(c) = c[i]
<1> DEFINE First(k) == c[k] # None /\ \A j \in 1..(k - 1) : c[j] = None
           k == CHOOSE k \in DOMAIN c : First(k)
<1>1. DOMAIN c = 1..Len(c) /\ Len(c) \in Nat
  OBVIOUS
<1>2. k \in 1..Len(c) /\ First(k)
  <2>1. i \in DOMAIN c /\ First(i)
    BY <1>1
  <2> HIDE DEF First
  <2> QED BY <1>1, <2>1
<1>3. FirstGiven(c) = c[k]
  BY DEF FirstGiven
<1> HIDE DEF k
<1>4. k = i
  <2>1. ~(k < i)
    BY <1>1, <1>2
  <2>2. ~(i < k)
    BY <1>1, <1>2
  <2> QED BY <1>1, <1>2, <2>1, <2>2
<1> QED BY <1>3, <1>4

\* The first of two.
LEMMA FirstOfTwo ==
    ASSUME NEW a, NEW b, a # None \/ b # None
    PROVE  FirstGiven(<<a, b>>) = IF a # None THEN a ELSE b
<1> DEFINE c == <<a, b>>
<1>1. c \in Seq({a, b}) /\ Len(c) = 2 /\ c[1] = a /\ c[2] = b
  OBVIOUS
<1> HIDE DEF c
<1>2. CASE a # None
  <2>1. FirstGiven(c) = c[1]
    BY <1>1, <1>2, FirstIs
  <2> QED BY <1>1, <1>2, <2>1 DEF c
<1>3. CASE a = None
  <2>0. 2 \in 1..Len(c) /\ c[2] # None /\ \A j \in 1..(2 - 1) : c[j] = None
    BY <1>1, <1>3
  <2>1. FirstGiven(c) = c[2]
    BY <1>1, <2>0, FirstIs
  <2> QED BY <1>1, <1>3, <2>1 DEF c
<1> QED BY <1>2, <1>3

\* The first of three.
LEMMA FirstOfThree ==
    ASSUME NEW a, NEW b, NEW d, d # None
    PROVE  FirstGiven(<<a, b, d>>) = IF a # None THEN a ELSE IF b # None THEN b ELSE d
<1> DEFINE c == <<a, b, d>>
<1>1. c \in Seq({a, b, d}) /\ Len(c) = 3 /\ c[1] = a /\ c[2] = b /\ c[3] = d
  OBVIOUS
<1> HIDE DEF c
<1>2. CASE a # None
  <2>1. FirstGiven(c) = c[1]
    BY <1>1, <1>2, FirstIs
  <2> QED BY <1>1, <1>2, <2>1 DEF c
<1>3. CASE a = None /\ b # None
  <2>1. FirstGiven(c) = c[2]
    BY <1>1, <1>3, FirstIs
  <2> QED BY <1>1, <1>3, <2>1 DEF c
<1>4. CASE a = None /\ b = None
  <2>0. 3 \in 1..Len(c) /\ c[3] # None /\ \A j \in 1..(3 - 1) : c[j] = None
    BY <1>1, <1>4
  <2>1. FirstGiven(c) = c[3]
    BY <1>1, <2>0, FirstIs
  <2> QED BY <1>1, <1>4, <2>1 DEF c
<1> QED BY <1>2, <1>3, <1>4

\* The first of six.
LEMMA FirstOfSix ==
    ASSUME NEW a1, NEW a2, NEW a3, NEW a4, NEW a5, NEW a6, a6 # None
    PROVE  FirstGiven(<<a1, a2, a3, a4, a5, a6>>) =
             IF a1 # None THEN a1 ELSE IF a2 # None THEN a2 ELSE IF a3 # None THEN a3
             ELSE IF a4 # None THEN a4 ELSE IF a5 # None THEN a5 ELSE a6
<1> DEFINE c == <<a1, a2, a3, a4, a5, a6>>
<1>1. /\ c \in Seq({a1, a2, a3, a4, a5, a6}) /\ Len(c) = 6
      /\ c[1] = a1 /\ c[2] = a2 /\ c[3] = a3 /\ c[4] = a4 /\ c[5] = a5 /\ c[6] = a6
  OBVIOUS
<1>2. PICK i \in 1..6 : c[i] # None /\ \A j \in 1..(i - 1) : c[j] = None
  <2> HIDE DEF c
  <2>1. CASE a1 # None
    <3> WITNESS 1 \in 1..6
    <3> QED BY <1>1, <2>1
  <2>2. CASE a1 = None /\ a2 # None
    <3> WITNESS 2 \in 1..6
    <3> QED BY <1>1, <2>2
  <2>3. CASE a1 = None /\ a2 = None /\ a3 # None
    <3> WITNESS 3 \in 1..6
    <3> QED BY <1>1, <2>3
  <2>4. CASE a1 = None /\ a2 = None /\ a3 = None /\ a4 # None
    <3> WITNESS 4 \in 1..6
    <3> QED BY <1>1, <2>4
  <2>5. CASE a1 = None /\ a2 = None /\ a3 = None /\ a4 = None /\ a5 # None
    <3> WITNESS 5 \in 1..6
    <3> QED BY <1>1, <2>5
  <2>6. CASE a1 = None /\ a2 = None /\ a3 = None /\ a4 = None /\ a5 = None
    <3> WITNESS 6 \in 1..6
    <3> QED BY <1>1, <2>6
  <2> QED BY <2>1, <2>2, <2>3, <2>4, <2>5, <2>6
<1>3. FirstGiven(c) = c[i]
  <2> HIDE DEF c
  <2> QED BY <1>1, <1>2, FirstIs
<1>4. c[i] = IF a1 # None THEN a1 ELSE IF a2 # None THEN a2 ELSE IF a3 # None THEN a3
             ELSE IF a4 # None THEN a4 ELSE IF a5 # None THEN a5 ELSE a6
  <2> HIDE DEF c
  <2> QED BY <1>1, <1>2
<1> QED BY <1>3, <1>4

\* setDefaults takes each value from the first source that has it.
LEMMA SetDefaultsRanked ==
    ASSUME NEW cli, NEW line, NEW var, Parsed(cli), Parsed(line),
           DOMAIN cli \cap Secrets = {}, var \in [Variables -> Texts \cup {None}]
    PROVE  IsRanked(cli, line, var, SetDefaults(cli, line, var))
<1> DEFINE set == SetDefaults(cli, line, var)
           over == Over(cli, line)
           Flag(k) == Get(cli, k, None)
           Line(k) == Get(line, k, None)
           Host(b) == IF b = None THEN None ELSE HostOf(b)
           Port(b) == IF b = None THEN None ELSE IF PortOf(b) = None THEN 80 ELSE PortOf(b)
           port == IF var.PORT = None THEN None ELSE ParseInt(var.PORT)
           given == ToSet(Get(cli, "proxy-domain", Get(line, "proxy-domain", <<>>)))
           domains == {Stripped(d) : d \in given}
           limit == var.CODE_SERVER_IDLE_TIMEOUT_SECONDS
           level == IF var.LOG_LEVEL \in ValidValues.log THEN var.LOG_LEVEL ELSE None
<1>1. \A k : /\ k \in DOMAIN over <=> k \in DOMAIN cli \/ k \in DOMAIN line
             /\ \A x : Get(over, k, x) = Get(cli, k, Get(line, k, x))
  BY DEF Over, Get
<1>2. \A v \in Variables : var[v] \in Texts \cup {None}
  OBVIOUS
<1>3. /\ \A k \in {"host", "bind-addr", "password", "hashed-password", "auth", "log"} :
            /\ k \in DOMAIN cli => cli[k] \in Texts
            /\ k \in DOMAIN line => line[k] \in Texts
      /\ \A k \in {"port", "idle-timeout-seconds"} :
            /\ k \in DOMAIN cli => cli[k] # None
            /\ k \in DOMAIN line => line[k] # None
  BY DEF Parsed, StringOptions, ChoiceOptions, NumberOptions
<1>4. /\ "PORT" \in Variables /\ "LOG_LEVEL" \in Variables /\ "CODE_SERVER_HOST" \in Variables
      /\ "PASSWORD" \in Variables /\ "HASHED_PASSWORD" \in Variables
      /\ "CODE_SERVER_IDLE_TIMEOUT_SECONDS" \in Variables
  BY DEF Variables
<1>5. /\ \A t \in Texts : t # None /\ ParseInt(t) # None /\ HostOf(t) # None
      /\ "localhost" # None /\ "password" # None /\ 80 # None /\ 8080 # None
  BY ArgumentsAssumption, KindFacts
<1>6. /\ set.host = BindAddrFromAllSources(line, cli, var).host
      /\ set.port = BindAddrFromAllSources(line, cli, var).port
      /\ set.log = LogLevel(over, var) /\ set.auth = Get(over, "auth", "password")
      /\ set.password = OrVariable(var.PASSWORD, over, "password")
      /\ set.hashedPassword = OrVariable(var.HASHED_PASSWORD, over, "hashed-password")
      /\ set.idleTimeoutSeconds = IF limit # None THEN Number(limit)
                                  ELSE Get(over, "idle-timeout-seconds", None)
      /\ set.proxyDomain = ProxyDomains(over)
  BY DEF SetDefaults
<1> HIDE DEF set, over
<1>7. set.host = FirstGiven(<<Flag("host"), var.CODE_SERVER_HOST, Host(Flag("bind-addr")),
                              Line("host"), Host(Line("bind-addr")), "localhost">>)
  <2>1. FirstGiven(<<Flag("host"), var.CODE_SERVER_HOST, Host(Flag("bind-addr")),
                              Line("host"), Host(Line("bind-addr")), "localhost">>) =
           IF Flag("host") # None THEN Flag("host")
           ELSE IF var.CODE_SERVER_HOST # None THEN var.CODE_SERVER_HOST
           ELSE IF Host(Flag("bind-addr")) # None THEN Host(Flag("bind-addr"))
           ELSE IF Line("host") # None THEN Line("host")
           ELSE IF Host(Line("bind-addr")) # None THEN Host(Line("bind-addr")) ELSE "localhost"
    <3> HIDE DEF Flag, Line, Host
    <3> QED BY <1>5, FirstOfSix
  <2>2. BindAddrFromAllSources(line, cli, var).host =
           IF "host" \in DOMAIN cli THEN cli["host"]
           ELSE IF var.CODE_SERVER_HOST # None THEN var.CODE_SERVER_HOST
           ELSE IF "bind-addr" \in DOMAIN cli THEN HostOf(cli["bind-addr"])
           ELSE IF "host" \in DOMAIN line THEN line["host"]
           ELSE IF "bind-addr" \in DOMAIN line THEN HostOf(line["bind-addr"]) ELSE "localhost"
    BY DEF BindAddrFromAllSources, BindAddrFromArgs, Get
  <2> QED BY <1>3, <1>5, <1>6, <2>1, <2>2 DEF Get
<1>8. set.port = FirstGiven(<<Flag("port"), port, Port(Flag("bind-addr")),
                              Line("port"), Port(Line("bind-addr")), 8080>>)
  <2>1. FirstGiven(<<Flag("port"), port, Port(Flag("bind-addr")),
                              Line("port"), Port(Line("bind-addr")), 8080>>) =
           IF Flag("port") # None THEN Flag("port")
           ELSE IF port # None THEN port
           ELSE IF Port(Flag("bind-addr")) # None THEN Port(Flag("bind-addr"))
           ELSE IF Line("port") # None THEN Line("port")
           ELSE IF Port(Line("bind-addr")) # None THEN Port(Line("bind-addr")) ELSE 8080
    <3> HIDE DEF Flag, Line, Port, port
    <3> QED BY <1>5, FirstOfSix
  <2>2. BindAddrFromAllSources(line, cli, var).port =
           IF "port" \in DOMAIN cli THEN cli["port"]
           ELSE IF var.PORT # None THEN ParseInt(var.PORT)
           ELSE IF "bind-addr" \in DOMAIN cli
                THEN IF PortOf(cli["bind-addr"]) = None THEN 80 ELSE PortOf(cli["bind-addr"])
           ELSE IF "port" \in DOMAIN line THEN line["port"]
           ELSE IF "bind-addr" \in DOMAIN line
                THEN IF PortOf(line["bind-addr"]) = None THEN 80 ELSE PortOf(line["bind-addr"])
           ELSE 8080
    BY DEF BindAddrFromAllSources, BindAddrFromArgs, Get
  <2>3. port = IF var.PORT = None THEN None ELSE ParseInt(var.PORT)
    OBVIOUS
  <2>4. var.PORT # None => ParseInt(var.PORT) # None
    BY <1>2, <1>4, <1>5
  <2> QED BY <1>3, <1>5, <1>6, <2>1, <2>2, <2>3, <2>4 DEF Get
<1>9. set.log = IF "verbose" \in DOMAIN cli \cup DOMAIN line THEN "trace"
                ELSE IF Flag("log") # None \/ Line("log") # None
                     THEN FirstGiven(<<Flag("log"), Line("log")>>) ELSE level
  <2>1. Flag("log") # None \/ Line("log") # None =>
          FirstGiven(<<Flag("log"), Line("log")>>) =
             IF Flag("log") # None THEN Flag("log") ELSE Line("log")
    <3> HIDE DEF Flag, Line
    <3> QED BY FirstOfTwo
  <2>2. ValidValues.log = {"trace", "debug", "info", "warn", "error"}
    BY DEF ValidValues
  <2>3. set.log = IF "verbose" \in DOMAIN over THEN "trace"
                  ELSE IF "log" \in DOMAIN over THEN Get(over, "log", None)
                  ELSE level
    BY <1>6 DEF LogLevel, Get
  <2> HIDE DEF level
  <2> QED BY <1>1, <1>3, <1>5, <2>1, <2>3 DEF Get
<1>10. set.auth = FirstGiven(<<Flag("auth"), Line("auth"), "password">>)
  <2>1. FirstGiven(<<Flag("auth"), Line("auth"), "password">>) =
           IF Flag("auth") # None THEN Flag("auth")
           ELSE IF Line("auth") # None THEN Line("auth") ELSE "password"
    <3> HIDE DEF Flag, Line
    <3> QED BY <1>5, FirstOfThree
  <2> QED BY <1>1, <1>3, <1>5, <1>6, <2>1 DEF Get
<1>11. /\ set.password = IF var.PASSWORD # None THEN var.PASSWORD ELSE Line("password")
       /\ set.hashedPassword =
             IF var.HASHED_PASSWORD # None THEN var.HASHED_PASSWORD ELSE Line("hashed-password")
  <2>1. "password" \notin DOMAIN cli /\ "hashed-password" \notin DOMAIN cli
    BY DEF Secrets
  <2> QED BY <1>1, <1>6, <2>1 DEF OrVariable, Get
<1>12. set.idleTimeoutSeconds =
          IF limit # None THEN Number(limit)
          ELSE IF Flag("idle-timeout-seconds") # None THEN Flag("idle-timeout-seconds")
          ELSE Line("idle-timeout-seconds")
  BY <1>1, <1>3, <1>6 DEF Get
<1>13. /\ ToSet(set.proxyDomain) = {WithPort(d) : d \in domains}
       /\ Len(set.proxyDomain) = Cardinality(domains)
  <2> DEFINE list == Get(cli, "proxy-domain", Get(line, "proxy-domain", <<>>))
  <2>1. list = Get(over, "proxy-domain", <<>>)
    BY <1>1
  <2>2. PICK T : list \in Seq(T)
    <3>1. PICK T : Get(cli, "proxy-domain", <<>>) \in Seq(T)
      BY DEF Parsed
    <3>2. PICK U : Get(line, "proxy-domain", <<>>) \in Seq(U)
      BY DEF Parsed
    <3>3. CASE "proxy-domain" \in DOMAIN cli
      BY <3>1, <3>3 DEF Get
    <3>4. CASE "proxy-domain" \notin DOMAIN cli
      BY <3>2, <3>4 DEF Get
    <3> QED BY <3>3, <3>4
  <2> HIDE DEF list
  <2>3. LET each == {Stripped(d) : d \in ToSet(list)}
        IN  /\ ToSet(ProxyDomains(over)) = {WithPort(d) : d \in each}
            /\ Len(ProxyDomains(over)) = Cardinality(each)
    BY <2>1, <2>2, DomainsOnce
  <2>4. domains = {Stripped(d) : d \in ToSet(list)}
    BY DEF list
  <2> HIDE DEF domains
  <2> QED BY <1>6, <2>3, <2>4
<1>14. IsRanked(cli, line, var, set)
  BY <1>7, <1>8, <1>9, <1>10, <1>11, <1>12, <1>13 DEF IsRanked
<1> QED BY <1>14 DEF set

-----------------------------------------------------------------------------
(* Startup: the config file and the certificate.                            *)

\* At most one start has created the file and not written it, which is empty
\* as long, it is there once a start reads it, and what a start has read of
\* another start's is still there.
ConfigInv ==
    /\ \A s \in Starts : stage[s] = "reading" => configFile # Missing
    /\ \A s, t \in Starts : stage[s] = "created" /\ stage[t] = "created" => s = t
    /\ \A s \in Starts : config[s] \in Generated => config[s] = configFile

\* A start generates while it has something left to write. Undisturbed it is
\* alone, and what it has written is still there when it writes the other.
PairInv ==
    /\ \A s \in Starts : (stage[s] = "generating" <=> left[s] # {}) /\ opened[s] \subseteq left[s]
    /\ ~disturbed =>
          /\ \A s, t \in Starts : Writing(s) /\ Writing(t) => s = t
          /\ \A s \in Starts : Writing(s) =>
                /\ "crt" \notin left[s] => crt = s
                /\ "key" \notin left[s] => key = s
          /\ (\A s \in Starts : ~Writing(s)) => crt # Blank /\ key # Blank

Inv == TypeOK /\ ConfigInv /\ PairInv /\ PairIsWhole

\* Initially nobody writes and nothing is read.
LEMMA InitInv == Init => Inv
<1> SUFFICES ASSUME Init PROVE Inv
    OBVIOUS
<1> USE StartupAssumption
<1>1. TypeOK
    BY DEF Init, TypeOK, Documents, Stages
<1>2. ConfigInv
  <2>1. \A s \in Starts : config[s] = None /\ stage[s] = "new"
    BY DEF Init
  <2> QED
    BY <2>1 DEF ConfigInv, Generated
<1>3. PairInv /\ PairIsWhole
    BY DEF Init, PairInv, PairIsWhole, Writing
<1> QED
    BY <1>1, <1>2, <1>3 DEF Inv

\* The steps before the certificate leave it alone.
LEMMA ConfigSteps ==
    ASSUME Inv, NEW s \in Starts,
           ParseArgv(s) \/ Create(s) \/ WriteDefault(s) \/ ReadConfig(s)
    PROVE  Inv'
<1> USE StartupAssumption
<1>1. CASE ParseArgv(s)
  <2>1. TypeOK'
    BY <1>1 DEF ParseArgv, Goto, files, Inv, TypeOK, Stages
  <2>2. ConfigInv'
    BY <1>1 DEF ParseArgv, Goto, files, Inv, TypeOK, ConfigInv
  <2>3. PairInv' /\ PairIsWhole'
    BY <1>1 DEF ParseArgv, Goto, files, Inv, TypeOK, PairInv, PairIsWhole, Writing
  <2> QED
    BY <2>1, <2>2, <2>3 DEF Inv
<1>2. CASE Create(s)
  <2>1. TypeOK'
    BY <1>2 DEF Create, Goto, Inv, TypeOK, Stages, Documents
  <2>2. ConfigInv'
    <3>1. configFile # Missing => configFile' = configFile
        BY <1>2 DEF Create
    <3>2. \A t \in Starts : config[t] \in Generated => config[t] # Missing
        BY DEF Generated
    <3> QED
        BY <1>2, <3>1, <3>2 DEF Create, Goto, Inv, TypeOK, ConfigInv
  <2>3. PairInv' /\ PairIsWhole'
    BY <1>2 DEF Create, Goto, Inv, TypeOK, PairInv, PairIsWhole, Writing
  <2> QED
    BY <2>1, <2>2, <2>3 DEF Inv
<1>3. CASE WriteDefault(s)
  <2>0. configFile = <<>> /\ configFile' \in Generated
    BY <1>3 DEF WriteDefault, Inv, TypeOK, Generated
  <2>1. TypeOK'
    BY <1>3, <2>0 DEF WriteDefault, Goto, Inv, TypeOK, ConfigInv, Stages, Documents
  <2>2. ConfigInv'
    <3>1. \A t \in Starts : config[t] \notin Generated
        BY <2>0 DEF Inv, ConfigInv, Generated
    <3> QED
        BY <1>3, <3>1 DEF WriteDefault, Goto, Inv, TypeOK, ConfigInv, Generated
  <2>3. PairInv' /\ PairIsWhole'
    BY <1>3 DEF WriteDefault, Goto, Inv, TypeOK, PairInv, PairIsWhole, Writing
  <2> QED
    BY <2>1, <2>2, <2>3 DEF Inv
<1>4. CASE ReadConfig(s)
  <2>1. stage[s] = "reading" /\ \E next \in {"refused", "checking", "set"} : Goto(s, next)
    BY <1>4 DEF ReadConfig
  <2>2. /\ config' = [config EXCEPT ![s] = configFile]
        /\ args' = args \/ \E set : args' = [args EXCEPT ![s] = set]
        /\ UNCHANGED <<files, argv, env, cliArgs, opened, left, disturbed>>
    BY <1>4 DEF ReadConfig
  <2>3. TypeOK'
    BY <2>1, <2>2 DEF Goto, files, Inv, TypeOK, ConfigInv, Stages
  <2>4. ConfigInv'
    BY <2>1, <2>2 DEF Goto, files, Inv, TypeOK, ConfigInv, Generated
  <2>5. PairInv' /\ PairIsWhole'
    BY <2>1, <2>2 DEF Goto, files, Inv, TypeOK, PairInv, PairIsWhole, Writing
  <2> QED
    BY <2>3, <2>4, <2>5 DEF Inv
<1> QED
    BY <1>1, <1>2, <1>3, <1>4

\* The two files of a pair are opened and written by one start at a time, or
\* else something is disturbed.
LEMMA PairSteps ==
    ASSUME Inv, NEW s \in Starts,
           \/ CheckCertificate(s)
           \/ \E f \in Pair : OpenPem(s, f) \/ WritePem(s, f)
    PROVE  Inv'
<1> USE StartupAssumption
<1>1. CASE CheckCertificate(s)
  <2>1. ConfigInv'
    BY <1>1 DEF CheckCertificate, Goto, files, Inv, TypeOK, ConfigInv
  <2>2. CASE crt # Missing /\ key # Missing
    <3>1. Goto(s, "set") /\ UNCHANGED <<files, argv, env, cliArgs, config, args, opened, left, disturbed>>
        BY <1>1, <2>2 DEF CheckCertificate
    <3>2. TypeOK'
        BY <1>1, <3>1 DEF CheckCertificate, Goto, Inv, TypeOK, Stages, files
    <3>3. PairInv' /\ PairIsWhole'
        BY <1>1, <3>1 DEF CheckCertificate, Goto, files, Inv, TypeOK, PairInv, PairIsWhole, Writing
    <3> QED
        BY <2>1, <3>2, <3>3 DEF Inv
  <2>3. CASE ~(crt # Missing /\ key # Missing)
    <3>1. /\ stage[s] = "checking" /\ Goto(s, "generating")
          /\ left' = [left EXCEPT ![s] = Pair]
          /\ UNCHANGED <<files, argv, env, cliArgs, config, args, opened>>
        BY <1>1, <2>3 DEF CheckCertificate
    <3>2. /\ disturbed' \in BOOLEAN /\ (disturbed => disturbed')
          /\ ~disturbed' => \A t \in Starts : ~Writing(t)
        BY <1>1, <2>3, Zenon DEF CheckCertificate, Inv, TypeOK
    <3>3. TypeOK'
        BY <3>1, <3>2 DEF Goto, Inv, TypeOK, Stages, Pair, files
    <3>4. PairInv' /\ PairIsWhole'
        BY <3>1, <3>2 DEF Goto, files, Inv, TypeOK, PairInv, PairIsWhole, Writing, Pair
    <3> QED
        BY <2>1, <3>3, <3>4 DEF Inv
  <2> QED
    BY <2>2, <2>3
<1>2. ASSUME NEW f \in Pair, OpenPem(s, f) PROVE Inv'
  <2>1. TypeOK'
    BY <1>2 DEF OpenPem, Put, Goto, Inv, TypeOK, PairInv, Stages, Pair
  <2>2. ConfigInv'
    BY <1>2 DEF OpenPem, Inv, TypeOK, ConfigInv
  <2>3. PairInv' /\ PairIsWhole'
    BY <1>2 DEF OpenPem, Put, Inv, TypeOK, PairInv, PairIsWhole, Writing, Pair
  <2> QED
    BY <2>1, <2>2, <2>3 DEF Inv
<1>3. ASSUME NEW f \in Pair, WritePem(s, f) PROVE Inv'
  <2>1. TypeOK'
    BY <1>3 DEF WritePem, Put, Goto, Inv, TypeOK, PairInv, Stages, Pair
  <2>2. ConfigInv'
    BY <1>3 DEF WritePem, Goto, Inv, TypeOK, ConfigInv
  <2>3. PairInv' /\ PairIsWhole'
    BY <1>3 DEF WritePem, Put, Goto, Inv, TypeOK, PairInv, PairIsWhole, Writing, Pair
  <2> QED
    BY <2>1, <2>2, <2>3 DEF Inv
<1> QED
    BY <1>1, <1>2, <1>3

\* The end of a start, however it ends, and the next one.
LEMMA EndSteps ==
    ASSUME Inv, NEW s \in Starts, Serve(s) \/ Die(s) \/ Again(s)
    PROVE  Inv'
<1> USE StartupAssumption
<1>1. CASE Serve(s)
  <2>1. TypeOK'
    BY <1>1 DEF Serve, Goto, files, Inv, TypeOK, Stages
  <2>2. ConfigInv'
    BY <1>1 DEF Serve, Goto, files, Inv, TypeOK, ConfigInv
  <2>3. PairInv' /\ PairIsWhole'
    BY <1>1 DEF Serve, Goto, files, Inv, TypeOK, PairInv, PairIsWhole, Writing
  <2> QED
    BY <2>1, <2>2, <2>3 DEF Inv
<1>2. CASE Die(s)
  <2>1. TypeOK'
    BY <1>2 DEF Die, Goto, files, Inv, TypeOK, PairInv, Writing, Stages
  <2>2. ConfigInv'
    BY <1>2 DEF Die, Goto, files, Inv, TypeOK, ConfigInv
  <2>3. PairInv' /\ PairIsWhole'
    BY <1>2 DEF Die, Goto, files, Inv, TypeOK, PairInv, PairIsWhole, Writing
  <2> QED
    BY <2>1, <2>2, <2>3 DEF Inv
<1>3. CASE Again(s)
  <2>1. TypeOK'
    BY <1>3 DEF Again, Goto, files, Inv, TypeOK, Stages
  <2>2. ConfigInv'
    BY <1>3 DEF Again, Goto, files, Inv, TypeOK, ConfigInv, Generated
  <2>3. PairInv' /\ PairIsWhole'
    BY <1>3 DEF Again, Goto, files, Inv, TypeOK, PairInv, PairIsWhole, Writing
  <2> QED
    BY <2>1, <2>2, <2>3 DEF Inv
<1> QED
    BY <1>1, <1>2, <1>3

LEMMA Inductive == Spec => []Inv
<1>1. Inv /\ [Next]_vars => Inv'
  <2> SUFFICES ASSUME Inv, [Next]_vars PROVE Inv'
    OBVIOUS
  <2>1. CASE UNCHANGED vars
    BY <2>1 DEF vars, files, Inv, TypeOK, ConfigInv, PairInv, PairIsWhole,
                Writing
  <2>2. CASE Next
    BY <2>2, ConfigSteps, PairSteps, EndSteps DEF Next
  <2> QED
    BY <2>1, <2>2
<1> QED
    BY <1>1, InitInv, PTL DEF Spec

\* The types of the files and of each start; a new config file stays empty
\* until its start writes it, a blank certificate or key has a writer or a
\* death behind it.
THEOREM TypeCorrect == Spec => []TypeOK
BY Inductive, PTL DEF Inv

\* Starts that find no config file agree on one: what each has read is the file
\* as it is.
THEOREM OneConfigTheorem == Spec => []OneConfig
<1>1. Inv => OneConfig
    BY DEF Inv, ConfigInv, OneConfig
<1> QED
    BY <1>1, Inductive, PTL

\* Undisturbed, a certificate and its key are of one pair.
THEOREM PairIsWholeTheorem == Spec => []PairIsWhole
BY Inductive, PTL DEF Inv

\* A config file that exists says what it says for good, and an empty one is
\* filled only by the start that created it (cli.ts:754-765).
LEMMA ConfigFileSteps ==
    ASSUME Inv, [Next]_vars
    PROVE  \/ configFile' = configFile
           \/ (configFile = Missing /\ configFile' = <<>>)
           \/ /\ configFile = <<>>
              /\ \E s \in Starts : /\ stage[s] = "created"
                                   /\ configFile' = DefaultConfigFile(NewPassword(s))
<1>1. ASSUME NEW s \in Starts, Create(s)
      PROVE  configFile' = configFile \/ (configFile = Missing /\ configFile' = <<>>)
    BY <1>1 DEF Create
<1>2. ASSUME NEW s \in Starts, WriteDefault(s)
      PROVE  /\ configFile = <<>> /\ stage[s] = "created"
             /\ configFile' = DefaultConfigFile(NewPassword(s))
    BY <1>2 DEF WriteDefault, Inv, TypeOK
<1>3. ASSUME NEW s \in Starts,
             \/ ParseArgv(s) \/ ReadConfig(s) \/ CheckCertificate(s) \/ Serve(s)
             \/ Die(s) \/ Again(s) \/ \E f \in Pair : OpenPem(s, f) \/ WritePem(s, f)
      PROVE  configFile' = configFile
    BY <1>3 DEF ParseArgv, ReadConfig, CheckCertificate, Serve, Die, Again,
                OpenPem, WritePem, files
<1>4. UNCHANGED vars => configFile' = configFile
    BY DEF vars, files
<1> QED
    BY <1>1, <1>2, <1>3, <1>4 DEF Next

\* No configuration that exists is overwritten, whoever wrote it and however
\* many starts there are (cli.ts:762).
THEOREM ConfigIsKept ==
    Spec => [][configFile \notin {Missing, <<>>} => configFile' = configFile]_vars
<1>1. Inv /\ [Next]_vars
      => [configFile \notin {Missing, <<>>} => configFile' = configFile]_vars
    BY ConfigFileSteps
<1> QED
    BY <1>1, Inductive, PTL DEF Spec

-----------------------------------------------------------------------------
(* Startup implements WriteOnce.                                            *)

LEMMA WriteOnceBegins == Init => W!Init
<1> SUFFICES ASSUME Init PROVE W!Init
    OBVIOUS
<1> USE StartupAssumption
<1>1. SavedConfig(configFile) \in Files \cup {None}
    BY DEF Init, SavedConfig
<1>2. (configFile # Missing) = (SavedConfig(configFile) # None)
    BY DEF Init, SavedConfig
<1>3. {s \in Starts : stage[s] = "created"} = {}
    BY DEF Init
<1>4. [s \in Starts |-> SavedConfig(config[s])] = [r \in Starts |-> None]
  <2>1. \A s \in Starts : SavedConfig(config[s]) = None
    BY DEF Init, SavedConfig
  <2> QED
    BY <2>1
<1> QED
    BY <1>1, <1>2, <1>3, <1>4 DEF W!Init

\* The step of a start that leaves the config file and what it read of it alone
\* is no step of the abstraction, unless it is the end of a writer.
LEMMA WriteOnceStutters ==
    ASSUME Inv, NEW s \in Starts, NEW next, next # "created", Goto(s, next),
           UNCHANGED <<configFile, config>>
    PROVE  W!GiveUp(s) \/ UNCHANGED W!vars
<1> DEFINE writing == {t \in Starts : stage[t] = "created"}
<1>1. writing' = writing \ {s}
    BY DEF Goto, Inv, TypeOK
<1>2. /\ UNCHANGED (configFile # Missing) /\ UNCHANGED SavedConfig(configFile)
      /\ UNCHANGED [t \in Starts |-> SavedConfig(config[t])]
    BY DEF SavedConfig
<1>3. CASE stage[s] = "created"
  <2>1. writing = {s}
    BY <1>3 DEF Inv, ConfigInv
  <2> QED
    BY <1>1, <1>2, <2>1 DEF W!GiveUp
<1>4. CASE stage[s] # "created"
  <2>1. writing' = writing
    BY <1>1, <1>4
  <2> QED
    BY <1>2, <2>1 DEF W!vars
<1> QED
    BY <1>3, <1>4

\* Creating the file is taking it, writing it is writing.
LEMMA WriteOnceFile ==
    ASSUME Inv, NEW s \in Starts, Create(s) \/ WriteDefault(s)
    PROVE  W!Take(s) \/ W!Write(s) \/ UNCHANGED W!vars
<1> USE StartupAssumption
<1> DEFINE writing == {t \in Starts : stage[t] = "created"}
<1>1. CASE Create(s) /\ configFile = Missing
  <2>1. /\ Goto(s, "created") /\ configFile' = <<>> /\ config' = config
    BY <1>1 DEF Create
  <2>2. writing = {}
    BY <1>1 DEF Inv, TypeOK
  <2>3. writing' = {s}
    BY <2>1, <2>2 DEF Goto, Inv, TypeOK
  <2>4. /\ SavedConfig(configFile') = SavedConfig(configFile) /\ configFile' # Missing
        /\ UNCHANGED [t \in Starts |-> SavedConfig(config[t])]
    BY <1>1, <2>1 DEF SavedConfig
  <2> QED
    BY <1>1, <2>3, <2>4 DEF W!Take, SavedConfig
<1>2. CASE Create(s) /\ configFile # Missing
  <2>1. Goto(s, "reading") /\ UNCHANGED <<configFile, config>> /\ stage[s] = "parsed"
    BY <1>2 DEF Create
  <2>2. W!GiveUp(s) \/ UNCHANGED W!vars
    BY <2>1, WriteOnceStutters
  <2>3. ~W!GiveUp(s)
    BY <2>1 DEF W!GiveUp
  <2> QED
    BY <2>2, <2>3
<1>3. CASE WriteDefault(s)
  <2>1. /\ stage[s] = "created" /\ Goto(s, "reading") /\ config' = config
        /\ configFile' = DefaultConfigFile(NewPassword(s))
        /\ configFile = <<>>
    BY <1>3 DEF WriteDefault, Inv, TypeOK
  <2>2. writing = {s}
    BY <2>1 DEF Inv, ConfigInv
  <2>3. writing' = {}
    BY <2>1, <2>2 DEF Goto, Inv, TypeOK
  <2>4. /\ SavedConfig(configFile) = None /\ SavedConfig(configFile') = configFile'
        /\ configFile # Missing /\ configFile' # Missing
        /\ UNCHANGED [t \in Starts |-> SavedConfig(config[t])]
    BY <2>1 DEF SavedConfig
  <2>5. configFile' = [t \in Starts |-> DefaultConfigFile(NewPassword(t))][s]
    BY <2>1
  <2> QED
    BY <2>2, <2>3, <2>4, <2>5 DEF W!Write, SavedConfig
<1> QED
    BY <1>1, <1>2, <1>3

\* Reading the file hands it out, and a start that is tried again forgets it.
LEMMA WriteOnceReads ==
    ASSUME Inv, NEW s \in Starts, ReadConfig(s) \/ Again(s)
    PROVE  W!Read(s) \/ W!Drop(s)
<1> USE StartupAssumption
<1> DEFINE writing == {t \in Starts : stage[t] = "created"}
           read == [t \in Starts |-> SavedConfig(config[t])]
<1>1. CASE ReadConfig(s)
  <2>1. /\ stage[s] = "reading" /\ configFile' = configFile
        /\ config' = [config EXCEPT ![s] = configFile]
        /\ \E next \in {"refused", "checking", "set"} : Goto(s, next)
    BY <1>1 DEF ReadConfig, files
  <2>2. configFile # Missing /\ s \notin writing
    BY <2>1 DEF Inv, ConfigInv
  <2>3. writing' = writing
    BY <2>1 DEF Goto, Inv, TypeOK
  <2>4. read' = [read EXCEPT ![s] = SavedConfig(configFile)]
    <3>1. \A t \in Starts : config'[t] = IF t = s THEN configFile ELSE config[t]
        BY <2>1 DEF Inv, TypeOK
    <3> QED
        BY <3>1 DEF SavedConfig
  <2> QED
    BY <2>1, <2>2, <2>3, <2>4 DEF W!Read, SavedConfig
<1>2. CASE Again(s)
  <2>1. /\ stage[s] \in {"refused", "died"} /\ configFile' = configFile /\ Goto(s, "new")
        /\ config' = [config EXCEPT ![s] = None]
    BY <1>2 DEF Again, files
  <2>2. writing' = writing
    BY <2>1 DEF Goto, Inv, TypeOK
  <2>3. read' = [read EXCEPT ![s] = None]
    <3>1. \A t \in Starts : config'[t] = IF t = s THEN None ELSE config[t]
        BY <2>1 DEF Inv, TypeOK
    <3> QED
        BY <3>1 DEF SavedConfig
  <2> QED
    BY <2>1, <2>2, <2>3 DEF W!Drop, SavedConfig
<1> QED
    BY <1>1, <1>2

\* Every step of the starts is one of the abstraction or none.
LEMMA WriteOnceSteps == Inv /\ [Next]_vars => [W!Next]_(W!vars)
<1> SUFFICES ASSUME Inv, [Next]_vars PROVE [W!Next]_(W!vars)
    OBVIOUS
<1>1. CASE UNCHANGED vars
    BY <1>1 DEF vars, files, W!vars, SavedConfig
<1>2. ASSUME NEW s \in Starts, Create(s) \/ WriteDefault(s) PROVE [W!Next]_(W!vars)
    BY <1>2, WriteOnceFile DEF W!Next
<1>3. ASSUME NEW s \in Starts, ReadConfig(s) \/ Again(s) PROVE [W!Next]_(W!vars)
    BY <1>3, WriteOnceReads DEF W!Next
<1>4. ASSUME NEW s \in Starts, NEW next, next # "created", Goto(s, next),
             UNCHANGED <<configFile, config>>
      PROVE  [W!Next]_(W!vars)
    BY <1>4, WriteOnceStutters DEF W!Next
<1>5. ASSUME NEW s \in Starts,
             ParseArgv(s) \/ CheckCertificate(s) \/ Serve(s) \/ Die(s)
      PROVE  /\ UNCHANGED <<configFile, config>>
             /\ \E next \in Stages \ {"created"} : Goto(s, next)
    BY <1>5 DEF ParseArgv, CheckCertificate, Serve, Die, files, Stages
<1>6. ASSUME NEW s \in Starts, NEW f \in Pair, WritePem(s, f)
      PROVE  /\ UNCHANGED <<configFile, config>>
             /\ \E next \in Stages \ {"created"} : Goto(s, next)
    BY <1>6 DEF WritePem, Stages
<1>7. ASSUME NEW s \in Starts, NEW f \in Pair, OpenPem(s, f) PROVE UNCHANGED W!vars
    BY <1>7 DEF OpenPem, W!vars, SavedConfig
<1> QED
    BY <1>1, <1>2, <1>3, <1>4, <1>5, <1>6, <1>7 DEF Next

\* The config file is written at most once, by one of the starts that found none,
\* and a start that reads something reads what it holds (cli.ts:754-765).
THEOREM ImplementsWriteOnceTheorem == Spec => ImplementsWriteOnce
BY Inductive, WriteOnceBegins, WriteOnceSteps, PTL DEF Spec, W!Spec, ImplementsWriteOnce

-----------------------------------------------------------------------------
(* What a start has of its command line, its file and its environment is    *)
(* what parse and setDefaults make of them, and nothing was refused.        *)

ArgsInv ==
    \A s \in Starts :
        /\ argv[s] \in Seq(Argument) /\ env[s] \in [Variables -> Texts \cup {None}]
        /\ stage[s] \in {"parsed", "created", "reading", "checking", "generating", "set", "serving"}
           => cliArgs[s] = Parse(argv[s], FALSE) /\ cliArgs[s] # Refusal
        /\ stage[s] \in {"checking", "generating", "set", "serving"}
           => /\ config[s] \in Seq(Entry) /\ ParseConfigFile(config[s]) # Refusal
              /\ args[s] = SetDefaults(cliArgs[s], ParseConfigFile(config[s]), env[s])

\* Every step of a start keeps ArgsInv; it takes that the file is there when it
\* is read.
LEMMA ArgsStep ==
    ASSUME Inv, ArgsInv, [Next]_vars
    PROVE  ArgsInv'
<1>1. SUFFICES ASSUME NEW t \in Starts
               PROVE  /\ argv'[t] \in Seq(Argument)
                      /\ env'[t] \in [Variables -> Texts \cup {None}]
                      /\ stage'[t] \in {"parsed", "created", "reading", "checking", "generating",
                                        "set", "serving"}
                         => cliArgs'[t] = Parse(argv'[t], FALSE) /\ cliArgs'[t] # Refusal
                      /\ stage'[t] \in {"checking", "generating", "set", "serving"}
                         => /\ config'[t] \in Seq(Entry) /\ ParseConfigFile(config'[t]) # Refusal
                            /\ args'[t] = SetDefaults(cliArgs'[t], ParseConfigFile(config'[t]),
                                                      env'[t])
  BY DEF ArgsInv
<1> DEFINE Far(x) == x \in {"parsed", "created", "reading", "checking", "generating", "set",
                            "serving"}
           Set(x) == x \in {"checking", "generating", "set", "serving"}
<1>2. /\ argv[t] \in Seq(Argument) /\ env[t] \in [Variables -> Texts \cup {None}]
      /\ Far(stage[t]) => cliArgs[t] = Parse(argv[t], FALSE) /\ cliArgs[t] # Refusal
      /\ Set(stage[t]) => /\ config[t] \in Seq(Entry) /\ ParseConfigFile(config[t]) # Refusal
                          /\ args[t] = SetDefaults(cliArgs[t], ParseConfigFile(config[t]), env[t])
  BY DEF ArgsInv
<1>3. /\ stage \in [Starts -> Stages] /\ DOMAIN cliArgs = Starts /\ DOMAIN args = Starts
      /\ config \in [Starts -> Documents \cup {None}]
  BY DEF Inv, TypeOK
<1>4. argv' = argv /\ env' = env
  BY DEF Next, vars, ParseArgv, Create, WriteDefault, ReadConfig, CheckCertificate, OpenPem,
         WritePem, Serve, Die, Again
\* A start that goes no further than its arguments let it keeps them.
<1>5. ASSUME UNCHANGED <<cliArgs, config, args>>,
             Far(stage'[t]) => Far(stage[t]), Set(stage'[t]) => Set(stage[t])
      PROVE  /\ Far(stage'[t]) => cliArgs'[t] = Parse(argv[t], FALSE) /\ cliArgs'[t] # Refusal
             /\ Set(stage'[t]) =>
                   /\ config'[t] \in Seq(Entry) /\ ParseConfigFile(config'[t]) # Refusal
                   /\ args'[t] = SetDefaults(cliArgs'[t], ParseConfigFile(config'[t]), env[t])
  BY <1>2, <1>5
<1>6. ASSUME NEW s \in Starts, s # t,
             \E x : Goto(s, x), \E x : cliArgs' = [cliArgs EXCEPT ![s] = x],
             \E x : config' = [config EXCEPT ![s] = x], \E x : args' = [args EXCEPT ![s] = x]
      PROVE  /\ stage'[t] = stage[t] /\ cliArgs'[t] = cliArgs[t]
             /\ config'[t] = config[t] /\ args'[t] = args[t]
  BY <1>3, <1>6 DEF Goto
<1>7. ASSUME UNCHANGED vars
      PROVE  UNCHANGED <<cliArgs, config, args>> /\ stage' = stage
  BY <1>7 DEF vars
<1>8. ASSUME NEW s \in Starts, ParseArgv(s)
      PROVE  /\ Far(stage'[t]) => cliArgs'[t] = Parse(argv[t], FALSE) /\ cliArgs'[t] # Refusal
             /\ Set(stage'[t]) =>
                   /\ config'[t] \in Seq(Entry) /\ ParseConfigFile(config'[t]) # Refusal
                   /\ args'[t] = SetDefaults(cliArgs'[t], ParseConfigFile(config'[t]), env[t])
  <2>1. /\ cliArgs' = [cliArgs EXCEPT ![s] = Parse(argv[s], FALSE)]
        /\ stage' = [stage EXCEPT ![s] = IF cliArgs'[s] = Refusal THEN "refused" ELSE "parsed"]
        /\ UNCHANGED <<config, args>>
    BY <1>8 DEF ParseArgv, Goto
  <2>2. CASE s = t
    BY <1>3, <2>1, <2>2
  <2>3. CASE s # t
    BY <1>2, <1>3, <2>1, <2>3
  <2> QED BY <2>2, <2>3
<1>9. ASSUME NEW s \in Starts, ReadConfig(s)
      PROVE  /\ Far(stage'[t]) => cliArgs'[t] = Parse(argv[t], FALSE) /\ cliArgs'[t] # Refusal
             /\ Set(stage'[t]) =>
                   /\ config'[t] \in Seq(Entry) /\ ParseConfigFile(config'[t]) # Refusal
                   /\ args'[t] = SetDefaults(cliArgs'[t], ParseConfigFile(config'[t]), env[t])
  <2>1. /\ config' = [config EXCEPT ![s] = configFile] /\ UNCHANGED cliArgs
        /\ stage[s] = "reading"
        /\ \/ ParseConfigFile(configFile) = Refusal /\ Goto(s, "refused") /\ UNCHANGED args
           \/ /\ ParseConfigFile(configFile) # Refusal
              /\ args' = [args EXCEPT ![s] = SetDefaults(cliArgs[s], ParseConfigFile(configFile),
                                                         env[s])]
              /\ \E x \in {"checking", "set"} : Goto(s, x)
    BY <1>9 DEF ReadConfig
  <2>2. CASE s = t
    <3>1. configFile \in Seq(Entry)
      <4>1. configFile \in Documents
        BY <2>1 DEF Inv, TypeOK, ConfigInv
      <4>2. \A d \in Files \cup Generated : d \in Seq(Entry)
        BY StartupAssumption DEF Generated
      <4>3. <<>> \in Seq(Entry)
        OBVIOUS
      <4> QED BY <4>1, <4>2, <4>3 DEF Documents
    <3>2. Far(stage[t]) /\ config'[t] = configFile
      BY <1>3, <2>1, <2>2
    <3>3. CASE Goto(s, "refused")
      BY <1>3, <2>2, <3>3 DEF Goto
    <3>4. CASE ~Goto(s, "refused")
      BY <1>2, <1>3, <2>1, <2>2, <3>1, <3>2, <3>4
    <3> QED BY <3>3, <3>4
  <2>3. CASE s # t
    <3>1. stage'[t] = stage[t] /\ config'[t] = config[t] /\ args'[t] = args[t]
      BY <1>3, <2>1, <2>3 DEF Goto
    <3> QED BY <1>2, <2>1, <3>1
  <2> QED BY <2>2, <2>3
<1>10. ASSUME NEW s \in Starts, Again(s)
       PROVE  /\ Far(stage'[t]) => cliArgs'[t] = Parse(argv[t], FALSE) /\ cliArgs'[t] # Refusal
              /\ Set(stage'[t]) =>
                    /\ config'[t] \in Seq(Entry) /\ ParseConfigFile(config'[t]) # Refusal
                    /\ args'[t] = SetDefaults(cliArgs'[t], ParseConfigFile(config'[t]), env[t])
  BY <1>2, <1>3, <1>10 DEF Again, Goto
<1>11. ASSUME NEW s \in Starts,
              \/ Create(s) \/ WriteDefault(s) \/ CheckCertificate(s)
              \/ \E f \in Pair : OpenPem(s, f) \/ WritePem(s, f)
              \/ Serve(s) \/ Die(s)
       PROVE  /\ UNCHANGED <<cliArgs, config, args>>
              /\ Far(stage'[t]) => Far(stage[t]) /\ (Set(stage'[t]) => Set(stage[t]))
  <2>1. UNCHANGED <<cliArgs, config, args>>
    BY <1>11 DEF Create, WriteDefault, CheckCertificate, OpenPem, WritePem, Serve, Die
  <2>2. (Far(stage'[t]) => Far(stage[t])) /\ (Set(stage'[t]) => Set(stage[t]))
    BY <1>3, <1>11 DEF Create, WriteDefault, CheckCertificate, OpenPem, WritePem, Serve, Die,
                       Goto
  <2> QED BY <2>1, <2>2
<1> QED BY <1>2, <1>4, <1>5, <1>7, <1>8, <1>9, <1>10, <1>11 DEF Next

\* ArgsInv holds of every behaviour.
LEMMA ArgsHeld == Spec => []ArgsInv
<1>1. Init => ArgsInv
  <2> SUFFICES ASSUME Init, NEW s \in Starts
               PROVE  /\ argv[s] \in Seq(Argument) /\ env[s] \in [Variables -> Texts \cup {None}]
                      /\ stage[s] = "new"
    BY DEF ArgsInv
  <2> QED BY StartupAssumption DEF Init
<1>2. Inv /\ ArgsInv /\ [Next]_vars => ArgsInv'
  BY ArgsStep
<1> QED BY <1>1, <1>2, Inductive, PTL DEF Spec

\* Of what is on the command line each option keeps what it was last given,
\* lists keep all, words are words only where they are no values, and no secret
\* gets through (cli.ts:373-509).
THEOREM ParsedAsGivenTheorem == Spec => []ParsedAsGiven
<1>1. ArgsInv => ParsedAsGiven
  <2> SUFFICES ASSUME ArgsInv, NEW s \in Starts, stage[s] = "parsed"
               PROVE  IsParseOf(argv[s], cliArgs[s])
    BY DEF ParsedAsGiven
  <2>1. /\ argv[s] \in Seq(Argument) /\ cliArgs[s] = Parse(argv[s], FALSE)
        /\ Parse(argv[s], FALSE) # Refusal
    BY DEF ArgsInv
  <2> QED BY <2>1, ParseIsParse
<1> QED BY <1>1, ArgsHeld, PTL

\* The address and all else come from the first of the sources that has it
\* (cli.ts:552-712, 829-861).
THEOREM SourcesRankedTheorem == Spec => []SourcesRanked
<1>1. ArgsInv => SourcesRanked
  <2> SUFFICES ASSUME ArgsInv, NEW s \in Starts,
                      stage[s] \in {"checking", "generating", "set", "serving"}
               PROVE  IsRanked(cliArgs[s], ParseConfigFile(config[s]), env[s], args[s])
    BY DEF SourcesRanked
  <2>1. /\ argv[s] \in Seq(Argument) /\ env[s] \in [Variables -> Texts \cup {None}]
        /\ cliArgs[s] = Parse(argv[s], FALSE) /\ Parse(argv[s], FALSE) # Refusal
        /\ config[s] \in Seq(Entry) /\ ParseConfigFile(config[s]) # Refusal
        /\ args[s] = SetDefaults(cliArgs[s], ParseConfigFile(config[s]), env[s])
    BY DEF ArgsInv
  <2>2. Parsed(cliArgs[s]) /\ DOMAIN cliArgs[s] \cap Secrets = {}
    BY <2>1, ParseGives
  <2>3. Parsed(ParseConfigFile(config[s]))
    BY <2>1, FlagsAreArguments, ParseGives DEF ParseConfigFile
  <2> DEFINE fromFile == ParseConfigFile(config[s])
  <2>4. \A cli, line, var :
           /\ Parsed(cli) /\ Parsed(line) /\ DOMAIN cli \cap Secrets = {}
           /\ var \in [Variables -> Texts \cup {None}]
           => IsRanked(cli, line, var, SetDefaults(cli, line, var))
    BY SetDefaultsRanked
  <2> HIDE DEF fromFile
  <2>5. IsRanked(cliArgs[s], fromFile, env[s], SetDefaults(cliArgs[s], fromFile, env[s]))
    BY <2>1, <2>2, <2>3, <2>4, Zenon DEF fromFile
  <2> QED BY <2>1, <2>5 DEF fromFile
<1> QED BY <1>1, ArgsHeld, PTL
=============================================================================
