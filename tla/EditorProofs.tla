------------------------------- MODULE EditorProofs -------------------------------
(***************************************************************************)
(* The editors of an item: the full screen never writes an item another user *)
(* holds; what the user typed is always accounted for, on the screen and in  *)
(* the card panel; a switch of type carries the words; passing through the   *)
(* estimate's field keeps it; the last patch of a checklist or a document is *)
(* the whole of it.                                                          *)
(***************************************************************************)
EXTENDS MCEditor, DataLemmas

-----------------------------------------------------------------------------
(* The lock *)

\* No edit waits, is on its way, or is being made.
Quiet == timer = NoPatch /\ flight = {} /\ ~deleting

Loading == phase \in {"booting", "item", "extras", "lock"}

\* Quiet until the lock is answered, which is why a refusal finds nothing to stop.
LockInv == (Loading => Quiet) /\ (locked => Quiet)

\* What arms the timer, sends a patch or deletes does so on a writable screen.
LEMMA EditsKeepLockInv ==
    ASSUME LockInv, Writable, UNCHANGED <<phase, locked>>
    PROVE  LockInv'
BY DEF LockInv, Writable, Loading

\* A quiet screen has nothing to fire and nothing to be answered.
LEMMA BackgroundKeepsQuiet ==
    ASSUME Quiet, Background, UNCHANGED screen
    PROVE  Quiet'
<1>1. CASE TimerFires
  BY <1>1 DEF TimerFires, Quiet
<1>2. CASE Answers
  BY <1>2 DEF Answers, Quiet
<1>3. CASE BadgeFades
  BY <1>3 DEF BadgeFades, Quiet, screen
<1> QED
  BY <1>1, <1>2, <1>3 DEF Background

LEMMA LockInvHolds == EditorSpec => []LockInv
<1>1. AutosaveInit /\ EditorInit => LockInv
  BY DEF AutosaveInit, EditorInit, LockInv, Quiet
<1>2. LockInv /\ [EditorNext]_<<saving, screen>> => LockInv'
  <2> SUFFICES ASSUME LockInv, [EditorNext]_<<saving, screen>> PROVE LockInv'
    OBVIOUS
  <2>1. CASE Boot
    BY <2>1 DEF Boot, At, LockInv, Loading, Quiet, saving
  <2>2. CASE LoadItem
    BY <2>2 DEF LoadItem, At, LockInv, Loading, Quiet
  <2>3. CASE LoadFails
    BY <2>3 DEF LoadFails, At, LockInv, Loading, Quiet, saving
  <2>4. CASE LoadExtras
    BY <2>4 DEF LoadExtras, At, LockInv, Loading, Quiet, saving
  <2>5. CASE LockAnswered
    <3>1. Quiet /\ UNCHANGED <<timer, flight, deleting>>
      BY <2>5 DEF LockAnswered, At, LockInv, Loading, saving
    <3> QED
      BY <3>1 DEF LockInv, Quiet
  <2>6. CASE EditTitle
    BY <2>6, EditsKeepLockInv DEF EditTitle, screen
  <2>7. CASE EditPlan
    BY <2>7, EditsKeepLockInv DEF EditPlan, screen
  <2>8. CASE Pick
    BY <2>8, EditsKeepLockInv DEF Pick, screen
  <2>9. CASE EditBody
    BY <2>9, EditsKeepLockInv DEF EditBody, screen
  <2>10. CASE ChangeType
    BY <2>10, EditsKeepLockInv DEF ChangeType, screen
  <2>11. CASE Delete
    BY <2>11, EditsKeepLockInv DEF Delete
  <2>12. CASE DeleteArrives
    BY <2>12 DEF DeleteArrives, screen, LockInv, Loading, Quiet
  <2>13. CASE DeleteAnswered
    BY <2>13 DEF DeleteAnswered, Unmount, DropPending, LockInv, Loading, Quiet
  <2>14. CASE DeleteFails
    BY <2>14 DEF DeleteFails, saving, LockInv, Loading, Quiet
  <2>15. CASE Leave
    BY <2>15 DEF Leave, Unmount, DropPending, LockInv, Loading, Quiet
  <2>16. CASE Background /\ UNCHANGED screen
    BY <2>16, BackgroundKeepsQuiet DEF screen, LockInv, Loading
  <2>17. CASE UNCHANGED <<saving, screen>>
    BY <2>17 DEF saving, screen, LockInv, Loading, Quiet
  <2> QED
    BY <2>1, <2>2, <2>3, <2>4, <2>5, <2>6, <2>7, <2>8, <2>9, <2>10, <2>11, <2>12, <2>13, <2>14,
       <2>15, <2>16, <2>17 DEF EditorNext
<1> QED
  BY <1>1, <1>2, PTL DEF EditorSpec

\* item/[id].tsx: a screen whose lock request was answered 423 sends no edit of its
\* own, for any number of edits and in whatever order loads, answers and timers come.
\* A request that fails in another way leaves the screen writable.
THEOREM ReadOnlyScreenIsSilent == EditorSpec => []LockedOutNeverWrites
<1>1. LockInv => LockedOutNeverWrites
  BY DEF LockInv, LockedOutNeverWrites, Quiet
<1> QED
  BY <1>1, LockInvHolds, PTL

-----------------------------------------------------------------------------
(* Lines of text *)

\* What NonBlank builds, line by line.
KeepsWords(s, kept) ==
    /\ kept[0] = <<>>
    /\ \A n \in 1..Len(s) :
         kept[n] = IF s[n] = Blank THEN kept[n - 1] ELSE Append(kept[n - 1], s[n])

LEMMA NonBlankIsBuilt ==
    ASSUME NEW W, NEW s \in Seq(W)
    PROVE  \E kept \in [0..Len(s) -> Seq(W)] : KeepsWords(s, kept) /\ NonBlank(s) = kept[Len(s)]
<1> DEFINE step == [n \in Nat |-> [v \in Seq(W) |->
              IF n \notin 1..Len(s) \/ s[n] = Blank THEN v ELSE Append(v, s[n])]]
           Body(k) == [n \in 0..Len(s) |->
              IF n = 0 THEN <<>> ELSE IF s[n] = Blank THEN k[n - 1] ELSE Append(k[n - 1], s[n])]
           chosen == CHOOSE k : k = Body(k)
<1>1. \A n \in 1..Len(s) : s[n] \in W
  OBVIOUS
<1>2. step \in [Nat -> [Seq(W) -> Seq(W)]]
  BY <1>1, AppendProperties
<1>3. \A n \in 1..Len(s) : \A v \in Seq(W) : step[n][v] = IF s[n] = Blank THEN v ELSE Append(v, s[n])
  OBVIOUS
<1>4. Len(s) \in Nat /\ <<>> \in Seq(W)
  OBVIOUS
<1>5. PICK f \in [0..Len(s) -> Seq(W)] : f[0] = <<>> /\ \A n \in 1..Len(s) : f[n] = step[n][f[n - 1]]
  <2> DEFINE V == Seq(W)
             first == <<>>
             top == Len(s)
  <2>1. step \in [Nat -> [V -> V]] /\ first \in V /\ top \in Nat
    BY <1>2, <1>4
  <2> HIDE DEF step, V, first, top
  <2>2. Reaches(V, first, step, top)
    BY <2>1, StepwiseFunction
  <2> QED
    BY <2>2 DEF V, first, top, Reaches
<1> HIDE DEF step
<1>6. f = Body(f)
  <2>1. ASSUME NEW n \in 0..Len(s) PROVE f[n] = Body(f)[n]
    <3>1. CASE n = 0
      BY <1>5, <3>1
    <3>2. CASE n # 0
      <4>1. n \in 1..Len(s) /\ n - 1 \in 0..Len(s)
        BY <1>4, <3>2
      <4> QED
        BY <1>3, <1>5, <4>1
    <3> QED
      BY <3>1, <3>2
  <2> QED
    BY <2>1
<1> HIDE DEF Body
<1>7. chosen = Body(chosen)
  BY <1>6
<1>8. NonBlank(s) = chosen[Len(s)]
  BY DEF NonBlank, Body
<1> HIDE DEF chosen
<1>9. /\ DOMAIN chosen = 0..Len(s) /\ chosen[0] = <<>>
      /\ \A n \in 1..Len(s) : chosen[n] = IF s[n] = Blank THEN chosen[n - 1] ELSE Append(chosen[n - 1], s[n])
  <2>1. chosen = [n \in 0..Len(s) |-> IF n = 0 THEN <<>> ELSE IF s[n] = Blank THEN chosen[n - 1]
                                      ELSE Append(chosen[n - 1], s[n])]
    BY <1>7 DEF Body
  <2>2. DOMAIN chosen = 0..Len(s)
    BY <2>1
  <2>3. \A n \in 0..Len(s) :
          chosen[n] = IF n = 0 THEN <<>> ELSE IF s[n] = Blank THEN chosen[n - 1]
                      ELSE Append(chosen[n - 1], s[n])
    BY <2>1, Zenon
  <2>4. 0 \in 0..Len(s) /\ \A n \in 1..Len(s) : n \in 0..Len(s) /\ n # 0
    BY <1>4
  <2> QED
    BY <2>2, <2>3, <2>4
<1>10. \A n \in 0..Len(s) : chosen[n] \in Seq(W)
  <2> DEFINE T == {n \in Nat : n <= Len(s) => chosen[n] \in Seq(W)}
  <2>1. 0 \in T
    BY <1>4, <1>9
  <2>2. ASSUME NEW n \in Nat, n \in T PROVE n + 1 \in T
    <3> SUFFICES ASSUME n + 1 <= Len(s) PROVE chosen[n + 1] \in Seq(W)
      OBVIOUS
    <3>1. n + 1 \in 1..Len(s) /\ (n + 1) - 1 = n /\ chosen[n] \in Seq(W)
      BY <1>4, <2>2
    <3>2. CASE s[n + 1] = Blank
      BY <1>9, <3>1, <3>2
    <3>3. CASE s[n + 1] # Blank
      <4>1. chosen[n + 1] = Append(chosen[n], s[n + 1])
        BY <1>9, <3>1, <3>3
      <4>2. s[n + 1] \in W
        BY <1>1, <3>1
      <4> QED
        BY <3>1, <4>1, <4>2, AppendProperties
    <3> QED
      BY <3>2, <3>3
  <2>3. Nat \subseteq T
    <3> HIDE DEF T
    <3> QED
      BY <2>1, <2>2, AllNumbers
  <2> QED
    BY <1>4, <2>3
<1>11. chosen = [n \in 0..Len(s) |-> chosen[n]]
  BY <1>7, <1>9 DEF Body
<1> QED
  BY <1>8, <1>9, <1>10, <1>11 DEF KeepsWords

\* The lines kept are no more than there were, and none is blank.
LEMMA NonBlankHasNoBlank ==
    ASSUME NEW W, NEW s \in Seq(W)
    PROVE  /\ NonBlank(s) \in Seq(W) /\ Len(NonBlank(s)) <= Len(s)
           /\ \A i \in 1..Len(NonBlank(s)) : NonBlank(s)[i] # Blank
<1>1. PICK kept \in [0..Len(s) -> Seq(W)] : KeepsWords(s, kept) /\ NonBlank(s) = kept[Len(s)]
  BY NonBlankIsBuilt
<1>2. Len(s) \in Nat /\ \A n \in 1..Len(s) : s[n] \in W
  OBVIOUS
<1> DEFINE Full(v, n) == Len(v) <= n /\ \A i \in 1..Len(v) : v[i] # Blank
           T == {n \in Nat : n <= Len(s) => Full(kept[n], n)}
<1>3. 0 \in T
  BY <1>1 DEF KeepsWords
<1>4. ASSUME NEW n \in Nat, n \in T PROVE n + 1 \in T
  <2> SUFFICES ASSUME n + 1 <= Len(s) PROVE Full(kept[n + 1], n + 1)
    OBVIOUS
  <2>1. n + 1 \in 1..Len(s) /\ (n + 1) - 1 = n /\ kept[n] \in Seq(W) /\ Full(kept[n], n)
    BY <1>2, <1>4
  <2>2. CASE s[n + 1] = Blank
    BY <1>1, <2>1, <2>2 DEF KeepsWords
  <2>3. CASE s[n + 1] # Blank
    <3>1. kept[n + 1] = Append(kept[n], s[n + 1])
      BY <1>1, <2>1, <2>3 DEF KeepsWords
    <3>2. /\ Len(kept[n + 1]) = Len(kept[n]) + 1
          /\ \A i \in 1..Len(kept[n]) : kept[n + 1][i] = kept[n][i]
          /\ kept[n + 1][Len(kept[n]) + 1] = s[n + 1]
      BY <1>2, <2>1, <3>1, AppendProperties
    <3> QED
      BY <2>1, <2>3, <3>2
  <2> QED
    BY <2>2, <2>3
<1>5. Nat \subseteq T
  <2> HIDE DEF T
  <2> QED
    BY <1>3, <1>4, AllNumbers
<1>6. Full(kept[Len(s)], Len(s))
  BY <1>2, <1>5
<1> QED
  BY <1>1, <1>6

\* Lines of which none is blank are all kept.
LEMMA NoBlankIsKept ==
    ASSUME NEW W, NEW s \in Seq(W), \A i \in 1..Len(s) : s[i] # Blank
    PROVE  NonBlank(s) = s
<1>1. PICK kept \in [0..Len(s) -> Seq(W)] : KeepsWords(s, kept) /\ NonBlank(s) = kept[Len(s)]
  BY NonBlankIsBuilt
<1>2. Len(s) \in Nat /\ \A n \in 1..Len(s) : s[n] \in W
  OBVIOUS
<1> DEFINE Same(v, n) == Len(v) = n /\ \A i \in 1..n : v[i] = s[i]
           T == {n \in Nat : n <= Len(s) => Same(kept[n], n)}
<1>3. 0 \in T
  BY <1>1 DEF KeepsWords
<1>4. ASSUME NEW n \in Nat, n \in T PROVE n + 1 \in T
  <2> SUFFICES ASSUME n + 1 <= Len(s) PROVE Same(kept[n + 1], n + 1)
    OBVIOUS
  <2>1. n + 1 \in 1..Len(s) /\ (n + 1) - 1 = n /\ kept[n] \in Seq(W) /\ Same(kept[n], n)
    BY <1>2, <1>4
  <2>2. kept[n + 1] = Append(kept[n], s[n + 1])
    BY <1>1, <2>1 DEF KeepsWords
  <2>3. /\ Len(kept[n + 1]) = n + 1
        /\ \A i \in 1..n : kept[n + 1][i] = kept[n][i]
        /\ kept[n + 1][n + 1] = s[n + 1]
    BY <1>2, <2>1, <2>2, AppendProperties
  <2> QED
    BY <2>1, <2>3
<1>5. Nat \subseteq T
  <2> HIDE DEF T
  <2> QED
    BY <1>3, <1>4, AllNumbers
<1>6. kept[Len(s)] \in Seq(W) /\ Same(kept[Len(s)], Len(s))
  BY <1>2, <1>5
<1> QED
  BY <1>1, <1>6

LEMMA NonBlankTwice == ASSUME NEW W, NEW s \in Seq(W) PROVE NonBlank(NonBlank(s)) = NonBlank(s)
BY NonBlankHasNoBlank, NoBlankIsKept

LEMMA BlankLineIsNone == NonBlank(<<Blank>>) = NonBlank(<<>>)
<1>1. PICK kept \in [0..Len(<<Blank>>) -> Seq(Nat)] :
        KeepsWords(<<Blank>>, kept) /\ NonBlank(<<Blank>>) = kept[Len(<<Blank>>)]
  <2>1. <<Blank>> \in Seq(Nat)
    BY DEF Blank
  <2> QED
    BY <2>1, NonBlankIsBuilt
<1>2. NonBlank(<<Blank>>) = <<>>
  BY <1>1 DEF KeepsWords
<1>3. NonBlank(<<>>) = <<>>
  <2>1. <<>> \in Seq(Nat) /\ \A i \in 1..Len(<<>>) : <<>>[i] # Blank
    OBVIOUS
  <2> QED
    BY <2>1, NoBlankIsKept
<1> QED
  BY <1>2, <1>3

-----------------------------------------------------------------------------
(* Items and patches *)

LEMMA WithKeepsFields ==
    ASSUME NEW item, NEW p
    PROVE  /\ DOMAIN With(item, p) = DOMAIN item
           /\ \A f \in DOMAIN item : With(item, p)[f] = IF f \in DOMAIN p THEN p[f] ELSE item[f]
BY DEF With

\* What a field may hold.
Holds(f) == IF f = "type" THEN Types ELSE IF f = "data" THEN Bodies ELSE Words
Fits(p) == p \in Patches /\ \A f \in DOMAIN p : p[f] \in Holds(f)

\* The patches the editors make.
LEMMA WordFits ==
    ASSUME NEW f \in {"title", "picks", "plan"}, NEW w \in Words
    PROVE  Fits([g \in {f} |-> w]) /\ "type" \notin DOMAIN [g \in {f} |-> w]
<1>1. {f} \in SUBSET Fields
  BY DEF Fields
<1>2. [g \in {f} |-> w] \in [{f} -> Types \cup Bodies \cup Words]
  OBVIOUS
<1>3. [g \in {f} |-> w] \in Patches
  BY <1>1, <1>2 DEF Patches
<1> QED
  BY <1>3 DEF Fits, Holds

LEMMA BodyFits ==
    ASSUME NEW b \in Bodies
    PROVE  Fits([data |-> b]) /\ "type" \notin DOMAIN [data |-> b]
<1>1. {"data"} \in SUBSET Fields
  BY DEF Fields
<1>2. [data |-> b] = [g \in {"data"} |-> b]
  OBVIOUS
<1>3. [data |-> b] \in [{"data"} -> Types \cup Bodies \cup Words]
  BY <1>2
<1>4. [data |-> b] \in Patches
  BY <1>1, <1>3 DEF Patches
<1> QED
  BY <1>4 DEF Fits, Holds

LEMMA SwitchFits ==
    ASSUME NEW to \in Types, NEW b \in Bodies
    PROVE  Fits([type |-> to, data |-> b])
<1>1. {"type", "data"} \in SUBSET Fields
  BY DEF Fields
<1>2. [type |-> to, data |-> b] = [g \in {"type", "data"} |-> IF g = "type" THEN to ELSE b]
  OBVIOUS
<1>3. [type |-> to, data |-> b] \in [{"type", "data"} -> Types \cup Bodies \cup Words]
  BY <1>2
<1>4. [type |-> to, data |-> b] \in Patches
  BY <1>1, <1>3 DEF Patches
<1> QED
  BY <1>4 DEF Fits, Holds

LEMMA NothingFits == Fits(<<>>) /\ "type" \notin DOMAIN <<>>
<1>1. <<>> \in [{} -> Types \cup Bodies \cup Words]
  OBVIOUS
<1>2. {} \in SUBSET Fields
  BY DEF Fields
<1>3. <<>> \in Patches
  BY <1>1, <1>2 DEF Patches
<1> QED
  BY <1>3 DEF Fits

LEMMA FitsFields == ASSUME NEW p, Fits(p) PROVE DOMAIN p \subseteq Fields
BY DEF Fits, Patches

LEMMA PatchedFits ==
    ASSUME NEW item \in Items, NEW p, Fits(p)
    PROVE  With(item, p) \in Items
<1> DEFINE Value(f) == IF f \in DOMAIN p THEN p[f] ELSE item[f]
<1>1. DOMAIN item = Fields
  BY DEF Items, Fields
<1>2. \A f \in Fields : item[f] \in Holds(f)
  BY DEF Items, Fields, Holds
<1>3. \A f \in Fields : Value(f) \in Holds(f)
  BY <1>2 DEF Fits
<1>4. With(item, p) = [f \in Fields |-> Value(f)]
  BY <1>1 DEF With
<1> HIDE DEF Value
<1>5. [f \in Fields |-> Value(f)] = [type |-> Value("type"), data |-> Value("data"), title |-> Value("title"),
                                      picks |-> Value("picks"), plan |-> Value("plan")]
  BY DEF Fields
<1>6. /\ Value("type") \in Types /\ Value("data") \in Bodies
      /\ Value("title") \in Words /\ Value("picks") \in Words /\ Value("plan") \in Words
  BY <1>3 DEF Fields, Holds
<1> QED
  BY <1>4, <1>5, <1>6 DEF Items

\* Everything typed, every patch of words that fit, a patch of the type sent at once and
\* never by the timer, and at most one timer, request or fading badge for each edit.
IsRequest(r) == r = [n |-> r.n, patch |-> r.patch, answer |-> r.answer]
Running == IF timer = NoPatch THEN 0 ELSE 1
SaveTyped ==
    /\ AutosaveTypeOK
    /\ IsFiniteSet(flight) /\ fades + Cardinality(flight) + Running <= edits
    /\ timer # NoPatch => Fits(timer.patch) /\ "type" \notin DOMAIN timer.patch
    /\ \A r \in flight : Fits(r.patch) /\ IsRequest(r)

LEMMA SaveTypedStarts == AutosaveInit => SaveTyped
<1> SUFFICES ASSUME AutosaveInit PROVE SaveTyped
  OBVIOUS
<1>1. PICK t \in Types :
        stored = [type |-> t, data |-> [shape |-> t, lines |-> <<Old, Blank, Old>>],
                  title |-> Old, picks |-> Old, plan |-> Old]
  BY DEF AutosaveInit
<1>2. Old \in Words /\ Blank \in Words
  BY AutosaveConstants DEF Old, Blank, Words
<1>3. <<Old, Blank, Old>> \in [1..3 -> Words]
  BY <1>2
<1>4. [shape |-> t, lines |-> <<Old, Blank, Old>>] \in Bodies
  <2>1. <<Old, Blank, Old>> \in UNION {[1..n -> Words] : n \in 0..3}
    BY <1>3
  <2> QED
    BY <2>1 DEF Bodies
<1>5. stored \in Items
  BY <1>1, <1>2, <1>4 DEF Items
<1>6. /\ shown = stored /\ typed = stored /\ gone = FALSE /\ storedBy = [f \in Fields |-> 0]
      /\ timer = NoPatch /\ flight = {} /\ badge = "idle" /\ fades = 0 /\ edits = 0 /\ excused = {}
  BY DEF AutosaveInit
<1>7. AutosaveTypeOK
  <2>1. storedBy \in [Fields -> 0..MaxEdits] /\ 0 \in 0..MaxEdits
    BY <1>6, AutosaveConstants
  <2>2. \A r \in flight : FALSE
    BY <1>6
  <2> QED
    BY <1>5, <1>6, <2>1, <2>2 DEF AutosaveTypeOK
<1>8. IsFiniteSet(flight) /\ Cardinality(flight) = 0
  BY <1>6, FS_EmptySet
<1> QED
  BY <1>6, <1>7, <1>8 DEF SaveTyped, Running

LEMMA OneMore ==
    ASSUME NEW S, IsFiniteSet(S), NEW x
    PROVE  /\ IsFiniteSet(S \cup {x}) /\ Cardinality(S) \in Nat
           /\ Cardinality(S \cup {x}) \in Nat /\ Cardinality(S \cup {x}) <= Cardinality(S) + 1
<1>1. Cardinality(S) \in Nat
  BY FS_CardinalityType
<1>2. IsFiniteSet(S \cup {x}) /\ Cardinality(S \cup {x}) = IF x \in S THEN Cardinality(S) ELSE Cardinality(S) + 1
  BY FS_AddElement
<1> QED
  BY <1>1, <1>2

LEMMA OneLess ==
    ASSUME NEW S, IsFiniteSet(S), NEW x \in S
    PROVE  /\ IsFiniteSet(S \ {x}) /\ Cardinality(S) \in Nat
           /\ Cardinality(S \ {x}) \in Nat /\ Cardinality(S \ {x}) + 1 = Cardinality(S)
<1>1. Cardinality(S) \in Nat
  BY FS_CardinalityType
<1>2. IsFiniteSet(S \ {x}) /\ Cardinality(S \ {x}) = IF x \in S THEN Cardinality(S) - 1 ELSE Cardinality(S)
  BY FS_RemoveElement
<1>3. Cardinality(S \ {x}) \in Nat
  BY <1>2, FS_CardinalityType
<1> QED
  BY <1>1, <1>2, <1>3

LEMMA PersistKeepsTypes ==
    ASSUME SaveTyped, NEW p, Fits(p), "type" \notin DOMAIN p, Persist(p), shown' \in Items
    PROVE  SaveTyped'
<1>1. /\ edits < MaxEdits /\ edits' = edits + 1 /\ timer' = [n |-> edits + 1, patch |-> p]
      /\ typed' = With(typed, p) /\ badge' = "saving"
      /\ excused' = (excused \cup Pending) \ DOMAIN p
      /\ UNCHANGED <<stored, gone, storedBy, flight, fades>>
  BY DEF Persist
<1>2. /\ edits \in 0..MaxEdits /\ fades \in 0..MaxEdits /\ MaxEdits \in Nat
      /\ Cardinality(flight) \in Nat /\ fades + Cardinality(flight) <= edits
  <2>1. Cardinality(flight) \in Nat
    BY FS_CardinalityType DEF SaveTyped
  <2> QED
    BY <2>1, AutosaveConstants DEF SaveTyped, AutosaveTypeOK, Running
<1>3. edits' \in 0..MaxEdits /\ 1..edits \subseteq 1..edits' /\ edits' \in 1..edits'
  BY <1>1, <1>2
<1>4. typed' \in Items
  BY <1>1, PatchedFits DEF SaveTyped, AutosaveTypeOK
<1>5. timer'.n = edits' /\ timer'.patch = p
  BY <1>1
<1>6. Running' \in {0, 1}
  BY DEF Running
<1>7. excused' \subseteq Fields
  BY <1>1 DEF SaveTyped, AutosaveTypeOK, Pending
<1>8. AutosaveTypeOK'
  BY <1>1, <1>2, <1>3, <1>4, <1>5, <1>7, FitsFields DEF SaveTyped, AutosaveTypeOK
<1> QED
  BY <1>1, <1>2, <1>5, <1>6, <1>8 DEF SaveTyped

LEMMA BackgroundKeepsTypes == ASSUME SaveTyped, Background PROVE SaveTyped'
<1>0. /\ edits \in 0..MaxEdits /\ fades \in 0..MaxEdits /\ MaxEdits \in Nat /\ IsFiniteSet(flight)
      /\ Cardinality(flight) \in Nat /\ fades + Cardinality(flight) + Running <= edits
  BY FS_CardinalityType, AutosaveConstants DEF SaveTyped, AutosaveTypeOK
<1>1. ASSUME TimerFires PROVE SaveTyped'
  <2> DEFINE q == Sent(timer.n, timer.patch)
  <2>1. q.n = timer.n /\ q.patch = timer.patch /\ q.answer = Unanswered /\ IsRequest(q)
    BY DEF Sent, IsRequest
  <2>2. /\ timer # NoPatch /\ flight' = flight \cup {q} /\ timer' = NoPatch
        /\ UNCHANGED <<stored, gone, storedBy, shown, typed, badge, fades, edits, excused>>
    BY <1>1 DEF TimerFires
  <2> HIDE DEF q
  <2>3. timer.n \in 1..edits /\ DOMAIN timer.patch \subseteq Fields /\ Fits(timer.patch)
    BY <2>2 DEF SaveTyped, AutosaveTypeOK
  <2>4. AutosaveTypeOK'
    BY <2>1, <2>2, <2>3 DEF SaveTyped, AutosaveTypeOK
  <2>5. IsFiniteSet(flight') /\ Cardinality(flight') \in Nat /\ Cardinality(flight') <= Cardinality(flight) + 1
    BY <1>0, <2>2, OneMore
  <2>6. Running = 1 /\ Running' = 0
    BY <2>2 DEF Running
  <2> QED
    BY <1>0, <2>1, <2>2, <2>3, <2>4, <2>5, <2>6 DEF SaveTyped
<1>2. ASSUME NEW r \in flight, SaveArrives(r) PROVE SaveTyped'
  <2> DEFINE now == With(stored, r.patch)
             q == [r EXCEPT !.answer = now]
  <2>1. now \in Items
    BY PatchedFits DEF SaveTyped, AutosaveTypeOK
  <2>2. /\ q.n = r.n /\ q.patch = r.patch
        /\ q.answer = now /\ IsRequest(q)
    <3>1. r = [n |-> r.n, patch |-> r.patch, answer |-> r.answer]
      BY DEF SaveTyped, IsRequest
    <3>2. q = [n |-> r.n, patch |-> r.patch, answer |-> now]
      BY <3>1
    <3> HIDE DEF q, now
    <3> QED
      BY <3>2 DEF IsRequest
  <2>3. /\ stored' = now /\ flight' = (flight \ {r}) \cup {q}
        /\ storedBy' = [f \in Fields |-> IF f \in DOMAIN r.patch THEN r.n ELSE storedBy[f]]
        /\ excused' = excused \cup {f \in DOMAIN r.patch : r.n < storedBy[f]}
        /\ UNCHANGED <<gone, shown, typed, timer, badge, fades, edits>>
    BY <1>2 DEF SaveArrives
  <2> HIDE DEF now, q
  <2>4. r.n \in 1..edits /\ DOMAIN r.patch \subseteq Fields /\ Fits(r.patch)
    BY DEF SaveTyped, AutosaveTypeOK
  <2>5. storedBy' \in [Fields -> 0..MaxEdits]
    BY <1>0, <2>3, <2>4 DEF SaveTyped, AutosaveTypeOK
  <2>6. \A o \in flight' : o \in flight \/ o = q
    BY <2>3
  <2>7. \A o \in flight' : /\ o.n \in 1..edits' /\ DOMAIN o.patch \subseteq Fields
                           /\ o.answer \in Items \cup {Unanswered}
    BY <2>1, <2>2, <2>3, <2>4, <2>6 DEF SaveTyped, AutosaveTypeOK
  <2>8. AutosaveTypeOK'
    BY <2>1, <2>3, <2>4, <2>5, <2>7 DEF SaveTyped, AutosaveTypeOK
  <2>9. /\ IsFiniteSet(flight \ {r}) /\ Cardinality(flight \ {r}) \in Nat
        /\ Cardinality(flight \ {r}) + 1 = Cardinality(flight)
    BY <1>0, OneLess
  <2>10. /\ IsFiniteSet(flight') /\ Cardinality(flight') \in Nat
         /\ Cardinality(flight') <= Cardinality(flight \ {r}) + 1
    BY <2>3, <2>9, OneMore
  <2>11. Running' = Running /\ Running \in {0, 1}
    BY <2>3 DEF Running
  <2>12. \A o \in flight' : Fits(o.patch) /\ IsRequest(o)
    BY <2>2, <2>4, <2>6 DEF SaveTyped
  <2> QED
    BY <1>0, <2>3, <2>8, <2>9, <2>10, <2>11, <2>12 DEF SaveTyped
<1>3. ASSUME NEW r \in flight, SaveAnswered(r) \/ SaveFails(r) PROVE SaveTyped'
  <2>1. /\ flight' = flight \ {r} /\ fades' \in {fades, fades + 1} /\ shown' \in {shown, r.answer}
        /\ badge' \in {"idle", "saved"}
        /\ excused' \subseteq excused \cup DOMAIN r.patch
        /\ UNCHANGED <<stored, gone, storedBy, typed, timer, edits>>
    BY <1>3 DEF SaveAnswered, SaveFails
  <2>2. shown' \in Items
    BY <1>3 DEF SaveAnswered, SaveFails, SaveTyped, AutosaveTypeOK
  <2>3. /\ IsFiniteSet(flight \ {r}) /\ Cardinality(flight \ {r}) \in Nat
        /\ Cardinality(flight \ {r}) + 1 = Cardinality(flight)
    BY <1>0, OneLess
  <2>4. Running' = Running /\ Running \in {0, 1}
    BY <2>1 DEF Running
  <2>5. fades' \in 0..MaxEdits /\ fades' + Cardinality(flight') + Running' <= edits
    BY <1>0, <2>1, <2>3, <2>4
  <2>6. excused' \subseteq Fields
    BY <2>1 DEF SaveTyped, AutosaveTypeOK
  <2>7. AutosaveTypeOK'
    BY <2>1, <2>2, <2>5, <2>6 DEF SaveTyped, AutosaveTypeOK
  <2> QED
    BY <2>1, <2>3, <2>5, <2>7 DEF SaveTyped
<1>4. ASSUME BadgeFades PROVE SaveTyped'
  <2>1. /\ fades > 0 /\ fades' = fades - 1 /\ badge' = "idle"
        /\ UNCHANGED <<stored, gone, storedBy, shown, typed, timer, flight, edits, excused>>
    BY <1>4 DEF BadgeFades
  <2>2. Running' = Running /\ Running \in {0, 1} /\ fades' \in 0..MaxEdits
    BY <1>0, <2>1 DEF Running
  <2>3. AutosaveTypeOK'
    BY <2>1, <2>2 DEF SaveTyped, AutosaveTypeOK
  <2> QED
    BY <1>0, <2>1, <2>2, <2>3 DEF SaveTyped
<1> QED
  BY <1>1, <1>2, <1>3, <1>4 DEF Background, Answers

LEMMA DropKeepsTypes ==
    ASSUME SaveTyped, DropPending,
           UNCHANGED <<stored, gone, storedBy, shown, typed, flight, badge, fades, edits>>
    PROVE  SaveTyped'
<1>1. timer' = NoPatch /\ excused' = excused \cup Pending
  BY DEF DropPending
<1>2. excused' \subseteq Fields
  BY <1>1 DEF Pending, SaveTyped, AutosaveTypeOK
<1>3. AutosaveTypeOK'
  BY <1>1, <1>2 DEF SaveTyped, AutosaveTypeOK
<1>4. Cardinality(flight) \in Nat /\ fades \in Nat /\ edits \in Nat
  BY FS_CardinalityType, AutosaveConstants DEF SaveTyped, AutosaveTypeOK
<1>5. Running' = 0 /\ Running \in {0, 1}
  BY <1>1 DEF Running
<1> QED
  BY <1>1, <1>3, <1>4, <1>5 DEF SaveTyped

LEMMA StutterKeepsTypes ==
    ASSUME SaveTyped, gone' \in BOOLEAN, shown' \in Items, badge' \in {"idle", "saving", "saved"},
           UNCHANGED <<stored, storedBy, typed, timer, flight, fades, edits, excused>>
    PROVE  SaveTyped'
<1>1. Running' = Running
  BY DEF Running
<1> QED
  BY <1>1 DEF SaveTyped, AutosaveTypeOK

\* The lines of an item: a body holds at most three, and what is kept of it no more.
Lines == UNION {[1..n -> Words] : n \in 0..3}

LEMMA LinesAreShort == ASSUME NEW s PROVE s \in Lines <=> s \in Seq(Words) /\ Len(s) <= 3
<1>1. ASSUME s \in Lines PROVE s \in Seq(Words) /\ Len(s) <= 3
  <2>1. PICK n \in 0..3 : s \in [1..n -> Words]
    BY <1>1 DEF Lines
  <2> QED
    BY <2>1
<1>2. ASSUME s \in Seq(Words), Len(s) <= 3 PROVE s \in Lines
  <2>1. Len(s) \in Nat /\ s \in [1..Len(s) -> Words]
    BY <1>2, LenProperties
  <2>2. Len(s) \in 0..3
    BY <1>2, <2>1
  <2> QED
    BY <2>1, <2>2 DEF Lines
<1> QED
  BY <1>1, <1>2

LEMMA TextIsLines == ASSUME NEW item \in Items PROVE ItemTextLines(item) \in Lines
<1>1. item.data.lines \in Lines
  BY DEF Items, Bodies, Lines
<1>2. item.data.lines \in Seq(Words) /\ Len(item.data.lines) <= 3
  BY <1>1, LinesAreShort
<1>3. /\ NonBlank(item.data.lines) \in Seq(Words)
      /\ Len(NonBlank(item.data.lines)) <= Len(item.data.lines)
  BY <1>2, NonBlankHasNoBlank
<1>4. NonBlank(item.data.lines) \in Lines
  <2>1. Len(NonBlank(item.data.lines)) <= 3
    BY <1>2, <1>3
  <2> QED
    BY <1>3, <2>1, LinesAreShort
<1>5. <<>> \in Lines
  <2>1. <<>> \in Seq(Words) /\ Len(<<>>) <= 3
    OBVIOUS
  <2> QED
    BY <2>1, LinesAreShort
<1> QED
  BY <1>1, <1>4, <1>5 DEF ItemTextLines

LEMMA ConvertedIsBody ==
    ASSUME NEW item \in Items, NEW to \in Types
    PROVE  ConvertItemData(item, to) \in Bodies
<1> DEFINE lines == ItemTextLines(item)
           out == IF to = "checklist" THEN NonBlank(lines)
                  ELSE IF to = "document" /\ lines = <<>> THEN <<Blank>> ELSE lines
<1>1. lines \in Lines
  BY TextIsLines
<1>2. lines \in Seq(Words) /\ Len(lines) <= 3
  BY <1>1, LinesAreShort
<1>3. ConvertItemData(item, to) = [shape |-> to, lines |-> out]
  BY DEF ConvertItemData
<1> HIDE DEF lines
<1>4. NonBlank(lines) \in Lines
  <2>1. NonBlank(lines) \in Seq(Words) /\ Len(NonBlank(lines)) <= Len(lines) /\ Len(lines) \in Nat
    BY <1>2, NonBlankHasNoBlank
  <2>2. Len(NonBlank(lines)) <= 3
    BY <1>2, <2>1
  <2> QED
    BY <2>1, <2>2, LinesAreShort
<1>5. <<Blank>> \in Lines
  <2>1. Blank \in Words
    BY AutosaveConstants DEF Blank, Words, Old
  <2>2. <<Blank>> \in Seq(Words) /\ Len(<<Blank>>) <= 3
    BY <2>1
  <2> QED
    BY <2>2, LinesAreShort
<1>6. out \in Lines
  BY <1>1, <1>4, <1>5
<1> HIDE DEF out
<1> QED
  BY <1>3, <1>6 DEF Bodies, Lines

\* item/[id].tsx, convertItemData: an item of at most three lines that is converted to
\* another type and read back as that type has the words it had.  What the copy of the
\* item that is converted lacks, a body still being typed, is not carried.
THEOREM ConversionKeepsWords ==
    ASSUME NEW item \in Items, NEW to \in Types
    PROVE  NonBlank(ItemTextLines(With(item, [type |-> to, data |-> ConvertItemData(item, to)])))
             = NonBlank(ItemTextLines(item))
<1> DEFINE lines == ItemTextLines(item)
           out == IF to = "checklist" THEN NonBlank(lines)
                  ELSE IF to = "document" /\ lines = <<>> THEN <<Blank>> ELSE lines
           p == [type |-> to, data |-> ConvertItemData(item, to)]
           next == With(item, p)
<1>1. lines \in Seq(Words)
  BY TextIsLines, LinesAreShort
<1>2. ConvertItemData(item, to) = [shape |-> to, lines |-> out]
  BY DEF ConvertItemData
<1>3. DOMAIN p = {"type", "data"} /\ p["type"] = to /\ p["data"] = ConvertItemData(item, to)
  OBVIOUS
<1>4. DOMAIN item = Fields
  BY DEF Items, Fields
<1> HIDE DEF p
<1>5. next["type"] = to /\ next["data"] = ConvertItemData(item, to)
  BY <1>3, <1>4, WithKeepsFields DEF Fields
<1>6. next.type = to /\ next.data.shape = to /\ next.data.lines = out
  BY <1>2, <1>5
<1>7. ItemTextLines(next) = IF to = "card" THEN out ELSE NonBlank(out)
  BY <1>6 DEF ItemTextLines
<1> HIDE DEF next, lines
<1>8. NonBlank(lines) \in Seq(Words) /\ NonBlank(NonBlank(lines)) = NonBlank(lines)
  BY <1>1, NonBlankHasNoBlank, NonBlankTwice
<1>9. NonBlank(out) = NonBlank(lines)
  BY <1>8, BlankLineIsNone
<1>10. NonBlank(NonBlank(out)) = NonBlank(lines)
  BY <1>8, <1>9
<1>11. NonBlank(ItemTextLines(next)) = NonBlank(lines)
  BY <1>7, <1>9, <1>10
<1> QED
  BY <1>11 DEF next, lines, p

LEMMA SwitchKeepsTypes == ASSUME SaveTyped, ChangeType PROVE SaveTyped'
<1>1. PICK to \in OtherTypes(shown) :
        LET p == [type |-> to, data |-> ConvertItemData(shown, to)] IN
        /\ flight' = flight \cup {Sent(Word, p)}
        /\ typed' = With(typed, p)
  BY DEF ChangeType
<1> DEFINE p == [type |-> to, data |-> ConvertItemData(shown, to)]
           q == Sent(Word, p)
<1>2. Fits(p)
  <2>1. to \in Types /\ shown \in Items
    BY DEF OtherTypes, SaveTyped, AutosaveTypeOK
  <2>2. ConvertItemData(shown, to) \in Bodies
    BY <2>1, ConvertedIsBody
  <2> QED
    BY <2>1, <2>2, SwitchFits
<1>3. q.n = edits + 1 /\ q.patch = p /\ q.answer = Unanswered /\ IsRequest(q)
  BY DEF Sent, Word, IsRequest
<1>4. flight' = flight \cup {q} /\ typed' = With(typed, p)
  BY <1>1
<1> HIDE DEF p, q
<1>5. /\ edits < MaxEdits /\ edits' = edits + 1 /\ badge' = "saving"
      /\ excused' = (excused \ {"type", "data"}) \cup (Pending \cap {"data"})
      /\ UNCHANGED <<stored, gone, storedBy, shown, timer, fades>>
  BY DEF ChangeType, Word
<1>6. /\ edits \in 0..MaxEdits /\ fades \in 0..MaxEdits /\ MaxEdits \in Nat /\ IsFiniteSet(flight)
      /\ Cardinality(flight) \in Nat /\ fades + Cardinality(flight) + Running <= edits
  BY FS_CardinalityType, AutosaveConstants DEF SaveTyped, AutosaveTypeOK
<1>7. edits' \in 0..MaxEdits /\ 1..edits \subseteq 1..edits' /\ edits + 1 \in 1..edits'
  BY <1>5, <1>6
<1>8. typed' \in Items
  BY <1>2, <1>4, PatchedFits DEF SaveTyped, AutosaveTypeOK
<1>9. excused' \subseteq Fields
  BY <1>5 DEF SaveTyped, AutosaveTypeOK, Fields
<1>10. \A r \in flight' : /\ r.n \in 1..edits' /\ DOMAIN r.patch \subseteq Fields
                          /\ r.answer \in Items \cup {Unanswered}
  BY <1>2, <1>3, <1>4, <1>7, FitsFields DEF SaveTyped, AutosaveTypeOK
<1>11. AutosaveTypeOK'
  BY <1>5, <1>7, <1>8, <1>9, <1>10 DEF SaveTyped, AutosaveTypeOK
<1>12. IsFiniteSet(flight') /\ Cardinality(flight') \in Nat /\ Cardinality(flight') <= Cardinality(flight) + 1
  BY <1>4, <1>6, OneMore
<1>13. Running' = Running /\ Running \in {0, 1}
  BY <1>5 DEF Running
<1>14. \A r \in flight' : Fits(r.patch) /\ IsRequest(r)
  BY <1>2, <1>3, <1>4 DEF SaveTyped
<1> QED
  BY <1>5, <1>6, <1>11, <1>12, <1>13, <1>14 DEF SaveTyped

\* An edit arms the timer with a patch that fits, and never with the type.
LEMMA EditIsPatch ==
    ASSUME SaveTyped, EditTitle \/ EditPlan \/ Pick \/ EditBody
    PROVE  \E p \in Patches : Fits(p) /\ "type" \notin DOMAIN p /\ Persist(p) /\ shown' \in Items
<1>1. shown \in Items /\ shown.type \in Types
  BY DEF SaveTyped, AutosaveTypeOK, Items
<1>2. edits < MaxEdits /\ edits \in Nat
  BY AutosaveConstants DEF EditTitle, EditPlan, Pick, EditBody, Persist, SaveTyped, AutosaveTypeOK
<1>3. Word \in Words
  BY <1>2, AutosaveConstants DEF Word, Words, Old
<1>4. ASSUME NEW p, Fits(p), "type" \notin DOMAIN p, Persist(p), shown' \in Items
      PROVE  \E o \in Patches : Fits(o) /\ "type" \notin DOMAIN o /\ Persist(o) /\ shown' \in Items
  BY <1>4 DEF Fits
<1>5. CASE EditTitle
  <2>1. [title |-> Word] = [g \in {"title"} |-> Word]
    OBVIOUS
  <2>2. Persist([title |-> Word]) /\ shown' = shown
    BY <1>5 DEF EditTitle
  <2>3. Fits([title |-> Word]) /\ "type" \notin DOMAIN [title |-> Word]
    BY <1>3, <2>1, WordFits
  <2> QED
    BY <1>1, <1>4, <2>2, <2>3
<1>6. CASE EditPlan
  <2>1. [plan |-> Word] = [g \in {"plan"} |-> Word]
    OBVIOUS
  <2>2. Persist([plan |-> Word]) /\ shown' = shown
    BY <1>6 DEF EditPlan
  <2>3. Fits([plan |-> Word]) /\ "type" \notin DOMAIN [plan |-> Word]
    BY <1>3, <2>1, WordFits
  <2> QED
    BY <1>1, <1>4, <2>2, <2>3
<1>7. CASE Pick
  <2>1. [picks |-> Word] = [g \in {"picks"} |-> Word]
    OBVIOUS
  <2>2. Persist([picks |-> Word]) /\ shown' \in Items
    BY <1>1, <1>3, <1>7 DEF Pick, Items
  <2>3. Fits([picks |-> Word]) /\ "type" \notin DOMAIN [picks |-> Word]
    BY <1>3, <2>1, WordFits
  <2> QED
    BY <1>4, <2>2, <2>3
<1>8. CASE EditBody
  <2>1. PICK lines \in {<<>>, <<Word>>} :
          /\ Persist([data |-> [shape |-> shown.type, lines |-> lines]])
          /\ shown' \in {shown, [shown EXCEPT !.data = [shape |-> shown.type, lines |-> lines]]}
    BY <1>8 DEF EditBody
  <2>2. lines \in Lines
    <3>1. <<>> \in Seq(Words) /\ Len(<<>>) <= 3
      OBVIOUS
    <3>2. <<Word>> \in Seq(Words) /\ Len(<<Word>>) <= 3
      BY <1>3
    <3>3. lines \in Seq(Words) /\ Len(lines) <= 3
      BY <3>1, <3>2
    <3> QED
      BY <3>3, LinesAreShort
  <2> DEFINE b == [shape |-> shown.type, lines |-> lines]
  <2>3. b \in Bodies
    BY <1>1, <2>2 DEF Bodies, Lines
  <2>4. Persist([data |-> b])
    BY <2>1
  <2>5. shown' \in Items
    BY <1>1, <2>1, <2>3 DEF Items
  <2> HIDE DEF b
  <2>6. Fits([data |-> b]) /\ "type" \notin DOMAIN [data |-> b]
    BY <2>3, BodyFits
  <2> QED
    BY <1>4, <2>4, <2>5, <2>6
<1> QED
  BY <1>5, <1>6, <1>7, <1>8

LEMMA EditorStepTyped ==
    ASSUME SaveTyped, EditorTypeOK, [EditorNext]_<<saving, screen>>
    PROVE  SaveTyped' /\ EditorTypeOK'
<1> USE DEF Phases
<1>1. ASSUME Boot \/ LoadFails \/ LoadExtras PROVE SaveTyped' /\ EditorTypeOK'
  <2>1. UNCHANGED saving /\ UNCHANGED <<locked, deleting>> /\ phase' \in Phases
    BY <1>1 DEF Boot, LoadFails, LoadExtras, At
  <2>2. SaveTyped'
    BY <2>1, StutterKeepsTypes DEF saving, SaveTyped, AutosaveTypeOK
  <2> QED
    BY <2>1, <2>2 DEF EditorTypeOK, SaveTyped
<1>2. ASSUME LoadItem PROVE SaveTyped' /\ EditorTypeOK'
  <2>1. /\ UNCHANGED <<stored, gone, storedBy, typed, timer, flight, badge, fades, edits, excused>>
        /\ UNCHANGED <<locked, deleting>> /\ phase' \in Phases /\ shown' = stored
    BY <1>2 DEF LoadItem, At
  <2>2. SaveTyped'
    BY <2>1, StutterKeepsTypes DEF SaveTyped, AutosaveTypeOK
  <2> QED
    BY <2>1, <2>2 DEF EditorTypeOK, SaveTyped
<1>3. ASSUME LockAnswered \/ Delete \/ DeleteFails PROVE SaveTyped' /\ EditorTypeOK'
  <2>1. UNCHANGED saving /\ phase' \in Phases /\ locked' \in BOOLEAN /\ deleting' \in BOOLEAN
    BY <1>3 DEF LockAnswered, Delete, DeleteFails, At, EditorTypeOK
  <2>2. SaveTyped'
    BY <2>1, StutterKeepsTypes DEF saving, SaveTyped, AutosaveTypeOK
  <2> QED
    BY <2>1, <2>2 DEF EditorTypeOK, SaveTyped
<1>4. ASSUME DeleteArrives PROVE SaveTyped' /\ EditorTypeOK'
  <2>1. /\ UNCHANGED <<stored, storedBy, shown, typed, timer, flight, badge, fades, edits, excused>>
        /\ UNCHANGED <<phase, locked, deleting>> /\ gone' = TRUE
    BY <1>4 DEF DeleteArrives, screen
  <2>2. SaveTyped'
    BY <2>1, StutterKeepsTypes DEF SaveTyped, AutosaveTypeOK
  <2> QED
    BY <2>1, <2>2 DEF EditorTypeOK, SaveTyped
<1>5. ASSUME NEW p, Fits(p), "type" \notin DOMAIN p, Persist(p),
             shown' \in Items, UNCHANGED screen
      PROVE  SaveTyped' /\ EditorTypeOK'
  <2>1. SaveTyped'
    BY <1>5, PersistKeepsTypes
  <2> QED
    BY <1>5, <2>1 DEF EditorTypeOK, SaveTyped, screen
<1>7. ASSUME EditTitle \/ EditPlan \/ Pick \/ EditBody PROVE SaveTyped' /\ EditorTypeOK'
  <2>1. PICK p \in Patches : Fits(p) /\ "type" \notin DOMAIN p /\ Persist(p) /\ shown' \in Items
    BY <1>7, EditIsPatch
  <2>2. UNCHANGED screen
    BY <1>7 DEF EditTitle, EditPlan, Pick, EditBody
  <2> QED
    BY <1>5, <2>1, <2>2
<1>8. ASSUME ChangeType PROVE SaveTyped' /\ EditorTypeOK'
  <2>1. SaveTyped' /\ UNCHANGED screen
    BY <1>8, SwitchKeepsTypes DEF ChangeType
  <2> QED
    BY <2>1 DEF EditorTypeOK, SaveTyped, screen
<1>9. ASSUME DeleteAnswered \/ Leave PROVE SaveTyped' /\ EditorTypeOK'
  <2>1. /\ DropPending /\ UNCHANGED <<stored, gone, storedBy, shown, typed, flight, badge, fades, edits>>
        /\ phase' \in Phases /\ locked' = locked /\ deleting' \in BOOLEAN
    BY <1>9 DEF DeleteAnswered, Leave, Unmount, EditorTypeOK
  <2>2. SaveTyped'
    BY <2>1, DropKeepsTypes
  <2> QED
    BY <2>1, <2>2 DEF EditorTypeOK, SaveTyped
<1>10. ASSUME Background, UNCHANGED screen PROVE SaveTyped' /\ EditorTypeOK'
  <2>1. SaveTyped'
    BY <1>10, BackgroundKeepsTypes
  <2> QED
    BY <1>10, <2>1 DEF EditorTypeOK, SaveTyped, screen
<1>11. ASSUME UNCHANGED <<saving, screen>> PROVE SaveTyped' /\ EditorTypeOK'
  <2>1. SaveTyped'
    BY <1>11, StutterKeepsTypes DEF saving, SaveTyped, AutosaveTypeOK
  <2> QED
    BY <1>11, <2>1 DEF EditorTypeOK, SaveTyped, screen
<1> QED
  BY <1>1, <1>2, <1>3, <1>4, <1>7, <1>8, <1>9, <1>10, <1>11 DEF EditorNext

LEMMA EditorTyped == EditorSpec => [](SaveTyped /\ EditorTypeOK)
<1>1. AutosaveInit /\ EditorInit => SaveTyped /\ EditorTypeOK
  BY SaveTypedStarts DEF EditorInit, EditorTypeOK, Phases, SaveTyped
<1> QED
  BY <1>1, EditorStepTyped, PTL DEF EditorSpec

LEMMA PanelEditIsPatch ==
    ASSUME SaveTyped, EditPanel
    PROVE  \E p \in Patches : Fits(p) /\ "type" \notin DOMAIN p /\ Persist(p) /\ shown' \in Items
<1>1. shown' \in Items
  BY DEF EditPanel, SaveTyped, AutosaveTypeOK
<1>2. edits < MaxEdits /\ edits \in Nat
  BY AutosaveConstants DEF EditPanel, Persist, SaveTyped, AutosaveTypeOK
<1>3. Word \in Words
  BY <1>2, AutosaveConstants DEF Word, Words, Old
<1>4. ASSUME NEW p, Fits(p), "type" \notin DOMAIN p, Persist(p)
      PROVE  \E o \in Patches : Fits(o) /\ "type" \notin DOMAIN o /\ Persist(o) /\ shown' \in Items
  BY <1>1, <1>4 DEF Fits
<1>5. ASSUME NEW f \in {"title", "picks", "plan"}, Persist([g \in {f} |-> Word])
      PROVE  \E o \in Patches : Fits(o) /\ "type" \notin DOMAIN o /\ Persist(o) /\ shown' \in Items
  <2>1. Fits([g \in {f} |-> Word]) /\ "type" \notin DOMAIN [g \in {f} |-> Word]
    BY <1>3, WordFits
  <2> QED
    BY <1>4, <1>5, <2>1
<1>6. ASSUME Persist([data |-> [shape |-> "card", lines |-> <<Word>>]])
      PROVE  \E o \in Patches : Fits(o) /\ "type" \notin DOMAIN o /\ Persist(o) /\ shown' \in Items
  <2> DEFINE b == [shape |-> "card", lines |-> <<Word>>]
  <2>1. <<Word>> \in Lines
    <3>1. <<Word>> \in Seq(Words) /\ Len(<<Word>>) <= 3
      BY <1>3
    <3> QED
      BY <3>1, LinesAreShort
  <2>2. b \in Bodies
    BY <2>1 DEF Bodies, Lines, Types
  <2>3. Persist([data |-> b])
    BY <1>6
  <2> HIDE DEF b
  <2>4. Fits([data |-> b]) /\ "type" \notin DOMAIN [data |-> b]
    BY <2>2, BodyFits
  <2> QED
    BY <1>4, <2>3, <2>4
<1>7. ASSUME Persist(<<>>)
      PROVE  \E o \in Patches : Fits(o) /\ "type" \notin DOMAIN o /\ Persist(o) /\ shown' \in Items
  BY <1>4, <1>7, NothingFits
<1> QED
  BY <1>5, <1>6, <1>7 DEF EditPanel

LEMMA DialogStepTyped ==
    ASSUME SaveTyped, DialogTypeOK, [DialogNext]_<<saving, dialog>>
    PROVE  SaveTyped' /\ DialogTypeOK'
<1> USE DEF Panels
<1>1. ASSUME OpenPanel PROVE SaveTyped' /\ DialogTypeOK'
  <2>1. /\ UNCHANGED <<stored, gone, storedBy, shown, typed, timer, flight, fades, edits, excused>>
        /\ UNCHANGED <<held, creating>> /\ badge' = "idle" /\ panel' \in Panels
        /\ opens < MaxOpens /\ opens' = opens + 1
    BY <1>1 DEF OpenPanel
  <2>2. opens' \in 0..MaxOpens
    BY <2>1, DialogConstants DEF DialogTypeOK
  <2>3. SaveTyped'
    BY <2>1, StutterKeepsTypes DEF SaveTyped, AutosaveTypeOK
  <2> QED
    BY <2>1, <2>2, <2>3 DEF DialogTypeOK, SaveTyped
<1>2. ASSUME ClosePanel PROVE SaveTyped' /\ DialogTypeOK'
  <2>1. SaveTyped'
    BY <1>2, DropKeepsTypes DEF ClosePanel
  <2> QED
    BY <1>2, <2>1 DEF ClosePanel, DialogTypeOK, SaveTyped
<1>3. ASSUME LockSeen \/ Submit \/ Created \/ CreateFails PROVE SaveTyped' /\ DialogTypeOK'
  <2>1. /\ UNCHANGED saving /\ opens' = opens
        /\ panel' \in Panels /\ held' \in BOOLEAN /\ creating' \in BOOLEAN
    BY <1>3 DEF LockSeen, Submit, Created, CreateFails, DialogTypeOK
  <2>2. SaveTyped'
    BY <2>1, StutterKeepsTypes DEF saving, SaveTyped, AutosaveTypeOK
  <2> QED
    BY <2>1, <2>2 DEF DialogTypeOK, SaveTyped
<1>4. ASSUME EditPanel PROVE SaveTyped' /\ DialogTypeOK'
  <2>1. PICK p \in Patches : Fits(p) /\ "type" \notin DOMAIN p /\ Persist(p) /\ shown' \in Items
    BY <1>4, PanelEditIsPatch
  <2>2. SaveTyped'
    BY <2>1, PersistKeepsTypes
  <2>3. UNCHANGED dialog
    BY <1>4 DEF EditPanel
  <2> QED
    BY <2>2, <2>3 DEF dialog, DialogTypeOK, SaveTyped
<1>5. ASSUME Background, UNCHANGED dialog PROVE SaveTyped' /\ DialogTypeOK'
  <2>1. SaveTyped'
    BY <1>5, BackgroundKeepsTypes
  <2> QED
    BY <1>5, <2>1 DEF DialogTypeOK, SaveTyped, dialog
<1>6. ASSUME UNCHANGED <<saving, dialog>> PROVE SaveTyped' /\ DialogTypeOK'
  <2>1. SaveTyped'
    BY <1>6, StutterKeepsTypes DEF saving, SaveTyped, AutosaveTypeOK
  <2> QED
    BY <1>6, <2>1 DEF DialogTypeOK, SaveTyped, dialog
<1> QED
  BY <1>1, <1>2, <1>3, <1>4, <1>5, <1>6 DEF DialogNext

LEMMA DialogTyped == DialogSpec => [](SaveTyped /\ DialogTypeOK)
<1>1. AutosaveInit /\ DialogInit => SaveTyped /\ DialogTypeOK
  <2> SUFFICES ASSUME AutosaveInit, DialogInit PROVE SaveTyped /\ DialogTypeOK
    OBVIOUS
  <2>1. SaveTyped
    BY SaveTypedStarts
  <2>2. panel = "closed" /\ opens = 0 /\ held = FALSE /\ creating = FALSE /\ 0 \in 0..MaxOpens
    BY DialogConstants DEF DialogInit
  <2> QED
    BY <2>1, <2>2 DEF SaveTyped, DialogTypeOK, Panels
<1> QED
  BY <1>1, DialogStepTyped, PTL DEF DialogSpec

-----------------------------------------------------------------------------
(* The autosave *)

\* The timer, or a PATCH the server has not handled, carries the edit m of field f.
TimerCarries(f, m) == timer # NoPatch /\ f \in DOMAIN timer.patch /\ timer.n = m
FlightCarries(f, m) == \E r \in flight : r.answer = Unanswered /\ f \in DOMAIN r.patch /\ r.n = m

\* Edit m is the last one of field f: what carries f carries m or an older edit, the
\* server has m or an older one, and m itself is at one of the places it can be at.
LastEdit(f, m) ==
    /\ storedBy[f] <= m /\ (storedBy[f] = m => stored[f] = typed[f])
    /\ timer # NoPatch /\ f \in DOMAIN timer.patch =>
         timer.n <= m /\ (timer.n = m => timer.patch[f] = typed[f])
    /\ \A r \in flight : f \in DOMAIN r.patch => r.n <= m /\ (r.n = m => r.patch[f] = typed[f])
    /\ f \in excused \/ storedBy[f] = m \/ TimerCarries(f, m) \/ FlightCarries(f, m)

SaveInv ==
    /\ edits \in Nat /\ storedBy \in [Fields -> Nat]
    /\ DOMAIN stored = Fields /\ DOMAIN typed = Fields
    /\ timer # NoPatch => timer.n \in Nat
    /\ \A r \in flight : r.n \in Nat
    /\ \A f \in Fields : \E m \in 0..edits : LastEdit(f, m)

\* persist: every field of the patch has a new last edit, which the timer carries; a
\* field whose last edit the timer carried before is given up.
LEMMA PersistKeepsSaveInv ==
    ASSUME SaveInv, NEW p, Fits(p), Persist(p)
    PROVE  SaveInv'
<1>1. edits \in Nat /\ edits' = edits + 1 /\ edits' \in Nat
  BY DEF SaveInv, Persist
<1>2. timer' # NoPatch /\ timer'.n = edits + 1 /\ timer'.patch = p
  <2>1. timer' = [n |-> edits + 1, patch |-> p]
    BY DEF Persist
  <2>2. timer' \in [n : Nat, patch : Patches]
    BY <1>1, <2>1 DEF Fits
  <2> QED
    BY <2>1, <2>2, NoPatchIsNoEdit
<1>3. UNCHANGED <<stored, storedBy, flight>>
  BY DEF Persist
<1>4. /\ DOMAIN typed' = Fields
      /\ \A f \in Fields : typed'[f] = IF f \in DOMAIN p THEN p[f] ELSE typed[f]
  BY WithKeepsFields DEF SaveInv, Persist
<1>5. excused' = (excused \cup Pending) \ DOMAIN p
  BY DEF Persist
<1>6. ASSUME NEW f \in Fields PROVE \E m \in 0..edits' : LastEdit(f, m)'
  <2>1. PICK m \in 0..edits : LastEdit(f, m)
    BY DEF SaveInv
  <2>2. storedBy[f] \in Nat /\ \A r \in flight : r.n \in Nat
    BY DEF SaveInv
  <2>3. CASE f \in DOMAIN p
    <3>1. LastEdit(f, edits)'
      BY <1>1, <1>2, <1>3, <1>4, <2>1, <2>2, <2>3 DEF LastEdit, TimerCarries
    <3> QED
      BY <1>1, <3>1
  <2>4. CASE f \notin DOMAIN p
    <3>1. LastEdit(f, m)'
      <4>1. ~(timer' # NoPatch /\ f \in DOMAIN timer'.patch) /\ typed'[f] = typed[f]
        BY <1>2, <1>4, <2>4
      <4>2. TimerCarries(f, m) => f \in excused'
        BY <1>5, <2>4 DEF TimerCarries, Pending
      <4>3. f \in excused => f \in excused'
        BY <1>5, <2>4
      <4> QED
        BY <1>3, <2>1, <4>1, <4>2, <4>3 DEF LastEdit, FlightCarries
    <3> QED
      BY <1>1, <3>1
  <2> QED
    BY <2>3, <2>4
<1>7. \A r \in flight' : r.n \in Nat
  BY <1>3 DEF SaveInv
<1> QED
  BY <1>1, <1>2, <1>3, <1>4, <1>6, <1>7 DEF SaveInv

\* A step that leaves the words, the server's copy and the edit count alone keeps the
\* invariant if each field still has its last edit where it may be.
LEMMA LastEditsKeepSaveInv ==
    ASSUME SaveInv, UNCHANGED <<edits, typed>>, storedBy' \in [Fields -> Nat], DOMAIN stored' = Fields,
           timer' # NoPatch => timer'.n \in Nat, \A r \in flight' : r.n \in Nat,
           \A f \in Fields : \A m \in 0..edits : LastEdit(f, m) => LastEdit(f, m)'
    PROVE  SaveInv'
BY DEF SaveInv

\* 550 ms: the edit moves from the timer to a PATCH.
LEMMA TimerKeepsSaveInv == ASSUME SaveInv, TimerFires PROVE SaveInv'
<1> DEFINE q == Sent(timer.n, timer.patch)
<1>1. q.n = timer.n /\ q.patch = timer.patch /\ q.answer = Unanswered
  BY DEF Sent
<1>2. /\ timer # NoPatch /\ flight' = flight \cup {q} /\ timer' = NoPatch
      /\ UNCHANGED <<stored, storedBy, typed, edits, excused>>
  BY DEF TimerFires
<1> HIDE DEF q
<1>3. ASSUME NEW f \in Fields, NEW m \in 0..edits, LastEdit(f, m) PROVE LastEdit(f, m)'
  <2>1. TimerCarries(f, m) => FlightCarries(f, m)'
    BY <1>1, <1>2 DEF TimerCarries, FlightCarries
  <2>2. FlightCarries(f, m) => FlightCarries(f, m)'
    BY <1>2 DEF FlightCarries
  <2> QED
    BY <1>1, <1>2, <1>3, <2>1, <2>2 DEF LastEdit
<1>4. \A r \in flight' : r.n \in Nat
  BY <1>1, <1>2 DEF SaveInv
<1> QED
  BY <1>2, <1>3, <1>4, LastEditsKeepSaveInv DEF SaveInv

\* The server writes a patch: the last edit of a field is stored by it, or is newer
\* than it and survives, or was stored already and is undone by an older request.
LEMMA ArrivalKeepsSaveInv == ASSUME SaveInv, NEW r \in flight, SaveArrives(r) PROVE SaveInv'
<1> DEFINE q == [r EXCEPT !.answer = With(stored, r.patch)]
<1>1. q.n = r.n /\ q.patch = r.patch
  OBVIOUS
<1>2. /\ flight' = (flight \ {r}) \cup {q}
      /\ storedBy' = [f \in Fields |-> IF f \in DOMAIN r.patch THEN r.n ELSE storedBy[f]]
      /\ excused' = excused \cup {f \in DOMAIN r.patch : r.n < storedBy[f]}
      /\ UNCHANGED <<typed, timer, edits>>
  BY DEF SaveArrives
<1>3. /\ DOMAIN stored' = Fields
      /\ \A f \in Fields : stored'[f] = IF f \in DOMAIN r.patch THEN r.patch[f] ELSE stored[f]
  BY WithKeepsFields DEF SaveInv, SaveArrives
<1> HIDE DEF q
<1>4. ASSUME NEW f \in Fields, NEW m \in 0..edits, LastEdit(f, m) PROVE LastEdit(f, m)'
  <2>1. storedBy[f] \in Nat /\ r.n \in Nat
    BY DEF SaveInv
  <2>2. TimerCarries(f, m) => TimerCarries(f, m)'
    BY <1>2 DEF TimerCarries
  <2>3. FlightCarries(f, m) => FlightCarries(f, m)' \/ (f \in DOMAIN r.patch /\ r.n = m)
    BY <1>2 DEF FlightCarries
  <2>4. CASE f \in DOMAIN r.patch
    <3>1. r.n <= m /\ (r.n = m => r.patch[f] = typed[f]) /\ storedBy[f] <= m
      BY <1>4, <2>4 DEF LastEdit
    <3>2. storedBy'[f] = r.n /\ stored'[f] = r.patch[f]
      BY <1>2, <1>3, <2>4
    <3>3. f \in excused' \/ storedBy'[f] = m \/ TimerCarries(f, m)' \/ FlightCarries(f, m)'
      BY <1>2, <1>4, <2>1, <2>2, <2>3, <2>4, <3>1, <3>2 DEF LastEdit
    <3> QED
      BY <1>1, <1>2, <1>4, <3>1, <3>2, <3>3 DEF LastEdit
  <2>5. CASE f \notin DOMAIN r.patch
    <3>1. storedBy'[f] = storedBy[f] /\ stored'[f] = stored[f]
      BY <1>2, <1>3, <2>5
    <3> QED
      BY <1>1, <1>2, <1>4, <2>2, <2>3, <2>5, <3>1 DEF LastEdit
  <2> QED
    BY <2>4, <2>5
<1>5. \A o \in flight' : o.n \in Nat
  BY <1>1, <1>2 DEF SaveInv
<1>6. storedBy' \in [Fields -> Nat]
  BY <1>2 DEF SaveInv
<1> QED
  BY <1>2, <1>3, <1>4, <1>5, <1>6, LastEditsKeepSaveInv DEF SaveInv

\* An answer, or the end of a request: an edit that is given up with it is excused.
LEMMA SettledKeepsSaveInv ==
    ASSUME SaveInv, NEW r \in flight, SaveAnswered(r) \/ SaveFails(r) PROVE SaveInv'
<1>1. flight' = flight \ {r} /\ UNCHANGED <<stored, storedBy, typed, timer, edits>>
  BY DEF SaveAnswered, SaveFails
<1>2. excused \subseteq excused'
  BY DEF SaveAnswered, SaveFails
<1>3. r.answer = Unanswered => {f \in DOMAIN r.patch : r.patch[f] = typed[f]} \subseteq excused'
  BY DEF SaveAnswered, SaveFails
<1>4. ASSUME NEW f \in Fields, NEW m \in 0..edits, LastEdit(f, m) PROVE LastEdit(f, m)'
  <2>1. FlightCarries(f, m) => FlightCarries(f, m)' \/ f \in excused'
    BY <1>1, <1>3, <1>4 DEF FlightCarries, LastEdit
  <2>2. TimerCarries(f, m) => TimerCarries(f, m)'
    BY <1>1 DEF TimerCarries
  <2> QED
    BY <1>1, <1>2, <1>4, <2>1, <2>2 DEF LastEdit
<1> QED
  BY <1>1, <1>4, LastEditsKeepSaveInv DEF SaveInv

LEMMA DropKeepsSaveInv ==
    ASSUME SaveInv, DropPending, UNCHANGED <<stored, storedBy, typed, flight, edits>> PROVE SaveInv'
<1>1. timer' = NoPatch /\ excused' = excused \cup Pending
  BY DEF DropPending
<1>2. ASSUME NEW f \in Fields, NEW m \in 0..edits, LastEdit(f, m) PROVE LastEdit(f, m)'
  <2>1. TimerCarries(f, m) => f \in excused'
    BY <1>1 DEF TimerCarries, Pending
  <2> QED
    BY <1>1, <1>2, <2>1 DEF LastEdit, FlightCarries
<1> QED
  BY <1>1, <1>2, LastEditsKeepSaveInv DEF SaveInv

\* What none of the steps above changes.
untouched == <<stored, storedBy, typed, timer, flight, edits, excused>>

LEMMA StutterKeepsSaveInv == ASSUME SaveInv, UNCHANGED untouched PROVE SaveInv'
BY DEF SaveInv, untouched, LastEdit, TimerCarries, FlightCarries

LEMMA BackgroundKeepsSaveInv == ASSUME SaveInv, Background PROVE SaveInv'
<1>1. CASE TimerFires
  BY <1>1, TimerKeepsSaveInv
<1>2. CASE Answers
  BY <1>2, ArrivalKeepsSaveInv, SettledKeepsSaveInv DEF Answers
<1>3. CASE BadgeFades
  BY <1>3, StutterKeepsSaveInv DEF BadgeFades, untouched
<1> QED
  BY <1>1, <1>2, <1>3 DEF Background

LEMMA AutosaveStarts == AutosaveInit => SaveInv
<1> SUFFICES ASSUME AutosaveInit PROVE SaveInv
  OBVIOUS
<1>1. DOMAIN stored = Fields
  BY DEF AutosaveInit, Fields
<1>2. /\ typed = stored /\ storedBy = [f \in Fields |-> 0] /\ timer = NoPatch
      /\ flight = {} /\ edits = 0
  BY DEF AutosaveInit
<1>3. \A f \in Fields : LastEdit(f, 0)
  BY <1>2 DEF LastEdit
<1> QED
  BY <1>1, <1>2, <1>3 DEF SaveInv

\* An edit whose place is known is accounted for.
LEMMA SaveInvAccounts == SaveInv => EveryEditAccounted
<1> SUFFICES ASSUME SaveInv, NEW f \in Fields \ excused PROVE stored[f] = typed[f] \/ Waits(f)
  BY DEF EveryEditAccounted
<1>1. PICK m \in 0..edits : LastEdit(f, m)
  BY DEF SaveInv
<1> QED
  BY <1>1 DEF LastEdit, TimerCarries, FlightCarries, Waits

\* A switch of type sends a new edit of the type and the body; the timer is left alone.
LEMMA SwitchKeepsSaveInv == ASSUME SaveInv, ChangeType PROVE SaveInv'
<1>1. PICK to \in OtherTypes(shown) :
        LET p == [type |-> to, data |-> ConvertItemData(shown, to)] IN
        /\ flight' = flight \cup {Sent(Word, p)}
        /\ typed' = With(typed, p)
  BY DEF ChangeType
<1> DEFINE p == [type |-> to, data |-> ConvertItemData(shown, to)]
           q == Sent(Word, p)
<1>2. DOMAIN p = {"type", "data"}
  OBVIOUS
<1>3. q.n = edits + 1 /\ q.patch = p /\ q.answer = Unanswered
  BY DEF Sent, Word
<1>4. flight' = flight \cup {q} /\ typed' = With(typed, p)
  BY <1>1
<1> HIDE DEF p, q
<1>5. /\ edits \in Nat /\ edits' = edits + 1 /\ UNCHANGED <<stored, storedBy, timer>>
      /\ excused' = (excused \ {"type", "data"}) \cup (Pending \cap {"data"})
  BY DEF ChangeType, SaveInv, Word
<1>6. /\ DOMAIN typed' = Fields
      /\ \A f \in Fields : typed'[f] = IF f \in DOMAIN p THEN p[f] ELSE typed[f]
  BY <1>4, WithKeepsFields DEF SaveInv
<1>7. ASSUME NEW f \in Fields PROVE \E m \in 0..edits' : LastEdit(f, m)'
  <2>1. PICK m \in 0..edits : LastEdit(f, m)
    BY DEF SaveInv
  <2>2. storedBy[f] \in Nat /\ (\A r \in flight : r.n \in Nat) /\ (timer # NoPatch => timer.n \in Nat)
    BY DEF SaveInv
  <2>3. CASE f \in DOMAIN p
    <3>1. FlightCarries(f, edits)'
      BY <1>3, <1>4, <1>5, <2>3 DEF FlightCarries
    <3>2. LastEdit(f, edits)'
      BY <1>3, <1>4, <1>5, <1>6, <2>1, <2>2, <2>3, <3>1 DEF LastEdit
    <3> QED
      BY <1>5, <3>2
  <2>4. CASE f \notin DOMAIN p
    <3>1. typed'[f] = typed[f] /\ (f \in excused => f \in excused')
      BY <1>2, <1>5, <1>6, <2>4
    <3>2. FlightCarries(f, m) => FlightCarries(f, m)'
      BY <1>4 DEF FlightCarries
    <3>3. TimerCarries(f, m) => TimerCarries(f, m)'
      BY <1>5 DEF TimerCarries
    <3>4. LastEdit(f, m)'
      BY <1>3, <1>4, <1>5, <2>1, <2>4, <3>1, <3>2, <3>3 DEF LastEdit
    <3> QED
      BY <1>5, <3>4
  <2> QED
    BY <2>3, <2>4
<1>8. \A r \in flight' : r.n \in Nat
  BY <1>3, <1>4, <1>5 DEF SaveInv
<1> QED
  BY <1>5, <1>6, <1>7, <1>8 DEF SaveInv

\* item/[id].tsx, persist and changeType: whatever order edits, the timer, requests and
\* their ends take, and for any number of edits, what the user last put in a field is
\* stored, waits, is on its way, or was lost in one of the ways that Autosave lists, of
\* which three show nothing to the user.
THEOREM EditorAccountsForEdits == EditorSpec => []EveryEditAccounted
<1>1. SaveTyped /\ SaveInv /\ [EditorNext]_<<saving, screen>> => SaveInv'
  <2> SUFFICES ASSUME SaveTyped, SaveInv, [EditorNext]_<<saving, screen>> PROVE SaveInv'
    OBVIOUS
  <2>1. ASSUME Boot \/ LoadFails \/ LoadExtras \/ LockAnswered \/ Delete \/ DeleteFails
        PROVE  SaveInv'
    BY <2>1, StutterKeepsSaveInv
       DEF Boot, LoadFails, LoadExtras, LockAnswered, Delete, DeleteFails, saving, untouched
  <2>2. ASSUME LoadItem \/ DeleteArrives PROVE SaveInv'
    BY <2>2, StutterKeepsSaveInv DEF LoadItem, DeleteArrives, untouched
  <2>3. ASSUME EditTitle \/ EditPlan \/ Pick \/ EditBody PROVE SaveInv'
    BY <2>3, EditIsPatch, PersistKeepsSaveInv
  <2>4. ASSUME ChangeType PROVE SaveInv'
    BY <2>4, SwitchKeepsSaveInv
  <2>5. ASSUME DeleteAnswered \/ Leave PROVE SaveInv'
    BY <2>5, DropKeepsSaveInv DEF DeleteAnswered, Leave, Unmount
  <2>6. ASSUME Background PROVE SaveInv'
    BY <2>6, BackgroundKeepsSaveInv
  <2>7. ASSUME UNCHANGED <<saving, screen>> PROVE SaveInv'
    BY <2>7, StutterKeepsSaveInv DEF saving, untouched
  <2> QED
    BY <2>1, <2>2, <2>3, <2>4, <2>5, <2>6, <2>7 DEF EditorNext
<1> QED
  BY <1>1, EditorTyped, AutosaveStarts, SaveInvAccounts, PTL DEF EditorSpec

\* CardDialog.tsx: the same of the panel on the board, whose inputs another card may
\* take while the timer of the first one runs; closing it drops what waits, unseen.
THEOREM DialogAccountsForEdits == DialogSpec => []EveryEditAccounted
<1>1. SaveTyped /\ SaveInv /\ [DialogNext]_<<saving, dialog>> => SaveInv'
  <2> SUFFICES ASSUME SaveTyped, SaveInv, [DialogNext]_<<saving, dialog>> PROVE SaveInv'
    OBVIOUS
  <2>1. ASSUME OpenPanel PROVE SaveInv'
    BY <2>1, StutterKeepsSaveInv DEF OpenPanel, untouched
  <2>2. ASSUME ClosePanel PROVE SaveInv'
    BY <2>2, DropKeepsSaveInv DEF ClosePanel
  <2>3. ASSUME LockSeen \/ Submit \/ Created \/ CreateFails PROVE SaveInv'
    BY <2>3, StutterKeepsSaveInv DEF LockSeen, Submit, Created, CreateFails, saving, untouched
  <2>4. ASSUME EditPanel PROVE SaveInv'
    BY <2>4, PanelEditIsPatch, PersistKeepsSaveInv
  <2>5. ASSUME Background PROVE SaveInv'
    BY <2>5, BackgroundKeepsSaveInv
  <2>6. ASSUME UNCHANGED <<saving, dialog>> PROVE SaveInv'
    BY <2>6, StutterKeepsSaveInv DEF saving, untouched
  <2> QED
    BY <2>1, <2>2, <2>3, <2>4, <2>5, <2>6 DEF DialogNext
<1> QED
  BY <1>1, DialogTyped, AutosaveStarts, SaveInvAccounts, PTL DEF DialogSpec

-----------------------------------------------------------------------------
(* The estimate and the dates *)

\* utils/estimation.ts: parseEstimation undoes hoursToXdYh, up to the rounding, for
\* every estimate long enough to be written at all.
LEMMA WrittenIsRead ==
    ASSUME NEW v \in Nat, v >= 5
    PROVE  LET back == ParseEstimation(HoursToXdYh(v)) IN back \in Nat /\ back - v \in -5..5
<1> DEFINE days == v \div 8000
           rest == v - 8000 * days
           tens == (rest + 5) \div 10
<1>1. days \in Nat /\ rest \in 0..7999
  BY SMT
<1>2. tens \in Nat /\ 10 * tens <= rest + 5 /\ rest + 5 < 10 * tens + 10
  <2> HIDE DEF rest
  <2> QED
    BY <1>1, SMT
<1>3. v # Null
  BY FieldConstants
<1>4. 1000 * WORKDAY_HOURS = 8000
  BY DEF WORKDAY_HOURS
<1>5. HoursToXdYh(v) = [days |-> 1000 * days, hours |-> 10 * tens]
  BY <1>3, <1>4 DEF HoursToXdYh, BreakDown
<1>6. v = 8000 * days + rest
  BY <1>1
<1> HIDE DEF days, rest, tens
<1>7. 1000 * days \in Nat /\ 10 * tens \in Nat
  BY <1>1, <1>2
<1>8. HoursToXdYh(v) # Blanked
  <2>1. ~(1000 * days = 0 /\ 10 * tens = 0)
    BY <1>1, <1>2, <1>6
  <2> QED
    BY <1>5, <2>1 DEF Blanked
<1>9. HoursToXdYh(v) # Garbage
  BY <1>5, <1>7, FieldConstants
<1>10. ParseEstimation(HoursToXdYh(v)) = 8 * (1000 * days) + 10 * tens
  BY <1>5, <1>8, <1>9 DEF ParseEstimation, WORKDAY_HOURS
<1> QED
  BY <1>1, <1>2, <1>6, <1>10

\* What the field holds until the user types, and what a save of it carries.
FieldInv ==
    /\ touched \in BOOLEAN
    /\ opened \in Nat \cup {Null}
    /\ picker \in Dates \cup {Null}
    /\ ~touched => text = HoursToXdYh(opened)
    /\ ~touched /\ unsaved # Null /\ "estimate" \in DOMAIN unsaved
          => unsaved.estimate = ParseEstimation(HoursToXdYh(opened))

LEMMA FieldInvHolds == FieldsSpec => []FieldInv
<1>1. FieldsInit => FieldInv
  <2> SUFFICES ASSUME FieldsInit PROVE FieldInv
    OBVIOUS
  <2>1. PICK e \in Estimates : planned = [estimate |-> e, start |-> Null, end |-> Null]
    BY DEF FieldsInit
  <2>2. opened \in Nat \cup {Null}
    <3>1. planned.estimate = e
      BY <2>1
    <3> QED
      BY <3>1, FieldConstants DEF FieldsInit
  <2>3. text = HoursToXdYh(opened) /\ touched = FALSE /\ picker = Null /\ unsaved = Null
    BY DEF FieldsInit
  <2> QED
    BY <2>2, <2>3 DEF FieldInv
<1>2. FieldInv /\ [FieldsNext]_fields => FieldInv'
  <2> SUFFICES ASSUME FieldInv, [FieldsNext]_fields PROVE FieldInv'
    OBVIOUS
  <2> USE DEF FieldInv
  <2>1. ASSUME NEW t \in Typings, TypeEstimate(t) PROVE FieldInv'
    BY <2>1 DEF TypeEstimate
  <2>2. ASSUME NEW d \in Dates, OpenCalendar(d) PROVE FieldInv'
    BY <2>2 DEF OpenCalendar
  <2>3. ASSUME NEW day \in Days, PickDay(day) PROVE FieldInv'
    <3>1. picker \in Dates /\ picker' = Null
      BY <2>3 DEF PickDay
    <3>2. "estimate" \notin DOMAIN unsaved'
      BY <2>3, <3>1 DEF PickDay, Save, Dates
    <3> QED
      BY <2>3, <3>1, <3>2 DEF PickDay
  <2>4. CASE BlurEstimate
    BY <2>4 DEF BlurEstimate, Save
  <2>5. CASE ClearDay
    <3>1. picker \in Dates /\ picker' = Null
      BY <2>5 DEF ClearDay
    <3>2. "estimate" \notin DOMAIN unsaved'
      BY <2>5, <3>1 DEF ClearDay, Save, Dates
    <3> QED
      BY <2>5, <3>1, <3>2 DEF ClearDay
  <2>6. CASE CloseCalendar
    BY <2>6 DEF CloseCalendar
  <2>7. CASE SaveLands
    BY <2>7 DEF SaveLands
  <2>8. CASE UNCHANGED fields
    BY <2>8 DEF fields
  <2> QED
    BY <2>1, <2>2, <2>3, <2>4, <2>5, <2>6, <2>7, <2>8 DEF FieldsNext
<1> QED
  BY <1>1, <1>2, PTL DEF FieldsSpec

\* EstimationInput.tsx commits its text on every blur: for estimates in thousandths of
\* an hour, from five of them on, a blur without typing moves the estimate by at most
\* half a hundredth of an hour.
THEOREM PassingThroughKeepsEstimate == FieldsSpec => []BlurKeepsEstimate
<1>1. FieldInv => BlurKeepsEstimate
  <2> SUFFICES ASSUME FieldInv, ~touched, opened # Null, opened >= 5, unsaved # Null,
                      "estimate" \in DOMAIN unsaved
               PROVE  unsaved.estimate # Null /\ unsaved.estimate - opened \in -5..5
    BY DEF BlurKeepsEstimate
  <2>1. opened \in Nat /\ unsaved.estimate = ParseEstimation(HoursToXdYh(opened))
    BY DEF FieldInv
  <2>2. unsaved.estimate \in Nat /\ unsaved.estimate - opened \in -5..5
    BY <2>1, WrittenIsRead
  <2> QED
    BY <2>2, FieldConstants
<1> QED
  BY <1>1, FieldInvHolds, PTL

\* The estimate and the dates, with what the text and a save that waits may hold.
Spans == [days : Nat, hours : Nat]
Planned(f) == IF f = "estimate" THEN Nat \cup {Null} ELSE {24 * day : day \in Days} \cup {Null}
FieldsTyped ==
    /\ FieldsTypeOK
    /\ text \in Spans \cup {Garbage}
    /\ DOMAIN planned = {"estimate"} \cup Dates
    /\ picked \in [Dates -> Days \cup {Null}]
    /\ unsaved # Null => \A f \in DOMAIN unsaved : unsaved[f] \in Planned(f)

LEMMA TextsAreSpans ==
    /\ \A v \in Nat \cup {Null} : HoursToXdYh(v) \in Spans
    /\ \A t \in Spans \cup {Garbage} : ParseEstimation(t) \in Nat \cup {Null}
<1>1. Blanked \in Spans
  BY DEF Blanked, Spans
<1>2. ASSUME NEW v \in Nat PROVE BreakDown(v) \in Spans
  <2> DEFINE days == v \div 8000
             rest == v - 8000 * days
  <2>1. days \in Nat /\ rest \in Nat
    BY SMT
  <2>2. 1000 * days \in Nat /\ 10 * ((rest + 5) \div 10) \in Nat
    <3> HIDE DEF days, rest
    <3> QED
      BY <2>1, SMT
  <2>3. BreakDown(v) = [days |-> 1000 * days, hours |-> 10 * ((rest + 5) \div 10)]
    BY DEF BreakDown, WORKDAY_HOURS
  <2> HIDE DEF days, rest
  <2> QED
    BY <2>2, <2>3 DEF Spans
<1>3. \A t \in Spans : ParseEstimation(t) \in Nat \cup {Null}
  BY DEF ParseEstimation, WORKDAY_HOURS, Spans
<1>4. ParseEstimation(Garbage) = Null
  BY DEF ParseEstimation
<1> QED
  BY <1>1, <1>2, <1>3, <1>4 DEF HoursToXdYh

LEMMA FieldsTypedStarts == FieldsInit => FieldsTyped
<1> SUFFICES ASSUME FieldsInit PROVE FieldsTyped
  OBVIOUS
<1>1. PICK e \in Estimates : planned = [estimate |-> e, start |-> Null, end |-> Null]
  BY DEF FieldsInit
<1>2. e \in Nat \cup {Null} /\ planned.estimate = e
  BY <1>1, FieldConstants
<1>3. /\ zone \in Zones /\ opened = planned.estimate /\ text = HoursToXdYh(opened) /\ touched = FALSE
      /\ picker = Null /\ picked = [d \in Dates |-> Null] /\ unsaved = Null /\ saves = 0
  BY DEF FieldsInit
<1>4. text \in Spans
  BY <1>2, <1>3, TextsAreSpans
<1>5. DOMAIN planned = {"estimate"} \cup Dates /\ \A d \in Dates : planned[d] = Null
  BY <1>1 DEF Dates
<1> QED
  <2>1. opened \in Nat \cup {Null} /\ planned.estimate \in Nat \cup {Null} /\ saves \in 0..MaxSaves
    BY <1>2, <1>3, FieldConstants
  <2>2. \A d \in Dates : planned[d] \in {24 * day : day \in Days} \cup {Null} /\ picked[d] \in Days \cup {Null}
    BY <1>3, <1>5
  <2>3. picked \in [Dates -> Days \cup {Null}]
    BY <1>3
  <2> QED
    BY <1>3, <1>4, <1>5, <2>1, <2>2, <2>3 DEF FieldsTyped, FieldsTypeOK

LEMMA FieldsStepTyped == FieldsTyped /\ [FieldsNext]_fields => FieldsTyped'
<1> SUFFICES ASSUME FieldsTyped, [FieldsNext]_fields PROVE FieldsTyped'
  OBVIOUS
<1> USE DEF FieldsTyped, FieldsTypeOK
<1>1. ASSUME NEW t \in Typings, TypeEstimate(t) PROVE FieldsTyped'
  <2>1. t \in Spans \cup {Garbage}
    BY FieldConstants DEF Spans
  <2> QED
    BY <1>1, <2>1 DEF TypeEstimate
<1>2. ASSUME NEW d \in Dates, OpenCalendar(d) PROVE FieldsTyped'
  BY <1>2 DEF OpenCalendar
<1>3. ASSUME NEW p, Save(p), DOMAIN p \subseteq {"estimate"} \cup Dates,
             \A f \in DOMAIN p : p[f] \in Planned(f), UNCHANGED <<zone, planned, opened, text, touched>>,
             picker' \in Dates \cup {Null}, picked' \in [Dates -> Days \cup {Null}]
      PROVE  FieldsTyped'
  <2>1. saves' \in 0..MaxSaves
    BY <1>3, FieldConstants DEF Save
  <2> QED
    BY <1>3, <2>1 DEF Save
<1>4. ASSUME BlurEstimate PROVE FieldsTyped'
  <2> DEFINE p == [estimate |-> ParseEstimation(text)]
  <2>1. ParseEstimation(text) \in Nat \cup {Null}
    BY TextsAreSpans
  <2>2. DOMAIN p \subseteq {"estimate"} \cup Dates /\ \A f \in DOMAIN p : p[f] \in Planned(f)
    BY <2>1 DEF Planned
  <2>3. Save(p) /\ UNCHANGED <<zone, planned, opened, text, touched, picker, picked>>
    BY <1>4 DEF BlurEstimate
  <2> HIDE DEF p
  <2> QED
    BY <1>3, <2>2, <2>3
<1>5. ASSUME NEW day \in Days, PickDay(day) PROVE FieldsTyped'
  <2> DEFINE p == [d \in {picker} |-> 24 * day]
  <2>1. picker \in Dates /\ picker # "estimate"
    BY <1>5 DEF PickDay, Dates
  <2>2. DOMAIN p \subseteq {"estimate"} \cup Dates /\ \A f \in DOMAIN p : p[f] \in Planned(f)
    BY <2>1 DEF Planned
  <2>3. Save(p) /\ UNCHANGED <<zone, planned, opened, text, touched>>
    BY <1>5 DEF PickDay
  <2>4. picker' = Null /\ picked' \in [Dates -> Days \cup {Null}]
    BY <1>5, <2>1 DEF PickDay
  <2> HIDE DEF p
  <2> QED
    BY <1>3, <2>2, <2>3, <2>4
<1>6. ASSUME ClearDay PROVE FieldsTyped'
  <2> DEFINE p == [d \in {picker} |-> Null]
  <2>1. picker \in Dates /\ picker # "estimate"
    BY <1>6 DEF ClearDay, Dates
  <2>2. DOMAIN p \subseteq {"estimate"} \cup Dates /\ \A f \in DOMAIN p : p[f] \in Planned(f)
    BY <2>1 DEF Planned
  <2>3. Save(p) /\ UNCHANGED <<zone, planned, opened, text, touched>>
    BY <1>6 DEF ClearDay
  <2>4. picker' = Null /\ picked' \in [Dates -> Days \cup {Null}]
    BY <1>6, <2>1 DEF ClearDay
  <2> HIDE DEF p
  <2> QED
    BY <1>3, <2>2, <2>3, <2>4
<1>7. ASSUME CloseCalendar PROVE FieldsTyped'
  BY <1>7 DEF CloseCalendar
<1>8. ASSUME SaveLands PROVE FieldsTyped'
  <2>1. /\ planned' = [f \in DOMAIN planned |-> IF f \in DOMAIN unsaved THEN unsaved[f] ELSE planned[f]]
        /\ unsaved # Null /\ unsaved' = Null
        /\ UNCHANGED <<zone, opened, text, touched, picker, picked, saves>>
    BY <1>8 DEF SaveLands
  <2>2. \A f \in {"estimate"} \cup Dates : planned[f] \in Planned(f)
    BY DEF Planned, Dates
  <2>3. DOMAIN planned' = {"estimate"} \cup Dates /\ \A f \in {"estimate"} \cup Dates : planned'[f] \in Planned(f)
    BY <2>1, <2>2
  <2>4. planned'.estimate \in Nat \cup {Null} /\ \A d \in Dates : planned'[d] \in {24 * day : day \in Days} \cup {Null}
    BY <2>3 DEF Planned, Dates
  <2> QED
    BY <2>1, <2>3, <2>4
<1>9. ASSUME UNCHANGED fields PROVE FieldsTyped'
  BY <1>9 DEF fields
<1> QED
  BY <1>1, <1>2, <1>4, <1>5, <1>6, <1>7, <1>8, <1>9 DEF FieldsNext

-----------------------------------------------------------------------------
(* Checklists and documents *)

\* The rows have numbers of their own, no number is ahead of the edits made, every row
\* has the words last typed in it, an unused number has none, and the last patch is
\* the rows.
BodyInv ==
    /\ made \in 0..MaxTypings
    /\ rows \in Seq(Rows) /\ said \in [RowIds -> Texts]
    /\ \A i, j \in 1..Len(rows) : rows[i].id = rows[j].id => i = j
    /\ \A i \in 1..Len(rows) : rows[i].id <= FirstRows + made /\ rows[i].text = said[rows[i].id]
    /\ \A id \in RowIds : id > FirstRows + made => said[id] = 0
    /\ patch # Nothing => patch = rows

\* What one edit writes in a row is the newest text.
LEMMA RowWritten ==
    ASSUME BodyInv, made < MaxTypings
    PROVE  /\ Written \in RowIds /\ Written \in Texts /\ Written > FirstRows + made
           /\ made + 1 \in 0..MaxTypings
BY BodyConstants DEF BodyInv, Written, RowIds, Texts, FirstRows

LEMMA RowsTyped ==
    ASSUME BodyInv
    PROVE  Len(rows) \in Nat /\ \A j \in 1..Len(rows) : rows[j] \in Rows /\ rows[j].id \in RowIds /\ rows[j].id \in Nat
<1>1. rows \in Seq(Rows)
  BY DEF BodyInv
<1>2. Len(rows) \in Nat /\ \A j \in 1..Len(rows) : rows[j] \in Rows
  BY <1>1
<1>3. \A row \in Rows : row.id \in RowIds
  BY DEF Rows
<1>4. RowIds \subseteq Nat
  BY BodyConstants DEF RowIds, FirstRows
<1> QED
  BY <1>2, <1>3, <1>4

\* Typing in one row leaves what the others say.
LEMMA TypingKeepsBodyInv ==
    ASSUME BodyInv, NEW i \in 1..Len(rows), Edit, Commit([rows EXCEPT ![i].text = Written]),
           said' = [said EXCEPT ![rows[i].id] = Written]
    PROVE  BodyInv'
<1>1. made < MaxTypings /\ made' = made + 1 /\ made \in Nat
  BY BodyConstants DEF Edit, BodyInv
<1>2. Written \in RowIds /\ Written \in Texts /\ made' \in 0..MaxTypings
  BY <1>1, RowWritten
<1>3. \A j \in 1..Len(rows) : rows[j] \in Rows /\ rows[j].id \in RowIds
  BY RowsTyped
<1>4. rows' = [rows EXCEPT ![i].text = Written] /\ patch' = rows'
  BY DEF Commit
<1>5. rows' \in Seq(Rows) /\ Len(rows') = Len(rows)
  <2>1. [rows[i] EXCEPT !.text = Written] \in Rows
    BY <1>2, <1>3 DEF Rows
  <2> QED
    BY <1>4, <2>1 DEF BodyInv
<1>6. \A j \in 1..Len(rows) : /\ rows'[j].id = rows[j].id
                              /\ rows'[j].text = IF j = i THEN Written ELSE rows[j].text
  BY <1>3, <1>4 DEF BodyInv, Rows
<1>7. /\ said' \in [RowIds -> Texts]
      /\ \A id \in RowIds : said'[id] = IF id = rows[i].id THEN Written ELSE said[id]
  BY <1>2, <1>3 DEF BodyInv
<1>8. \A j \in 1..Len(rows') : rows'[j].id <= FirstRows + made' /\ rows'[j].text = said'[rows'[j].id]
  BY <1>1, <1>3, <1>5, <1>6, <1>7 DEF BodyInv, FirstRows, RowIds
<1>9. \A id \in RowIds : id > FirstRows + made' => said'[id] = 0
  BY <1>1, <1>3, <1>7 DEF BodyInv, FirstRows, RowIds
<1> QED
  BY <1>2, <1>4, <1>5, <1>6, <1>7, <1>8, <1>9 DEF BodyInv

LEMMA BodyInvStarts == BodiesInit => BodyInv
<1> SUFFICES ASSUME BodiesInit PROVE BodyInv
  OBVIOUS
<1>1. PICK locks \in SUBSET (1..FirstRows) :
        rows = [i \in 1..FirstRows |-> [id |-> i, text |-> i, done |-> FALSE, locked |-> i \in locks]]
  BY DEF BodiesInit
<1>2. /\ patch = Nothing /\ made = 0
      /\ said = [i \in RowIds |-> IF i <= FirstRows THEN i ELSE 0]
  BY DEF BodiesInit
<1>3. FirstRows = 3 /\ MaxTypings \in Nat
  BY BodyConstants DEF FirstRows
<1>4. \A i \in 1..FirstRows : i \in RowIds /\ i \in Texts
  BY <1>3 DEF RowIds, Texts
<1>5. rows \in Seq(Rows) /\ Len(rows) = FirstRows
  <2>1. \A i \in 1..FirstRows : [id |-> i, text |-> i, done |-> FALSE, locked |-> i \in locks] \in Rows
    BY <1>4 DEF Rows
  <2> QED
    BY <1>1, <1>3, <2>1
<1>6. said \in [RowIds -> Texts]
  BY <1>2, <1>3, <1>4 DEF RowIds, Texts
<1>7. \A i \in 1..Len(rows) : rows[i].id = i /\ rows[i].text = i
  BY <1>1, <1>5
<1> QED
  BY <1>2, <1>3, <1>4, <1>5, <1>6, <1>7 DEF BodyInv, RowIds

LEMMA BodyStepKeeps == BodyInv /\ [BodiesNext]_body => BodyInv'
<1> SUFFICES ASSUME BodyInv, [BodiesNext]_body PROVE BodyInv'
  OBVIOUS
<1>1. ASSUME NEW i \in 1..Len(rows), TypeEntry(i) \/ TypeBlock(i) PROVE BodyInv'
  BY <1>1, TypingKeepsBodyInv DEF TypeEntry, TypeBlock
<1>2. ASSUME NEW i \in 1..Len(rows), ToggleRow(i) PROVE BodyInv'
  <2>1. rows' = [rows EXCEPT ![i].done = ~@] /\ patch' = rows' /\ said' = said
    BY <1>2 DEF ToggleRow, Commit
  <2>2. made \in Nat /\ made' = made + 1 /\ made' \in 0..MaxTypings
    BY <1>2, BodyConstants DEF ToggleRow, Edit, BodyInv
  <2>3. rows[i] \in Rows
    BY DEF BodyInv
  <2>4. [rows[i] EXCEPT !.done = ~@] \in Rows
    BY <2>3 DEF Rows
  <2>5. rows' \in Seq(Rows) /\ Len(rows') = Len(rows)
    BY <2>1, <2>4 DEF BodyInv
  <2>6. \A j \in 1..Len(rows) : rows'[j].id = rows[j].id /\ rows'[j].text = rows[j].text
    BY <2>1, <2>3 DEF BodyInv, Rows
  <2>7. \A j \in 1..Len(rows) : rows[j].id \in Nat
    BY RowsTyped
  <2>8. \A j \in 1..Len(rows') : rows'[j].id <= FirstRows + made' /\ rows'[j].text = said'[rows'[j].id]
    BY <2>1, <2>2, <2>5, <2>6, <2>7 DEF BodyInv, FirstRows
  <2>9. \A id \in RowIds : id > FirstRows + made' => said'[id] = 0
    BY <2>1, <2>2 DEF BodyInv, FirstRows, RowIds
  <2> QED
    BY <2>1, <2>2, <2>5, <2>6, <2>8, <2>9 DEF BodyInv
<1>3. ASSUME NEW i \in 1..Len(rows), RemoveRow(i) PROVE BodyInv'
  <2>1. rows' = RemoveAt(rows, i) /\ patch' = rows' /\ said' = said
    BY <1>3 DEF RemoveRow, Commit
  <2>2. made \in Nat /\ made' = made + 1 /\ made' \in 0..MaxTypings
    BY <1>3, BodyConstants DEF RemoveRow, Edit, BodyInv
  <2>3. /\ rows' \in Seq(Rows) /\ Len(rows') = Len(rows) - 1
        /\ \A j \in 1..Len(rows) - 1 : rows'[j] = IF j < i THEN rows[j] ELSE rows[j + 1]
    BY <2>1, RemovedAt DEF BodyInv
  <2>4. Len(rows) \in Nat /\ \A j \in 1..Len(rows) : rows[j].id \in Nat
    BY RowsTyped
  <2>5. \A j \in 1..Len(rows') : /\ rows'[j].id <= FirstRows + made'
                                 /\ rows'[j].text = said'[rows'[j].id]
    <3> SUFFICES ASSUME NEW j \in 1..Len(rows')
                 PROVE  rows'[j].id <= FirstRows + made' /\ rows'[j].text = said'[rows'[j].id]
      OBVIOUS
    <3>1. PICK k \in 1..Len(rows) : rows'[j] = rows[k]
      BY <2>3, <2>4
    <3> QED
      BY <2>1, <2>2, <2>4, <3>1 DEF BodyInv, FirstRows
  <2>6. \A j, k \in 1..Len(rows') : rows'[j].id = rows'[k].id => j = k
    <3> SUFFICES ASSUME NEW j \in 1..Len(rows'), NEW k \in 1..Len(rows'), rows'[j].id = rows'[k].id
                 PROVE  j = k
      OBVIOUS
    <3> DEFINE From(n) == IF n < i THEN n ELSE n + 1
    <3>1. From(j) \in 1..Len(rows) /\ From(k) \in 1..Len(rows)
      BY <2>3, <2>4
    <3>2. rows'[j] = rows[From(j)] /\ rows'[k] = rows[From(k)]
      BY <2>3
    <3>3. From(j) = From(k)
      <4> HIDE DEF From
      <4> QED
        BY <3>1, <3>2 DEF BodyInv
    <3> QED
      BY <2>3, <2>4, <3>3
  <2>7. \A id \in RowIds : id > FirstRows + made' => said'[id] = 0
    BY <2>1, <2>2 DEF BodyInv, FirstRows, RowIds
  <2> QED
    BY <2>1, <2>2, <2>3, <2>5, <2>6, <2>7 DEF BodyInv
<1>4. ASSUME AddRow PROVE BodyInv'
  <2> DEFINE new == [id |-> Written, text |-> 0, done |-> FALSE, locked |-> FALSE]
  <2>1. rows' = Append(rows, new) /\ patch' = rows' /\ said' = said
    BY <1>4 DEF AddRow, Commit
  <2>2. made < MaxTypings /\ made \in Nat /\ made' = made + 1 /\ made' \in 0..MaxTypings
    BY <1>4, BodyConstants DEF AddRow, Edit, BodyInv
  <2>3. Written \in RowIds /\ Written > FirstRows + made /\ Written <= FirstRows + made'
    BY <2>2, RowWritten DEF Written, FirstRows
  <2>4. new \in Rows
    BY <2>3, BodyConstants DEF Rows, Texts, FirstRows
  <2>5. new.id = Written /\ new.text = 0
    OBVIOUS
  <2> HIDE DEF new
  <2>6. /\ rows' \in Seq(Rows) /\ Len(rows') = Len(rows) + 1
        /\ \A j \in 1..Len(rows) : rows'[j] = rows[j]
        /\ rows'[Len(rows) + 1] = new
    BY <2>1, <2>4, AppendProperties DEF BodyInv
  <2>7. Len(rows) \in Nat /\ \A j \in 1..Len(rows) : rows[j].id \in Nat /\ rows[j].id <= FirstRows + made
    BY RowsTyped DEF BodyInv
  <2>8. said[Written] = 0
    BY <2>3 DEF BodyInv
  <2>9. \A j \in 1..Len(rows') : \/ j \in 1..Len(rows)
                                 \/ j = Len(rows) + 1 /\ rows'[j] = new
    BY <2>6, <2>7
  <2>10. \A j \in 1..Len(rows') : /\ rows'[j].id <= FirstRows + made'
                                  /\ rows'[j].text = said'[rows'[j].id]
    BY <2>1, <2>2, <2>3, <2>5, <2>6, <2>7, <2>8, <2>9 DEF BodyInv, FirstRows
  <2>11. \A j, k \in 1..Len(rows') : rows'[j].id = rows'[k].id => j = k
    BY <2>3, <2>5, <2>6, <2>7, <2>9 DEF BodyInv, RowIds, FirstRows
  <2>12. \A id \in RowIds : id > FirstRows + made' => said'[id] = 0
    BY <2>1, <2>2 DEF BodyInv, FirstRows, RowIds
  <2> QED
    BY <2>1, <2>2, <2>6, <2>10, <2>11, <2>12 DEF BodyInv
<1>5. ASSUME UNCHANGED body PROVE BodyInv'
  BY <1>5 DEF body, BodyInv
<1> QED
  BY <1>1, <1>2, <1>3, <1>4, <1>5 DEF BodiesNext

LEMMA BodyInvHolds == BodiesSpec => []BodyInv
BY BodyInvStarts, BodyStepKeeps, PTL DEF BodiesSpec

\* ChecklistBody and DocumentBody: each patch replaces the one before, and the last one
\* holds every row the user left, with the words last typed in it, for any number of
\* edits of any rows.  What a checklist's inputs show may differ once an entry is gone.
THEOREM LastPatchCountsAlone == BodiesSpec => []LastPatchIsWhole
<1>1. BodyInv => LastPatchIsWhole
  BY DEF BodyInv, LastPatchIsWhole
<1> QED
  BY <1>1, BodyInvHolds, PTL

LEMMA BodiesTypedStarts == BodiesInit => BodiesTypeOK
<1> SUFFICES ASSUME BodiesInit PROVE BodiesTypeOK
  OBVIOUS
<1>1. BodyInv
  BY BodyInvStarts
<1>2. kind \in {"checklist", "document"} /\ inputs = [i \in 1..FirstRows |-> i] /\ patch = Nothing
  BY DEF BodiesInit
<1>3. Len(rows) = FirstRows
  BY DEF BodiesInit, FirstRows
<1>4. \A i \in 1..FirstRows : i \in Texts
  BY BodyConstants DEF Texts, FirstRows
<1>5. inputs \in Seq(Texts) /\ Len(inputs) = FirstRows
  BY <1>2, <1>4 DEF FirstRows
<1> QED
  BY <1>1, <1>2, <1>3, <1>5 DEF BodiesTypeOK, BodyInv

\* The inputs keep in step with the rows.
LEMMA BodiesStepTyped == BodyInv /\ BodiesTypeOK /\ [BodiesNext]_body => BodiesTypeOK'
<1> SUFFICES ASSUME BodyInv, BodiesTypeOK, [BodiesNext]_body PROVE BodiesTypeOK'
  OBVIOUS
<1>1. BodyInv'
  BY BodyStepKeeps
<1>2. ASSUME kind' = kind, inputs' \in Seq(Texts), Len(inputs') = Len(rows') PROVE BodiesTypeOK'
  BY <1>1, <1>2 DEF BodyInv, BodiesTypeOK
<1>3. rows \in Seq(Rows) /\ inputs \in Seq(Texts) /\ Len(inputs) = Len(rows) /\ Len(rows) \in Nat
  BY DEF BodiesTypeOK
<1>4. ASSUME NEW i \in 1..Len(rows), TypeEntry(i) \/ TypeBlock(i) PROVE BodiesTypeOK'
  <2>1. /\ kind' = kind /\ made < MaxTypings /\ rows' = [rows EXCEPT ![i].text = Written]
        /\ inputs' = [inputs EXCEPT ![i] = Written]
    BY <1>4 DEF TypeEntry, TypeBlock, Edit, Commit
  <2>2. Written \in Texts
    BY <2>1, RowWritten
  <2>3. inputs' \in Seq(Texts) /\ Len(inputs') = Len(inputs)
    BY <1>3, <2>1, <2>2
  <2>4. Len(rows') = Len(rows)
    BY <1>3, <2>1
  <2> QED
    BY <1>2, <1>3, <2>1, <2>3, <2>4
<1>5. ASSUME NEW i \in 1..Len(rows), ToggleRow(i) PROVE BodiesTypeOK'
  <2>1. kind' = kind /\ inputs' = inputs /\ rows' = [rows EXCEPT ![i].done = ~@]
    BY <1>5 DEF ToggleRow, Commit
  <2>2. Len(rows') = Len(rows)
    BY <1>3, <2>1
  <2> QED
    BY <1>2, <1>3, <2>1, <2>2
<1>6. ASSUME NEW i \in 1..Len(rows), RemoveRow(i) PROVE BodiesTypeOK'
  <2>1. /\ kind' = kind /\ rows' = RemoveAt(rows, i)
        /\ inputs' = IF kind = "checklist" THEN Front(inputs) ELSE RemoveAt(inputs, i)
    BY <1>6 DEF RemoveRow, Commit
  <2>2. Len(rows') = Len(rows) - 1
    BY <1>3, <2>1, RemovedAt
  <2>3. Front(inputs) \in Seq(Texts) /\ Len(Front(inputs)) = Len(inputs) - 1
    <3>1. Len(inputs) - 1 \in Nat
      BY <1>3
    <3> QED
      BY <1>3, <3>1 DEF Front
  <2>4. RemoveAt(inputs, i) \in Seq(Texts) /\ Len(RemoveAt(inputs, i)) = Len(inputs) - 1
    BY <1>3, RemovedAt
  <2> QED
    BY <1>2, <1>3, <2>1, <2>2, <2>3, <2>4
<1>7. ASSUME AddRow PROVE BodiesTypeOK'
  <2>1. kind' = kind /\ inputs' = Append(inputs, 0) /\ Edit
    BY <1>7 DEF AddRow
  <2>2. 0 \in Texts
    BY BodyConstants DEF Texts, FirstRows
  <2>3. inputs' \in Seq(Texts) /\ Len(inputs') = Len(inputs) + 1
    BY <1>3, <2>1, <2>2, AppendProperties
  <2>4. Len(rows') = Len(rows) + 1
    <3> DEFINE new == [id |-> Written, text |-> 0, done |-> FALSE, locked |-> FALSE]
    <3>1. rows' = Append(rows, new) /\ made < MaxTypings
      BY <1>7 DEF AddRow, Commit, Edit
    <3>2. new \in Rows
      BY <2>2, <3>1, RowWritten DEF Rows
    <3> HIDE DEF new
    <3> QED
      BY <1>3, <3>1, <3>2, AppendProperties
  <2> QED
    BY <1>2, <1>3, <2>1, <2>3, <2>4
<1>8. ASSUME UNCHANGED body PROVE BodiesTypeOK'
  BY <1>8 DEF body, BodiesTypeOK
<1> QED
  BY <1>4, <1>5, <1>6, <1>7, <1>8 DEF BodiesNext

-----------------------------------------------------------------------------
(* All of them *)

AllTyped == SaveTyped /\ EditorTypeOK /\ DialogTypeOK /\ FieldsTyped /\ BodyInv /\ BodiesTypeOK

LEMMA AllTypedHolds == Spec => []AllTyped
<1>1. Init => AllTyped
  <2> SUFFICES ASSUME Init PROVE AllTyped
    OBVIOUS
  <2>1. EditorTypeOK
    BY SaveTypedStarts DEF Init, EditorInit, EditorTypeOK, Phases, SaveTyped
  <2>2. DialogTypeOK
    <3>1. panel = "closed" /\ opens = 0 /\ held = FALSE /\ creating = FALSE /\ 0 \in 0..MaxOpens
      BY DialogConstants DEF Init, DialogInit
    <3>2. AutosaveTypeOK
      BY SaveTypedStarts DEF Init, SaveTyped
    <3> QED
      BY <3>1, <3>2 DEF DialogTypeOK, Panels
  <2>3. SaveTyped /\ FieldsTyped /\ BodyInv /\ BodiesTypeOK
    BY SaveTypedStarts, FieldsTypedStarts, BodyInvStarts, BodiesTypedStarts DEF Init
  <2> QED
    BY <2>1, <2>2, <2>3 DEF AllTyped
<1>2. AllTyped /\ [Next]_all => AllTyped'
  <2> SUFFICES ASSUME AllTyped, [Next]_all PROVE AllTyped'
    OBVIOUS
  <2>1. SaveTyped /\ EditorTypeOK /\ DialogTypeOK /\ FieldsTyped /\ BodyInv /\ BodiesTypeOK
    BY DEF AllTyped
  <2>2. ASSUME [EditorNext]_<<saving, screen>>, UNCHANGED <<dialog, fields, body>> PROVE AllTyped'
    <3>1. SaveTyped' /\ EditorTypeOK'
      BY <2>1, <2>2, EditorStepTyped
    <3>2. DialogTypeOK'
      BY <2>1, <2>2, <3>1 DEF DialogTypeOK, SaveTyped, dialog
    <3>3. FieldsTyped' /\ BodyInv' /\ BodiesTypeOK'
      BY <2>1, <2>2, FieldsStepTyped, BodyStepKeeps, BodiesStepTyped
    <3> QED
      BY <3>1, <3>2, <3>3 DEF AllTyped
  <2>3. ASSUME [DialogNext]_<<saving, dialog>>, UNCHANGED <<screen, fields, body>> PROVE AllTyped'
    <3>1. SaveTyped' /\ DialogTypeOK'
      BY <2>1, <2>3, DialogStepTyped
    <3>2. EditorTypeOK'
      BY <2>1, <2>3, <3>1 DEF EditorTypeOK, SaveTyped, screen
    <3>3. FieldsTyped' /\ BodyInv' /\ BodiesTypeOK'
      BY <2>1, <2>3, FieldsStepTyped, BodyStepKeeps, BodiesStepTyped
    <3> QED
      BY <3>1, <3>2, <3>3 DEF AllTyped
  <2>4. ASSUME [FieldsNext]_fields, [BodiesNext]_body, UNCHANGED <<saving, screen, dialog>> PROVE AllTyped'
    <3>1. SaveTyped' /\ EditorTypeOK'
      BY <2>1, <2>4, EditorStepTyped
    <3>2. DialogTypeOK'
      BY <2>1, <2>4, DialogStepTyped
    <3>3. FieldsTyped' /\ BodyInv' /\ BodiesTypeOK'
      BY <2>1, <2>4, FieldsStepTyped, BodyStepKeeps, BodiesStepTyped
    <3> QED
      BY <3>1, <3>2, <3>3 DEF AllTyped
  <2>5. CASE editor = "screen" /\ EditorNext /\ UNCHANGED <<dialog, fields, body>>
    BY <2>2, <2>5
  <2>6. CASE editor = "dialog" /\ DialogNext /\ UNCHANGED <<screen, fields, body>>
    BY <2>3, <2>6
  <2>7. CASE editor = "fields" /\ FieldsNext /\ UNCHANGED <<saving, screen, dialog, body>>
    BY <2>4, <2>7
  <2>8. CASE editor = "body" /\ BodiesNext /\ UNCHANGED <<saving, screen, dialog, fields>>
    BY <2>4, <2>8
  <2>9. CASE UNCHANGED all
    BY <2>4, <2>9 DEF all
  <2> QED
    BY <2>5, <2>6, <2>7, <2>8, <2>9 DEF Next
<1> QED
  BY <1>1, <1>2, PTL DEF Spec

\* Every copy of the item, every patch, timer and answer is well formed in both editors,
\* the estimate's text is one, and the inputs of a body are as many as its rows.
THEOREM EditorsStayTyped == Spec => []TypeOK
<1>1. AllTyped => TypeOK
  BY DEF AllTyped, TypeOK, FieldsTyped
<1> QED
  BY <1>1, AllTypedHolds, PTL

OnScreen == editor = "screen"
InDialog == editor = "dialog"
OffScreen == editor # "screen"
InNeither == editor \notin {"screen", "dialog"}
Unlocked == ~locked

\* While the user is in one editor, the whole takes the steps of that one.
LEMMA EditorsRun ==
    Spec => /\ OnScreen => EditorSpec
            /\ InDialog => DialogSpec
            /\ FieldsSpec /\ BodiesSpec
<1>1. Init => AutosaveInit /\ EditorInit /\ DialogInit /\ FieldsInit /\ BodiesInit
  BY DEF Init
<1>2. OnScreen /\ [Next]_all => OnScreen' /\ [EditorNext]_<<saving, screen>>
  BY DEF Next, all, OnScreen
<1>3. InDialog /\ [Next]_all => InDialog' /\ [DialogNext]_<<saving, dialog>>
  BY DEF Next, all, InDialog
<1>4. [Next]_all => [FieldsNext]_fields
  BY DEF Next, all
<1>5. [Next]_all => [BodiesNext]_body
  BY DEF Next, all
<1> QED
  BY <1>1, <1>2, <1>3, <1>4, <1>5, PTL DEF Spec, EditorSpec, DialogSpec, FieldsSpec, BodiesSpec

\* The item screen is nobody's while the user is elsewhere, and so is what is saved
\* while the user is in neither editor.
LEMMA UnusedStays ==
    Spec => /\ OffScreen => []Unlocked
            /\ InNeither => []EveryEditAccounted
<1>1. OffScreen /\ Unlocked /\ [Next]_all => OffScreen' /\ Unlocked'
  BY DEF Next, all, screen, OffScreen, Unlocked
<1>2. SaveInv /\ InNeither /\ [Next]_all => SaveInv' /\ InNeither'
  <2>1. InNeither /\ [Next]_all => editor' = editor /\ UNCHANGED saving
    BY DEF Next, all, InNeither
  <2> QED
    BY <2>1, StutterKeepsSaveInv DEF saving, untouched, InNeither
<1>3. Init => SaveInv /\ Unlocked
  BY AutosaveStarts DEF Init, EditorInit, Unlocked
<1> QED
  BY <1>1, <1>2, <1>3, SaveInvAccounts, PTL DEF Spec

\* Both editors, the fields and the bodies as they are run together.
THEOREM EditorsAreSafe ==
    Spec => [](LockedOutNeverWrites /\ EveryEditAccounted /\ BlurKeepsEstimate /\ LastPatchIsWhole)
<1>1. Unlocked => LockedOutNeverWrites
  BY DEF Unlocked, LockedOutNeverWrites
<1>2. OnScreen \/ OffScreen
  BY DEF OnScreen, OffScreen
<1>3. OnScreen \/ InDialog \/ InNeither
  BY DEF OnScreen, InDialog, InNeither
<1>4. Spec => []LockedOutNeverWrites
  BY <1>1, <1>2, EditorsRun, UnusedStays, ReadOnlyScreenIsSilent, PTL
<1>5. Spec => []EveryEditAccounted
  BY <1>3, EditorsRun, UnusedStays, EditorAccountsForEdits, DialogAccountsForEdits, PTL
<1> QED
  BY <1>4, <1>5, EditorsRun, PassingThroughKeepsEstimate, LastPatchCountsAlone, PTL
=============================================================================
