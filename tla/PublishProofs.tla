--------------------------- MODULE PublishProofs ---------------------------
(***************************************************************************)
(* Proofs about Publish, for any number of calls, processes, crashes and   *)
(* attempts.  One lemma per conjunct of the inductive invariant, one step  *)
(* per action in each.                                                     *)
(***************************************************************************)
EXTENDS Publish, TLAPS

USE DEF Nobody, NoTemp, Content, Places, Results, Goto, Answer, Return, Abandon,
        InPlace, callVars, vars

LEMMA KnownEntries ==
  /\ Absent \in Entries
  /\ Foreign \subseteq Entries
  /\ \A w \in Writers, s \in Content : Entry(w, s) \in Entries
  BY DEF Entries

LEMMA EntryFields ==
  /\ \A b, s : Entry(b, s).by = b /\ Entry(b, s).state = s
  /\ Absent.by = Nobody /\ Absent.state = "absent"
  /\ \A f \in Foreign : f.by \notin Writers /\ f # Absent
  /\ \A e \in Entries : e.by \in Writers => e = Entry(e.by, e.state) /\ e.state \in Content
  BY PublishAssumption DEF Entry, Absent, Foreign, Dangling, Entries

LEMMA InitInv == Init => Inv
<1> SUFFICES ASSUME Init PROVE Inv
  OBVIOUS
<1>1. TypeOK
  BY PublishAssumption, KnownEntries DEF Init, TypeOK, TempNames
<1>2. TempsAreOwned /\ Progress
  BY PublishAssumption DEF Init, TempsAreOwned, Progress, CallProgress, Holds, Busy
<1>3. WholeOrNothing
  BY PublishAssumption, EntryFields DEF Init, WholeOrNothing
<1>4. CompleteMeansDone
  BY PublishAssumption, EntryFields DEF Init, CompleteMeansDone
<1>5. QED
  BY <1>1, <1>2, <1>3, <1>4 DEF Inv

(***************************************************************************)
(* What the steps of everything else have in common.                       *)
(***************************************************************************)
\* A restart resets the calls of some processes and touches no other.
LEMMA RestartedCalls ==
  ASSUME TypeOK, NEW P, Restarted(P), NEW w \in Writers
  PROVE  /\ \/ /\ pc'[w] = pc[w] /\ temp'[w] = temp[w]
               /\ written'[w] = written[w] /\ result'[w] = result[w]
            \/ pc'[w] = "check" /\ result'[w] = "none"
  BY DEF TypeOK, Restarted

LEMMA RestartedType ==
  ASSUME TypeOK, NEW P, Restarted(P)
  PROVE  /\ nextId' \in [Processes -> Nat]
         /\ pc' \in [Writers -> Places]
         /\ temp' \in [Writers -> TempNames \cup {NoTemp}]
         /\ tries' \in [Writers -> 0..Attempts]
         /\ written' \in [Writers -> Content]
         /\ result' \in [Writers -> Results]
<1>1. 0 \in 0..Attempts
  BY PublishAssumption
<1>2. QED
  BY <1>1 DEF TypeOK, Restarted

-----------------------------------------------------------------------------
(***************************************************************************)
(* Type correctness.                                                       *)
(***************************************************************************)
LEMMA TypeStep == TypeOK /\ Progress /\ [Next]_vars => TypeOK'
<1> SUFFICES ASSUME TypeOK, Progress, [Next]_vars PROVE TypeOK'
  OBVIOUS
<1> USE PublishAssumption
<1>1. ASSUME NEW w \in Writers, Validate(w) PROVE TypeOK'
  BY <1>1 DEF TypeOK, Validate
<1>2. ASSUME NEW w \in Writers, CreateTemp(w) PROVE TypeOK'
  <2>1. <<Pid(w), nextId[ProcessOf[w]]>> \in TempNames
    BY DEF TypeOK, TempNames, Pid
  <2>2. nextId' \in [Processes -> Nat] /\ dest' = dest /\ written' = written /\ crashes' = crashes
    BY <1>2 DEF TypeOK, CreateTemp
  <2>3. temps' \subseteq TempNames /\ temp' \in [Writers -> TempNames \cup {NoTemp}]
    <3> DEFINE name == <<Pid(w), nextId[ProcessOf[w]]>>
    <3>1. \/ temps' = temps \cup {name} /\ temp' = [temp EXCEPT ![w] = name]
          \/ temps' = temps /\ temp' = temp
      BY <1>2, Zenon DEF CreateTemp
    <3>2. temps \subseteq TempNames /\ temp \in [Writers -> TempNames \cup {NoTemp}]
      BY DEF TypeOK
    <3> HIDE DEF name
    <3>3. name \in TempNames
      BY <2>1 DEF name
    <3>4. QED
      BY <3>1, <3>2, <3>3
  <2>4. pc' \in [Writers -> Places] /\ result' \in [Writers -> Results]
    BY <1>2 DEF TypeOK, CreateTemp
  <2>5. tries' \in [Writers -> 0..Attempts]
    <3>1. tries[w] \in 0..Attempts
      BY DEF TypeOK
    <3>2. CASE tries' = tries
      BY <3>2 DEF TypeOK
    <3>3. CASE tries' = [tries EXCEPT ![w] = @ + 1]
      BY <3>3, <3>1, <1>2 DEF TypeOK, Progress, CallProgress, CreateTemp
    <3>4. QED
      BY <1>2, <3>2, <3>3 DEF CreateTemp
  <2>6. QED
    BY <2>2, <2>3, <2>4, <2>5 DEF TypeOK
<1>3. ASSUME NEW w \in Writers, CreateInPlace(w) PROVE TypeOK'
  BY <1>3, KnownEntries DEF TypeOK, CreateInPlace
<1>4. ASSUME NEW w \in Writers, Write(w) PROVE TypeOK'
  BY <1>4, KnownEntries DEF TypeOK, Write, Fill
<1>5. ASSUME NEW w \in Writers, Sync(w) PROVE TypeOK'
  BY <1>5, KnownEntries DEF TypeOK, Sync, Fill, Synced, NextPlace
<1>6. ASSUME NEW w \in Writers, Recheck(w) PROVE TypeOK'
  BY <1>6 DEF TypeOK, Recheck
<1>7. ASSUME NEW w \in Writers, Rename(w) PROVE TypeOK'
  BY <1>7, KnownEntries DEF TypeOK, Rename
<1>8. ASSUME NEW w \in Writers, Link(w) PROVE TypeOK'
  BY <1>8, KnownEntries DEF TypeOK, Link
<1>9. ASSUME NEW w \in Writers, Cleanup(w) PROVE TypeOK'
  BY <1>9, KnownEntries DEF TypeOK, Cleanup, Cleared
<1>10. ASSUME NEW p \in Processes, Crash(p) PROVE TypeOK'
  <2>1. crashes' \in 0..MaxCrashes /\ dest' = dest /\ temps' = temps
    BY <1>10 DEF TypeOK, Crash
  <2>2. QED
    BY <2>1, <1>10, RestartedType DEF TypeOK, Crash
<1>11. CASE PowerFailure
  <2>1. crashes' \in 0..MaxCrashes /\ temps' \subseteq TempNames
    BY <1>11 DEF TypeOK, PowerFailure
  <2>2. dest' \in Entries
    <3>1. dest.state = "written" => Entry(dest.by, "partial") \in Entries
      BY KnownEntries, EntryFields DEF TypeOK, Entries, Foreign, Dangling, Absent, Entry
    <3>2. QED
      BY <3>1, <1>11, KnownEntries DEF TypeOK, PowerFailure
  <2>3. QED
    BY <2>1, <2>2, <1>11, RestartedType DEF TypeOK, PowerFailure
<1>12. CASE OthersCreate
  BY <1>12, KnownEntries DEF TypeOK, OthersCreate
<1>13. CASE OthersRemove
  BY <1>13, KnownEntries DEF TypeOK, OthersRemove
<1>14. CASE UNCHANGED vars
  BY <1>14 DEF TypeOK
<1>15. QED
  BY <1>1, <1>2, <1>3, <1>4, <1>5, <1>6, <1>7, <1>8, <1>9, <1>10, <1>11, <1>12, <1>13, <1>14
  DEF Next, Call

-----------------------------------------------------------------------------
(***************************************************************************)
(* Ownership of the temporary files.                                       *)
(***************************************************************************)

\* A step that adds no temporary name and changes no call's, and after which no
\* other call holds one than before, keeps the ownership.
LEMMA FewerHolders ==
  ASSUME TypeOK, TempsAreOwned,
         \A w \in Writers : Holds(w)' => Holds(w) /\ temp'[w] = temp[w] /\ temp[w] \in temps'
  PROVE  TempsAreOwned'
  BY DEF TempsAreOwned

LEMMA OwnedStep == TypeOK /\ Progress /\ TempsAreOwned /\ [Next]_vars => TempsAreOwned'
<1> SUFFICES ASSUME TypeOK, Progress, TempsAreOwned, [Next]_vars PROVE TempsAreOwned'
  OBVIOUS
<1> DEFINE Kept(v) == Holds(v)' => Holds(v) /\ temp'[v] = temp[v] /\ temp[v] \in temps'
<1>1. ASSUME NEW w \in Writers, CreateTemp(w) PROVE TempsAreOwned'
  <2> DEFINE name == <<Pid(w), nextId[ProcessOf[w]]>>
  <2>1. \/ /\ name \notin temps /\ pc[w] = "create"
           /\ temps' = temps \cup {name} /\ temp' = [temp EXCEPT ![w] = name]
           /\ pc' = [pc EXCEPT ![w] = "write"]
        \/ temps' = temps /\ temp' = temp /\ (pc' = pc \/ pc' = [pc EXCEPT ![w] = "done"])
    BY <1>1, Zenon DEF CreateTemp, NameTaken
  <2> HIDE DEF name
  <2>2. CASE /\ name \notin temps /\ pc[w] = "create"
             /\ temps' = temps \cup {name} /\ temp' = [temp EXCEPT ![w] = name]
             /\ pc' = [pc EXCEPT ![w] = "write"]
    <3>1. temp'[w] = name /\ temps' = temps \cup {name}
      BY <2>2 DEF TypeOK
    <3>2. \A v \in Writers \ {w} : temp'[v] = temp[v] /\ (Holds(v)' => Holds(v))
      BY <2>2 DEF TypeOK, Holds
    <3>3. \A v \in Writers \ {w} : Holds(v)' => temp[v] \in temps /\ temp'[v] # name
      BY <3>2, <2>2 DEF TempsAreOwned
    <3>4. \A v \in Writers : Holds(v)' => temp'[v] \in temps'
      BY <3>1, <3>2, <3>3
    <3>5. ASSUME NEW u \in Writers, NEW v \in Writers, Holds(u)', Holds(v)', u # v
          PROVE  temp'[u] # temp'[v]
      <4>1. CASE u = w
        BY <4>1, <3>1, <3>3, <3>5
      <4>2. CASE v = w
        BY <4>2, <3>1, <3>3, <3>5
      <4>3. CASE u # w /\ v # w
        BY <4>3, <3>2, <3>5 DEF TempsAreOwned
      <4>4. QED
        BY <4>1, <4>2, <4>3
    <3>6. QED
      BY <3>4, <3>5 DEF TempsAreOwned
  <2>3. CASE temps' = temps /\ temp' = temp /\ (pc' = pc \/ pc' = [pc EXCEPT ![w] = "done"])
    BY <2>3, FewerHolders DEF TypeOK, TempsAreOwned, Holds, Busy
  <2>4. QED
    BY <2>1, <2>2, <2>3
<1>2. ASSUME NEW w \in Writers,
             temp' = temp, temps' = temps \/ temps' = temps \ {temp[w]},
             pc' = pc \/ \E x \in Places : pc' = [pc EXCEPT ![w] = x],
             Holds(w)' => Holds(w) /\ temps' = temps,
             temps' # temps => Holds(w)
      PROVE  TempsAreOwned'
  <2>1. \A v \in Writers \ {w} : pc'[v] = pc[v]
    BY <1>2 DEF TypeOK
  <2>2. ASSUME NEW v \in Writers \ {w} PROVE Kept(v)
    <3>1. Holds(v)' => Holds(v)
      BY <2>1, <2>2 DEF Holds
    <3>2. Holds(v) => temp[v] \in temps'
      BY <1>2, <2>2 DEF TempsAreOwned
    <3>3. QED
      BY <3>1, <3>2, <1>2
  <2>3. Kept(w)
    BY <1>2 DEF TempsAreOwned
  <2>4. QED
    BY <2>2, <2>3, FewerHolders
<1>3. ASSUME NEW w \in Writers, Validate(w) PROVE TempsAreOwned'
  BY <1>3, <1>2 DEF Validate, TypeOK, Holds, Busy
<1>4. ASSUME NEW w \in Writers, CreateInPlace(w) PROVE TempsAreOwned'
  BY <1>4, <1>2 DEF CreateInPlace, TypeOK, Holds, Busy
<1>5. ASSUME NEW w \in Writers, Write(w) PROVE TempsAreOwned'
  BY <1>5, <1>2 DEF Write, TypeOK, Holds, Busy
<1>6. ASSUME NEW w \in Writers, Sync(w) PROVE TempsAreOwned'
  <2>1. NextPlace(w) \in Places
    BY PublishAssumption DEF NextPlace
  <2>2. QED
    BY <1>6, <1>2, <2>1 DEF Sync, TypeOK, Holds, Busy
<1>7. ASSUME NEW w \in Writers, Recheck(w) PROVE TempsAreOwned'
  BY <1>7, <1>2 DEF Recheck, TypeOK, Holds, Busy
<1>8. ASSUME NEW w \in Writers, Rename(w) PROVE TempsAreOwned'
  <2>1. Holds(w)
    BY <1>8 DEF Rename, Progress, CallProgress, Holds, Busy
  <2>2. QED
    BY <1>8, <1>2, <2>1 DEF Rename, TypeOK, Holds, Busy
<1>9. ASSUME NEW w \in Writers, Link(w) PROVE TempsAreOwned'
  BY <1>9, <1>2 DEF Link, TypeOK, Holds, Busy
<1>10. ASSUME NEW w \in Writers, Cleanup(w) PROVE TempsAreOwned'
  <2>1. InPlace(w) => temps' = temps
    <3>1. NoTemp \notin TempNames
      BY DEF TempNames
    <3>2. QED
      BY <3>1, <1>10 DEF Cleanup, Removed, Progress, CallProgress, TypeOK
  <2>2. ~InPlace(w) => Holds(w)
    BY <1>10 DEF Cleanup, Holds, Busy
  <2>3. ~Holds(w)'
    BY <1>10 DEF Cleanup, TypeOK, Holds, Busy
  <2>4. QED
    BY <1>10, <1>2, <2>1, <2>2, <2>3 DEF Cleanup, Removed
<1>11. ASSUME NEW P, Restarted(P), temps' = temps PROVE TempsAreOwned'
  <2>1. ASSUME NEW w \in Writers PROVE Kept(w)
    BY <1>11, <2>1, RestartedCalls DEF Holds, Busy, TempsAreOwned
  <2>2. QED
    BY <2>1, FewerHolders
<1>12. ASSUME NEW p \in Processes, Crash(p) PROVE TempsAreOwned'
  BY <1>12, <1>11 DEF Crash
<1>13. CASE PowerFailure
  <2>1. ASSUME NEW w \in Writers PROVE ~Holds(w)'
    BY <1>13, <2>1, PublishAssumption DEF PowerFailure, Restarted, Holds, Busy, TypeOK
  <2>2. QED
    BY <2>1 DEF TempsAreOwned
<1>14. CASE OthersCreate
  BY <1>14 DEF OthersCreate, TempsAreOwned, Holds
<1>15. CASE OthersRemove
  BY <1>15 DEF OthersRemove, TempsAreOwned, Holds
<1>16. CASE UNCHANGED vars
  BY <1>16 DEF TempsAreOwned, Holds
<1>17. QED
  BY <1>1, <1>3, <1>4, <1>5, <1>6, <1>7, <1>8, <1>9, <1>10, <1>12, <1>13, <1>14, <1>15, <1>16
  DEF Next, Call

-----------------------------------------------------------------------------
(***************************************************************************)
(* Progress and completeness.                                              *)
(***************************************************************************)
\* A step of one call leaves the others where they are.
LEMMA OthersUntouched ==
  ASSUME TypeOK, NEW w \in Writers, Call(w), NEW v \in Writers \ {w}
  PROVE  /\ pc'[v] = pc[v] /\ temp'[v] = temp[v] /\ tries'[v] = tries[v]
         /\ written'[v] = written[v] /\ result'[v] = result[v]
<1> USE DEF TypeOK
<1>1. CASE Validate(w)
  BY <1>1 DEF Validate
<1>2. CASE CreateTemp(w)
  BY <1>2 DEF CreateTemp
<1>3. CASE CreateInPlace(w)
  BY <1>3 DEF CreateInPlace
<1>4. CASE Write(w)
  BY <1>4 DEF Write, Fill
<1>5. CASE Sync(w)
  BY <1>5 DEF Sync, Fill
<1>6. CASE Recheck(w)
  BY <1>6 DEF Recheck
<1>7. CASE Rename(w)
  BY <1>7 DEF Rename
<1>8. CASE Link(w)
  BY <1>8 DEF Link
<1>9. CASE Cleanup(w)
  BY <1>9 DEF Cleanup
<1>10. QED
  BY <1>1, <1>2, <1>3, <1>4, <1>5, <1>6, <1>7, <1>8, <1>9 DEF Call

LEMMA ProgressStep == TypeOK /\ Progress /\ [Next]_vars => Progress'
<1> SUFFICES ASSUME TypeOK, Progress, [Next]_vars PROVE Progress'
  OBVIOUS
<1>1. ASSUME NEW w \in Writers, Call(w) PROVE Progress'
  <2> USE PublishAssumption DEF TypeOK, CallProgress
  <2>0. CallProgress(w)
    BY DEF Progress
  <2>1. ASSUME Validate(w) PROVE CallProgress(w)'
    BY <2>0, <2>1 DEF Validate
  <2>2. ASSUME CreateTemp(w) PROVE CallProgress(w)'
    BY <2>0, <2>2 DEF CreateTemp, LastTry
  <2>3. ASSUME CreateInPlace(w) PROVE CallProgress(w)'
    BY <2>0, <2>3 DEF CreateInPlace
  <2>4. ASSUME Write(w) PROVE CallProgress(w)'
    BY <2>0, <2>4 DEF Write, Fill
  <2>5. ASSUME Sync(w) PROVE CallProgress(w)'
    BY <2>0, <2>5 DEF Sync, Fill, Synced, NextPlace
  <2>6. ASSUME Recheck(w) PROVE CallProgress(w)'
    BY <2>0, <2>6 DEF Recheck
  <2>7. ASSUME Rename(w) PROVE CallProgress(w)'
    BY <2>0, <2>7 DEF Rename
  <2>8. ASSUME Link(w) PROVE CallProgress(w)'
    BY <2>0, <2>8 DEF Link
  <2>9. ASSUME Cleanup(w) PROVE CallProgress(w)'
    BY <2>0, <2>9 DEF Cleanup
  <2>10. CallProgress(w)'
    BY <1>1, <2>1, <2>2, <2>3, <2>4, <2>5, <2>6, <2>7, <2>8, <2>9 DEF Call
  <2>11. ASSUME NEW v \in Writers \ {w} PROVE CallProgress(v)'
    BY <1>1, <2>11, OthersUntouched DEF Progress
  <2>12. QED
    BY <2>10, <2>11 DEF Progress
<1>2. ASSUME NEW P, Restarted(P) PROVE Progress'
  BY <1>2, PublishAssumption DEF TypeOK, Restarted, Progress, CallProgress
<1>3. ASSUME UNCHANGED callVars PROVE Progress'
  BY <1>3 DEF Progress, CallProgress
<1>4. QED
  BY <1>1, <1>2, <1>3 DEF Next, Crash, PowerFailure, OthersCreate, OthersRemove

LEMMA WholeStep == TypeOK /\ Progress /\ WholeOrNothing /\ [Next]_vars => WholeOrNothing'
<1> SUFFICES ASSUME TypeOK, Progress, WholeOrNothing, [Next]_vars PROVE WholeOrNothing'
  OBVIOUS
<1> USE PublishAssumption, EntryFields DEF WholeOrNothing
<1>1. ASSUME NEW w \in Writers, CreateInPlace(w) PROVE WholeOrNothing'
  BY <1>1 DEF CreateInPlace
<1>2. ASSUME NEW w \in Writers, Write(w) \/ Sync(w) PROVE WholeOrNothing'
  BY <1>2 DEF Write, Sync, Fill
<1>3. ASSUME NEW w \in Writers, Rename(w) PROVE WholeOrNothing'
  BY <1>3 DEF Rename, Progress, CallProgress
<1>4. ASSUME NEW w \in Writers, Link(w) PROVE WholeOrNothing'
  BY <1>4 DEF Link, Progress, CallProgress
<1>5. ASSUME NEW w \in Writers, Cleanup(w) PROVE WholeOrNothing'
  BY <1>5 DEF Cleanup, Cleared
<1>6. CASE PowerFailure
  BY <1>6 DEF PowerFailure
<1>7. CASE OthersCreate
  BY <1>7 DEF OthersCreate
<1>8. CASE OthersRemove
  BY <1>8 DEF OthersRemove
<1>9. CASE dest' = dest
  BY <1>9
<1>10. QED
  BY <1>1, <1>2, <1>3, <1>4, <1>5, <1>6, <1>7, <1>8, <1>9
  DEF Next, Call, Validate, CreateTemp, Recheck, Crash

LEMMA CompleteStep == Inv /\ [Next]_vars => CompleteMeansDone'
<1> SUFFICES ASSUME Inv, [Next]_vars PROVE CompleteMeansDone'
  OBVIOUS
<1> USE PublishAssumption, EntryFields DEF CompleteMeansDone, InPlace
<1>1. pc \in [Writers -> Places] /\ CompleteMeansDone
  BY DEF Inv, TypeOK
<1>2. ASSUME NEW w \in Writers, CreateInPlace(w) PROVE CompleteMeansDone'
  BY <1>1, <1>2 DEF CreateInPlace, Return, Answer, Goto
<1>3. ASSUME NEW w \in Writers, Write(w) PROVE CompleteMeansDone'
  BY <1>1, <1>3 DEF Write, Fill, Abandon, Answer, Goto
<1>4. ASSUME NEW w \in Writers, Sync(w) PROVE CompleteMeansDone'
  BY <1>1, <1>4 DEF Sync, Fill, Synced, NextPlace, Abandon, Answer, Goto
<1>5. ASSUME NEW w \in Writers, Rename(w) PROVE CompleteMeansDone'
  BY <1>1, <1>5 DEF Rename, Return, Abandon, Answer, Goto, Inv, Progress, CallProgress
<1>6. ASSUME NEW w \in Writers, Link(w) PROVE CompleteMeansDone'
  BY <1>1, <1>6 DEF Link, Abandon, Answer, Goto, Inv, Progress, CallProgress
<1>7. ASSUME NEW w \in Writers, Cleanup(w) PROVE CompleteMeansDone'
  BY <1>1, <1>7 DEF Cleanup, Cleared, Goto
<1>8. ASSUME NEW P, Restarted(P), dest' = dest \/ dest'.state # "synced"
      PROVE  CompleteMeansDone'
  BY <1>1, <1>8 DEF Restarted
<1>9. CASE PowerFailure
  BY <1>8, <1>9 DEF PowerFailure
<1>10. CASE OthersCreate
  BY <1>10 DEF OthersCreate
<1>11. CASE OthersRemove
  BY <1>11 DEF OthersRemove
<1>12. ASSUME NEW w \in Writers, Validate(w) \/ CreateTemp(w) \/ Recheck(w)
       PROVE  CompleteMeansDone'
  BY <1>1, <1>12 DEF Validate, CreateTemp, Recheck, Return, Abandon, Answer, Goto
<1>13. ASSUME NEW p \in Processes, Crash(p) PROVE CompleteMeansDone'
  BY <1>8, <1>13 DEF Crash
<1>14. CASE UNCHANGED vars
  BY <1>1, <1>14 DEF vars, callVars
<1>15. QED
  BY <1>2, <1>3, <1>4, <1>5, <1>6, <1>7, <1>9, <1>10, <1>11, <1>12, <1>13, <1>14
  DEF Next, Call

LEMMA InvStep == Inv /\ [Next]_vars => Inv'
  BY TypeStep, OwnedStep, ProgressStep, WholeStep, CompleteStep DEF Inv

\* The inductive invariant holds, however many calls, processes and crashes.
THEOREM InvCorrect == Spec => []Inv
  BY InitInv, InvStep, PTL DEF Spec

\* The variables of Publish keep their types; a call never tries more names
\* than `create_temporary_file' allows itself (writer.rs:936).
THEOREM TypeCorrect == Spec => []TypeOK
  BY InvCorrect, PTL DEF Inv

\* No two calls ever share a temporary file (writer.rs:936-948).
THEOREM TempsOwned == Spec => []TempsAreOwned
  BY InvCorrect, PTL DEF Inv

\* A destination published through a temporary file is whole, after crashes and
\* power failures too (writer.rs:58-59).
THEOREM WholeArtifacts == Spec => []WholeOrNothing
  BY InvCorrect, PTL DEF Inv

-----------------------------------------------------------------------------
(***************************************************************************)
(* What is left behind as long as nobody has died.                         *)
(***************************************************************************)

\* The temporary files of the calls that hold one.
HeldTemps == {temp[w] : w \in {v \in Writers : Holds(v)}}

\* A step of call w after which it still holds what it held, if anything.
LEMMA SameHolders ==
  ASSUME Inv, NEW w \in Writers, temp' = temp,
         pc' = pc \/ \E x \in Places : pc' = [pc EXCEPT ![w] = x], Holds(w)' <=> Holds(w)
  PROVE  HeldTemps' = HeldTemps
<1>1. \A v \in Writers : Holds(v)' <=> Holds(v)
  BY DEF Inv, TypeOK, Holds
<1>2. QED
  BY <1>1 DEF HeldTemps

\* A step with which call w lets its temporary file go: no other call's.
LEMMA HolderLeaves ==
  ASSUME Inv, NEW w \in Writers, temp' = temp, Holds(w), ~Holds(w)',
         NEW place \in Places, Goto(w, place)
  PROVE  HeldTemps' = HeldTemps \ {temp[w]}
<1>1. \A v \in Writers \ {w} : (Holds(v)' <=> Holds(v)) /\ (Holds(v) => temp[v] # temp[w])
  BY DEF Inv, TypeOK, TempsAreOwned, Holds
<1>2. QED
  BY <1>1 DEF HeldTemps

LEMMA NoTempStep ==
  ASSUME Inv, [Next]_vars, crashes = 0, crashes' = 0, temps = HeldTemps
  PROVE  temps' = HeldTemps'
<1> USE DEF Inv
<1>1. ASSUME NEW w \in Writers, CreateTemp(w) PROVE temps' = HeldTemps'
  <2> DEFINE name == <<Pid(w), nextId[ProcessOf[w]]>>
  <2>1. pc[w] = "create" /\ ~Holds(w) /\ ~InPlace(w)
    BY <1>1 DEF CreateTemp, Holds, Busy
  <2>2. \/ /\ temps' = temps \cup {name} /\ temp' = [temp EXCEPT ![w] = name]
           /\ pc' = [pc EXCEPT ![w] = "write"]
        \/ temps' = temps /\ temp' = temp /\ (pc' = pc \/ pc' = [pc EXCEPT ![w] = "done"])
    BY <1>1, Zenon DEF CreateTemp, NameTaken
  <2> HIDE DEF name
  <2>3. CASE /\ temps' = temps \cup {name} /\ temp' = [temp EXCEPT ![w] = name]
             /\ pc' = [pc EXCEPT ![w] = "write"]
    <3>1. temp'[w] = name /\ Holds(w)'
      BY <2>1, <2>3 DEF TypeOK, Holds, Busy
    <3>2. \A v \in Writers \ {w} : temp'[v] = temp[v] /\ (Holds(v)' <=> Holds(v))
      BY <2>3 DEF TypeOK, Holds
    <3>3. HeldTemps' = HeldTemps \cup {name}
      BY <2>1, <3>1, <3>2 DEF HeldTemps
    <3>4. QED
      BY <2>3, <3>3
  <2>4. CASE temps' = temps /\ temp' = temp /\ (pc' = pc \/ pc' = [pc EXCEPT ![w] = "done"])
    <3>1. ~Holds(w)'
      BY <2>1, <2>4 DEF TypeOK, Holds, Busy
    <3>2. QED
      BY <2>1, <2>4, <3>1, SameHolders
  <2>5. QED
    BY <2>2, <2>3, <2>4
<1>2. ASSUME NEW w \in Writers, Validate(w) \/ CreateInPlace(w) \/ Recheck(w) \/ Link(w)
      PROVE  temps' = HeldTemps'
  <2>1. /\ temps' = temps /\ temp' = temp
        /\ pc' = pc \/ \E x \in Places : pc' = [pc EXCEPT ![w] = x]
    BY <1>2 DEF Validate, CreateInPlace, Recheck, Link
  <2>2. Holds(w)' <=> Holds(w)
    BY <1>2 DEF Validate, CreateInPlace, Recheck, Link, TypeOK, Holds, Busy
  <2>3. QED
    BY <2>1, <2>2, SameHolders
<1>3. ASSUME NEW w \in Writers, Write(w) \/ Sync(w) PROVE temps' = HeldTemps'
  <2>1. NextPlace(w) \in Places /\ (~InPlace(w) => NextPlace(w) \in Busy)
    BY PublishAssumption DEF NextPlace, Busy
  <2>2. /\ temps' = temps /\ temp' = temp
        /\ \E x \in Places : pc' = [pc EXCEPT ![w] = x]
    BY <1>3, <2>1 DEF Write, Sync
  <2>3. Holds(w)' <=> Holds(w)
    BY <1>3, <2>1 DEF Write, Sync, TypeOK, Holds, Busy
  <2>4. QED
    BY <2>2, <2>3, SameHolders
<1>4. ASSUME NEW w \in Writers, Rename(w) PROVE temps' = HeldTemps'
  <2>1. Holds(w)
    BY <1>4 DEF Rename, Progress, CallProgress, Holds, Busy
  <2>2. CASE temps' = temps \ {temp[w]} /\ Goto(w, "done") /\ temp' = temp
    <3>1. ~Holds(w)'
      BY <2>2 DEF TypeOK, Holds, Busy
    <3>2. QED
      BY <2>1, <2>2, <3>1, HolderLeaves
  <2>3. CASE temps' = temps /\ Goto(w, "cleanup") /\ temp' = temp
    <3>1. Holds(w)'
      BY <2>1, <2>3 DEF TypeOK, Holds, Busy
    <3>2. QED
      BY <2>1, <2>3, <3>1, SameHolders
  <2>4. QED
    BY <1>4, <2>2, <2>3 DEF Rename
<1>5. ASSUME NEW w \in Writers, Cleanup(w) PROVE temps' = HeldTemps'
  <2>1. /\ pc[w] = "cleanup" /\ Goto(w, "done") /\ temp' = temp
        /\ temps' = temps \ {temp[w]} /\ ~Holds(w)'
    BY <1>5 DEF Cleanup, Removed, TypeOK, Holds, Busy
  <2>2. CASE InPlace(w)
    <3>1. NoTemp \notin TempNames
      BY DEF TempNames
    <3>2. temp[w] = NoTemp /\ temps \subseteq TempNames
      BY <2>2 DEF Progress, CallProgress, TypeOK
    <3>3. temps' = temps
      BY <2>1, <3>1, <3>2
    <3>4. QED
      BY <2>1, <2>2, <3>3, SameHolders DEF Holds
  <2>3. CASE ~InPlace(w)
    BY <2>1, <2>3, HolderLeaves DEF Holds, Busy
  <2>4. QED
    BY <2>2, <2>3
<1>6. CASE OthersCreate \/ OthersRemove \/ UNCHANGED vars
  BY <1>6 DEF OthersCreate, OthersRemove, HeldTemps, Holds
<1>7. ~PowerFailure /\ \A p \in Processes : ~Crash(p)
  BY DEF PowerFailure, Crash
<1>8. QED
  BY <1>1, <1>2, <1>3, <1>4, <1>5, <1>6, <1>7 DEF Next, Call

LEMMA PartialStep ==
  ASSUME Inv, PartialMeansRunning, [Next]_vars
  PROVE  PartialMeansRunning'
<1> SUFFICES ASSUME dest'.by \in Writers, dest'.state = "partial", crashes' = 0
             PROVE  pc'[dest'.by] \in {"write", "cleanup"}
  BY DEF PartialMeansRunning
<1> USE PublishAssumption, EntryFields
<1>1. pc \in [Writers -> Places] /\ crashes \in Nat
  BY DEF Inv, TypeOK
<1>2. ASSUME NEW w \in Writers, Validate(w) \/ CreateTemp(w) \/ Recheck(w)
      PROVE  pc'[dest'.by] \in {"write", "cleanup"}
  <2>1. /\ dest' = dest /\ crashes' = crashes /\ pc[w] \notin {"write", "cleanup"}
        /\ \A v \in Writers \ {w} : pc'[v] = pc[v]
    BY <1>1, <1>2 DEF Validate, CreateTemp, Recheck
  <2>2. QED
    BY <2>1 DEF PartialMeansRunning
<1>3. ASSUME NEW w \in Writers, CreateInPlace(w)
      PROVE  pc'[dest'.by] \in {"write", "cleanup"}
  BY <1>1, <1>3 DEF CreateInPlace, PartialMeansRunning
<1>4. ASSUME NEW w \in Writers, Write(w)
      PROVE  pc'[dest'.by] \in {"write", "cleanup"}
  <2>1. /\ crashes' = crashes /\ \A v \in Writers \ {w} : pc'[v] = pc[v]
        /\ \/ Fill(w, "written") /\ pc'[w] = "sync"
           \/ dest' = dest /\ pc'[w] = "cleanup"
    BY <1>1, <1>4 DEF Write
  <2>2. ASSUME Fill(w, "written") PROVE dest'.by # w /\ dest' = dest
    <3>1. dest.by = w /\ InPlace(w) => dest'.state = "written"
      BY <2>2 DEF Fill
    <3>2. ~(dest.by = w /\ InPlace(w)) /\ dest' = dest
      BY <2>2, <3>1 DEF Fill
    <3>3. QED
      BY <3>2 DEF Inv, WholeOrNothing
  <2>3. QED
    BY <2>1, <2>2 DEF PartialMeansRunning
<1>5. ASSUME NEW w \in Writers, Sync(w)
      PROVE  pc'[dest'.by] \in {"write", "cleanup"}
  <2>1. /\ crashes' = crashes /\ \A v \in Writers \ {w} : pc'[v] = pc[v]
        /\ pc[w] = "sync" /\ (Fill(w, "synced") \/ dest' = dest)
    BY <1>1, <1>5 DEF Sync, Synced
  <2>2. dest' = dest
    BY <2>1 DEF Fill
  <2>3. QED
    BY <2>1, <2>2 DEF PartialMeansRunning
<1>6. ASSUME NEW w \in Writers, Rename(w) \/ Link(w)
      PROVE  pc'[dest'.by] \in {"write", "cleanup"}
  <2>1. /\ crashes' = crashes /\ \A v \in Writers \ {w} : pc'[v] = pc[v]
        /\ pc[w] \in {"rename", "link"} /\ dest' \in {dest, Entry(w, written[w])}
    BY <1>1, <1>6 DEF Rename, Link
  <2>2. dest' = dest
    BY <2>1 DEF Inv, Progress, CallProgress
  <2>3. QED
    BY <2>1, <2>2 DEF PartialMeansRunning
<1>7. ASSUME NEW w \in Writers, Cleanup(w)
      PROVE  pc'[dest'.by] \in {"write", "cleanup"}
  <2>1. /\ crashes' = crashes /\ \A v \in Writers \ {w} : pc'[v] = pc[v]
        /\ dest' = dest /\ ~InPlace(w)
    BY <1>1, <1>7 DEF Cleanup, Cleared
  <2>2. dest.by # w
    BY <2>1 DEF Inv, WholeOrNothing
  <2>3. QED
    BY <2>1, <2>2 DEF PartialMeansRunning
<1>8. CASE OthersCreate \/ OthersRemove \/ UNCHANGED vars
  BY <1>8 DEF OthersCreate, OthersRemove, PartialMeansRunning
<1>9. ~PowerFailure /\ \A p \in Processes : ~Crash(p)
  BY <1>1 DEF PowerFailure, Crash
<1>10. QED
  BY <1>2, <1>3, <1>4, <1>5, <1>6, <1>7, <1>8, <1>9 DEF Next, Call

\* Calls that nobody cut short leave no temporary file and no incomplete
\* destination (writer.rs:976-997, gguf_writer.rs:251-258).
THEOREM NothingIsLeft == Spec => []NothingLeftBehind
<1>1. Init => NothingLeftBehind
  BY PublishAssumption, EntryFields
  DEF Init, NothingLeftBehind, NoTempLeft, PartialMeansRunning, Holds, Busy
<1>2. Inv /\ NothingLeftBehind /\ [Next]_vars => NothingLeftBehind'
  <2> SUFFICES ASSUME Inv, NothingLeftBehind, [Next]_vars PROVE NothingLeftBehind'
    OBVIOUS
  <2>1. crashes' = 0 => crashes = 0
    <3>1. crashes \in Nat
      BY PublishAssumption DEF Inv, TypeOK
    <3>2. crashes' = crashes \/ crashes' = crashes + 1
      BY DEF Next, Call, Validate, CreateTemp, CreateInPlace, Write, Sync, Recheck,
             Rename, Link, Cleanup, Crash, PowerFailure, OthersCreate, OthersRemove
    <3>3. QED
      BY <3>1, <3>2
  <2>2. NoTempLeft'
    BY <2>1, NoTempStep DEF NothingLeftBehind, NoTempLeft, HeldTemps
  <2>3. QED
    BY <2>2, PartialStep DEF NothingLeftBehind
<1>3. QED
  BY <1>1, <1>2, InvCorrect, PTL DEF Spec

-----------------------------------------------------------------------------
(***************************************************************************)
(* Replacement.                                                            *)
(***************************************************************************)

\* Whoever publishes without a rename never replaces an artifact
\* (writer.rs:305-315, gguf_writer.rs:235-249).
THEOREM OnlyRenamesReplace ==
  ASSUME \A w \in Writers : Protocol[w] # "rename"
  PROVE  Spec => NeverReplaced
<1>1. ASSUME Inv, [Next]_vars
      PROVE  [dest.state \in Content => dest'.by \in {dest.by, Nobody}]_vars
  <2> SUFFICES ASSUME dest.state \in Content PROVE dest'.by \in {dest.by, Nobody}
    OBVIOUS
  <2> USE EntryFields
  <2>1. ASSUME NEW w \in Writers, CreateInPlace(w) PROVE dest' = dest
    BY <2>1 DEF CreateInPlace, Taken
  <2>2. ASSUME NEW w \in Writers, Write(w) \/ Sync(w) PROVE dest'.by = dest.by
    BY <2>2 DEF Write, Sync, Fill
  <2>3. ASSUME NEW w \in Writers, Rename(w) PROVE FALSE
    BY <1>1, <2>3 DEF Rename, Inv, Progress, CallProgress
  <2>4. ASSUME NEW w \in Writers, Link(w) PROVE dest' = dest
    BY <2>4 DEF Link, Taken
  <2>5. ASSUME NEW w \in Writers, Cleanup(w) PROVE dest'.by \in {dest.by, Nobody}
    BY <2>5 DEF Cleanup, Cleared
  <2>6. CASE PowerFailure
    BY <2>6 DEF PowerFailure
  <2>7. CASE OthersCreate
    BY <2>7 DEF OthersCreate
  <2>8. CASE OthersRemove
    BY <2>8 DEF OthersRemove
  <2>9. QED
    BY <1>1, <2>1, <2>2, <2>3, <2>4, <2>5, <2>6, <2>7, <2>8
    DEF Next, Call, Validate, CreateTemp, Recheck, Crash
<1>2. QED
  BY <1>1, InvCorrect, PTL DEF Spec, NeverReplaced

\* The protocols implement AtomicPublish, whatever mix of them is at work.
THEOREM ProtocolsImplement == Spec => AtomicSpec
<1> DEFINE verdict == [w \in Writers |-> Verdict(result[w])]
           Drafters == {w \in Writers : InPlace(w)}
           ArtifactOf == [w \in Writers |-> Entry(w, "synced")]
           DraftOf == [w \in Writers |-> Draft(w)]
<1>1. Init => Atomic!Init
  <2> SUFFICES ASSUME Init PROVE Atomic!Init
    OBVIOUS
  <2>1. Artifact \in Foreign \cup {Absent}
    BY PublishAssumption, EntryFields DEF Init, Artifact
  <2>2. verdict = [w \in Writers |-> "pending"]
    BY DEF Init, Verdict
  <2>3. QED
    BY <2>1, <2>2 DEF Atomic!Init
<1>2. ASSUME Inv, [Next]_vars PROVE [Atomic!Next]_(Atomic!publishVars)
  <2> USE DEF Atomic!publishVars
  <2>1. /\ dest.by \in Writers /\ ~InPlace(dest.by) => dest.state = "synced"
        /\ result \in [Writers -> Results] /\ dest \in Entries
    BY <1>2 DEF Inv, WholeOrNothing, TypeOK
  <2>2. ASSUME dest' = dest, result' = result
        PROVE  Artifact' = Artifact /\ verdict' = verdict
    BY <2>2 DEF Artifact
  <2>3. ASSUME NEW w \in Writers, pc[w] \notin {"cleanup", "done"}
        PROVE  result[w] = "none" /\ verdict[w] = "pending"
    BY <1>2, <2>3 DEF Inv, Progress, CallProgress, Verdict
  <2>4. ASSUME NEW w \in Writers, NEW r \in {"DestinationExists", "error"},
               dest' = dest, pc[w] \notin {"cleanup", "done"}, Answer(w, r)
        PROVE  Atomic!Next
    <3>1. verdict[w] = "pending" /\ verdict' = [verdict EXCEPT ![w] = "error"]
      BY <2>1, <2>3, <2>4 DEF Answer, Verdict
    <3>2. Artifact' = Artifact
      BY <2>4 DEF Artifact
    <3>3. Atomic!Fail(w)
      BY <3>1, <3>2 DEF Atomic!Fail
    <3>4. QED
      BY <3>3 DEF Atomic!Next
  <2>5. ASSUME NEW w \in Writers, pc[w] \notin {"cleanup", "done"}, Answer(w, "ok")
        PROVE  Atomic!Succeed(w)
    BY <2>1, <2>3, <2>5 DEF Answer, Verdict, Atomic!Succeed
  <2>6. ASSUME NEW w \in Writers, Validate(w) \/ CreateTemp(w) \/ Recheck(w)
        PROVE  Atomic!Next \/ (dest' = dest /\ result' = result)
    <3>1. /\ dest' = dest
          /\ \/ result' = result
             \/ /\ pc[w] \notin {"cleanup", "done"}
                /\ Answer(w, "DestinationExists") \/ Answer(w, "error")
      BY <2>6 DEF Validate, CreateTemp, Recheck, Return, Abandon, LastTry
    <3>2. QED
      BY <2>4, <3>1
  <2>7. ASSUME NEW w \in Writers, CreateInPlace(w) PROVE Atomic!Next
    <3>1. CASE ~Taken /\ dest' = Entry(w, "partial") /\ result' = result
      <4>1. Artifact = Absent
        BY <2>1, <3>1, PublishAssumption, EntryFields
        DEF Artifact, Taken, Entries, Foreign, Dangling, Absent, Entry
      <4>2. Artifact' = DraftOf[w] /\ w \in Drafters
        BY <2>7, <3>1, EntryFields DEF Artifact, Draft, CreateInPlace
      <4>3. verdict[w] = "pending" /\ verdict' = verdict
        BY <2>3, <2>7, <3>1 DEF CreateInPlace
      <4>4. Atomic!Begin(w)
        BY <4>1, <4>2, <4>3 DEF Atomic!Begin
      <4>5. QED
        BY <4>4 DEF Atomic!Next
    <3>2. CASE dest' = dest /\ (Return(w, "DestinationExists") \/ Return(w, "error"))
      BY <2>4, <2>7, <3>2 DEF CreateInPlace, Return
    <3>3. QED
      BY <2>7, <3>1, <3>2 DEF CreateInPlace
  <2>8. ASSUME NEW w \in Writers, Write(w)
        PROVE  Atomic!Next \/ (Artifact' = Artifact /\ verdict' = verdict)
    <3>1. CASE Fill(w, "written") /\ result' = result
      <4>1. CASE InPlace(w) /\ dest.by = w
        <5>1. dest.state # "synced"
          BY <1>2, <2>8, <4>1 DEF Write, Inv, CompleteMeansDone
        <5>2. QED
          BY <3>1, <4>1, <5>1, EntryFields DEF Fill, Artifact, Draft
      <4>2. CASE ~(InPlace(w) /\ dest.by = w)
        BY <2>2, <3>1, <4>2 DEF Fill
      <4>3. QED
        BY <4>1, <4>2
    <3>2. CASE Abandon(w, "error") /\ dest' = dest
      BY <2>4, <2>8, <3>2 DEF Write, Abandon
    <3>3. QED
      BY <2>8, <3>1, <3>2 DEF Write
  <2>9. ASSUME NEW w \in Writers, Sync(w)
        PROVE  Atomic!Next \/ (dest' = dest /\ result' = result)
    <3>1. CASE Fill(w, "synced") /\ InPlace(w) /\ Answer(w, "ok")
      <4>1. Atomic!Succeed(w)
        BY <2>5, <2>9, <3>1 DEF Sync
      <4>2. CASE dest.by = w
        <5>1. dest.state # "synced"
          BY <1>2, <2>9, <3>1, <4>2 DEF Sync, Inv, CompleteMeansDone
        <5>2. Artifact = DraftOf[w] /\ Artifact' = ArtifactOf[w]
          BY <3>1, <4>2, <5>1, EntryFields DEF Fill, Artifact, Draft
        <5>3. Atomic!Finish(w)
          BY <3>1, <4>1, <5>2 DEF Atomic!Finish
        <5>4. QED
          BY <5>3 DEF Atomic!Next
      <4>3. CASE dest.by # w
        <5>1. Artifact' = Artifact
          BY <3>1, <4>3 DEF Fill, Artifact
        <5>2. Artifact # DraftOf[w]
          BY <2>1, <4>3, EntryFields DEF Artifact, Draft
        <5>3. Atomic!Finish(w)
          BY <3>1, <4>1, <5>1, <5>2 DEF Atomic!Finish
        <5>4. QED
          BY <5>3 DEF Atomic!Next
      <4>4. QED
        BY <4>2, <4>3
    <3>2. CASE Fill(w, "synced") /\ ~InPlace(w) /\ result' = result
      BY <3>2 DEF Fill
    <3>3. CASE Abandon(w, "error") /\ dest' = dest
      BY <2>4, <2>9, <3>3 DEF Sync, Abandon
    <3>4. QED
      BY <2>9, <3>1, <3>2, <3>3 DEF Sync, Synced
  <2>10. ASSUME NEW w \in Writers, Rename(w) PROVE Atomic!Next
    <3>1. CASE dest' = Entry(w, written[w]) /\ Return(w, "ok")
      <4>1. Protocol[w] = "rename" /\ written[w] = "synced" /\ w \notin Drafters
        BY <1>2, <2>10 DEF Rename, Inv, Progress, CallProgress, InPlace
      <4>2. Artifact' = ArtifactOf[w]
        BY <3>1, <4>1, EntryFields DEF Artifact
      <4>3. Atomic!Succeed(w)
        BY <2>5, <2>10, <3>1 DEF Rename, Return
      <4>4. Atomic!Publish(w)
        BY <4>1, <4>2, <4>3 DEF Atomic!Publish
      <4>5. QED
        BY <4>4 DEF Atomic!Next
    <3>2. CASE Abandon(w, "error") /\ dest' = dest
      BY <2>4, <2>10, <3>2 DEF Rename, Abandon
    <3>3. QED
      BY <2>10, <3>1, <3>2 DEF Rename
  <2>11. ASSUME NEW w \in Writers, Link(w) PROVE Atomic!Next
    <3>1. CASE ~Taken /\ dest' = Entry(w, written[w]) /\ Abandon(w, "ok")
      <4>1. written[w] = "synced" /\ w \notin Drafters
        BY <1>2, <2>11 DEF Link, Inv, Progress, CallProgress, InPlace
      <4>2. Artifact = Absent
        BY <2>1, <3>1, PublishAssumption, EntryFields
        DEF Artifact, Taken, Entries, Foreign, Dangling, Absent, Entry
      <4>3. Artifact' = ArtifactOf[w]
        BY <3>1, <4>1, EntryFields DEF Artifact
      <4>4. Atomic!Succeed(w)
        BY <2>5, <2>11, <3>1 DEF Link, Abandon
      <4>5. Atomic!Publish(w)
        BY <4>1, <4>2, <4>3, <4>4 DEF Atomic!Publish
      <4>6. QED
        BY <4>5 DEF Atomic!Next
    <3>2. CASE dest' = dest /\ (Abandon(w, "DestinationExists") \/ Abandon(w, "error"))
      BY <2>4, <2>11, <3>2 DEF Link, Abandon
    <3>3. QED
      BY <2>11, <3>1, <3>2 DEF Link
  <2>12. ASSUME Artifact' \in {Artifact, Absent}, verdict' = verdict
         PROVE  Atomic!Next \/ (Artifact' = Artifact /\ verdict' = verdict)
    BY <2>12 DEF Atomic!Others, Atomic!Next
  <2>13. ASSUME NEW w \in Writers, Cleanup(w)
         PROVE  Atomic!Next \/ (Artifact' = Artifact /\ verdict' = verdict)
    <3>1. dest' = dest \/ dest' = Absent
      BY <2>13 DEF Cleanup, Cleared
    <3>2. Artifact' \in {Artifact, Absent}
      BY <3>1, PublishAssumption, EntryFields DEF Artifact
    <3>3. QED
      BY <2>12, <2>13, <3>2 DEF Cleanup
  <2>14. ASSUME NEW P, Restarted(P), Artifact' \in {Artifact, Absent}
         PROVE  Atomic!Next
    <3>1. ASSUME NEW w \in Writers PROVE verdict'[w] \in {verdict[w], "pending"}
      BY <1>2, <2>14, RestartedCalls DEF Inv, Verdict
    <3>2. verdict' \in [Writers -> {"pending", "ok", "error"}]
      BY DEF Verdict
    <3>3. Atomic!Restart
      BY <2>14, <3>1, <3>2 DEF Atomic!Restart
    <3>4. QED
      BY <3>3 DEF Atomic!Next
  <2>15. CASE PowerFailure
    <3>1. Artifact' \in {Artifact, Absent}
      <4>1. CASE dest' = Absent
        BY <4>1, EntryFields, PublishAssumption DEF Artifact
      <4>2. CASE dest' = dest
        BY <4>2 DEF Artifact
      <4>3. CASE dest.state = "written" /\ dest' = Entry(dest.by, "partial")
        <5>1. dest.by \in Writers
          BY <2>1, <4>3 DEF Entries, Foreign, Dangling, Absent, Entry
        <5>2. Artifact = Draft(dest.by)
          BY <4>3, <5>1 DEF Artifact
        <5>3. Artifact' = Draft(dest.by)
          BY <4>3, <5>1, EntryFields DEF Artifact, Draft
        <5>4. QED
          BY <5>2, <5>3
      <4>4. QED
        BY <2>15, <4>1, <4>2, <4>3 DEF PowerFailure
    <3>2. QED
      BY <2>14, <2>15, <3>1 DEF PowerFailure
  <2>16. ASSUME NEW p \in Processes, Crash(p) PROVE Atomic!Next
    <3>1. Artifact' = Artifact
      BY <2>16 DEF Crash, Artifact
    <3>2. QED
      BY <2>14, <2>16, <3>1 DEF Crash
  <2>17. CASE OthersCreate
    <3>1. Artifact = Absent /\ Artifact' \in Foreign /\ verdict' = verdict
      BY <2>17, PublishAssumption, EntryFields DEF OthersCreate, Artifact, callVars
    <3>2. QED
      BY <3>1 DEF Atomic!Others, Atomic!Next
  <2>18. CASE OthersRemove
    <3>1. Artifact' = Absent /\ verdict' = verdict
      BY <2>18, PublishAssumption, EntryFields DEF OthersRemove, Artifact, callVars
    <3>2. QED
      BY <3>1 DEF Atomic!Others, Atomic!Next
  <2>19. CASE UNCHANGED vars
    BY <2>2, <2>19 DEF vars, callVars
  <2>20. QED
    BY <1>2, <2>2, <2>6, <2>7, <2>8, <2>9, <2>10, <2>11, <2>13, <2>15, <2>16, <2>17, <2>18, <2>19
    DEF Next, Call
<1>3. QED
  BY <1>1, <1>2, InvCorrect, PTL DEF Spec, AtomicSpec, Atomic!Spec
=============================================================================
