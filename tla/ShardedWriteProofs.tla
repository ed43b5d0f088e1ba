------------------------- MODULE ShardedWriteProofs -------------------------
(***************************************************************************)
(* Proofs about ShardedWrite for any number of runs, of shards and of      *)
(* deaths.                                                                 *)
(***************************************************************************)
EXTENDS ShardedWrite, TLAPS

(***************************************************************************)
(* What holds of runs in any interleaving.                                 *)
(***************************************************************************)

\* The variables that are functions.
FunctionTypes ==
  /\ files \in [DOMAIN files -> Runs \cup {Somebody}]
  /\ shard \in [Runs -> Nat]
  /\ created \in [Runs -> SUBSET Names]

\* A run notes down only names of its own and those of the index.
CreatedNames == \A r \in Runs : created[r] \subseteq ShardsOf(r) \cup {Index, IndexTemp}

\* The file a writer is filling stays where it is.
TempIsThere == \A r \in Runs : pc[r] \in {"recheck", "rename"} => Exists(ShardTemp(r))

Basic == TypeOK /\ FunctionTypes /\ CreatedNames /\ TempIsThere

(***************************************************************************)
(* What holds when runs take turns.                                        *)
(***************************************************************************)

OneAtATime ==
  \A q, r \in Runs : pc[q] \in Working /\ pc[r] \in Working => q = r

\* The names run r has published before the shard it works on.
Published(r) == {Shard(i, Count(r)) : i \in 1..(shard[r] - 1)}

\* The files of run r.
Mine(r) == {m \in DOMAIN files : files[m] = r}

\* No other run has files in the directory.
Alone(r) == \A m \in DOMAIN files : files[m] \in {r, Somebody}

\* Of all runs only r has files in the directory, and these are their names.
Holds(r, names) == Alone(r) /\ Mine(r) = names

\* What is in the directory, and what r has noted down, wherever r is.
Contents(r) ==
  /\ pc[r] = "start" => shard[r] = 1 /\ created[r] = {}
  /\ pc[r] = "shard" => Holds(r, Published(r)) /\ created[r] = Published(r)
  /\ pc[r] \in {"recheck", "rename"} =>
       Holds(r, Published(r) \cup {ShardTemp(r)}) /\ created[r] = Published(r)
  /\ pc[r] = "indexTemp" => Holds(r, ShardsOf(r)) /\ created[r] = ShardsOf(r)
  /\ pc[r] = "indexRename" =>
       Holds(r, ShardsOf(r) \cup {IndexTemp}) /\ created[r] = ShardsOf(r) \cup {IndexTemp}
  /\ pc[r] = "cleanup" => Alone(r) /\ Mine(r) \subseteq created[r] \ {Index}
  /\ pc[r] = "removeDir" => Holds(r, {})
  /\ pc[r] = "ok" => Holds(r, ShardsOf(r) \cup {Index})

AllContents == \A r \in Runs : Contents(r)

\* A file belongs to a run that still works, succeeded or died; the index to
\* one that succeeded.
Owners ==
  \A m \in DOMAIN files : files[m] \in Runs =>
    /\ pc[files[m]] \in Working \cup {"dead", "ok"}
    /\ m = Index => pc[files[m]] = "ok"

\* The directory a failed run has made is gone, or was not empty, or others
\* have come since.
DirectoryUndone ==
  \A r \in Runs : pc[r] = "failed" /\ madeDir[r] /\ files = NoFiles =>
    dir = "absent" \/ \E q \in Runs \ {r} : pc[q] # "start"

Inv == Basic /\ OneAtATime /\ AllContents /\ Owners /\ RunsDontMix /\ DirectoryUndone

(***************************************************************************)
(* Names.                                                                  *)
(***************************************************************************)

LEMMA NamesDiffer ==
  /\ Index # IndexTemp /\ Index # Note /\ IndexTemp # Note
  /\ \A i, n : Shard(i, n) \notin {Index, IndexTemp, Note}
  /\ \A r : ShardTemp(r) \notin {Index, IndexTemp, Note}
  /\ \A i, n, r : Shard(i, n) # ShardTemp(r)
  /\ \A i, j, m, n : Shard(i, m) = Shard(j, n) => i = j /\ m = n
  /\ \A q, r : ShardTemp(q) = ShardTemp(r) => q = r
BY DEF Index, IndexTemp, Note, Shard, ShardTemp

LEMMA OwnNames ==
  ASSUME Basic, NEW r \in Runs
  PROVE  /\ Own(r) \in ShardsOf(r)
         /\ ShardsOf(r) \subseteq Names
         /\ {Index, IndexTemp, Note, ShardTemp(r)} \subseteq Names
         /\ \A q \in Runs : ShardTemp(q) \notin ShardsOf(r) \cup {Index, IndexTemp}
         /\ Note \notin ShardsOf(r) \cup {Index, IndexTemp}
         /\ Index \notin ShardsOf(r) /\ IndexTemp \notin ShardsOf(r)
<1>1. shard[r] \in 1..Count(r)
  BY DEF Basic, TypeOK
<1>2. Own(r) \in ShardsOf(r)
  BY <1>1 DEF Own, ShardsOf
<1>3. /\ ShardsOf(r) \subseteq Names
      /\ {Index, IndexTemp, Note, ShardTemp(r)} \subseteq Names
  BY DEF Names, ForeignNames
<1>4. /\ \A q \in Runs : ShardTemp(q) \notin ShardsOf(r) \cup {Index, IndexTemp}
      /\ Note \notin ShardsOf(r) \cup {Index, IndexTemp}
      /\ Index \notin ShardsOf(r) /\ IndexTemp \notin ShardsOf(r)
  BY NamesDiffer DEF ShardsOf
<1>5. QED
  BY <1>2, <1>3, <1>4

\* A directory without files.
LEMMA NoFilesMeans ==
  ASSUME NEW f, f = [m \in DOMAIN f |-> f[m]]
  PROVE  f = NoFiles <=> DOMAIN f = {}
<1>1. DOMAIN NoFiles = {} /\ NoFiles = [m \in {} |-> f[m]]
  BY DEF NoFiles
<1>2. QED
  BY <1>1

LEMMA InitBasic == Init => Basic
<1> SUFFICES ASSUME Init PROVE Basic
  OBVIOUS
<1> USE ShardedAssumption DEF Init, NoFiles
<1>1. DOMAIN files \subseteq {Index} /\ \A m \in DOMAIN files : files[m] = Somebody
  OBVIOUS
<1>2. TypeOK
  BY <1>1 DEF TypeOK, Names, ForeignNames, Count
<1>3. FunctionTypes
  <2>1. files \in [DOMAIN files -> Runs \cup {Somebody}]
    <3>1. CASE files = <<>>
      BY <3>1
    <3>2. CASE files = [m \in {Index} |-> Somebody]
      BY <3>2
    <3>3. QED
      BY <3>1, <3>2
  <2>2. shard \in [Runs -> Nat] /\ created \in [Runs -> SUBSET Names]
    OBVIOUS
  <2>3. QED
    BY <2>1, <2>2 DEF FunctionTypes
<1>4. CreatedNames /\ TempIsThere
  BY DEF CreatedNames, TempIsThere
<1>5. QED
  BY <1>2, <1>3, <1>4 DEF Basic

(***************************************************************************)
(* A step leaves Basic true; one lemma per action.                         *)
(***************************************************************************)

LEMMA StartBasic ==
  ASSUME Basic, NEW r \in Runs, Start(r)
  PROVE  Basic'
<1> USE ShardedAssumption DEF Start, Goto, Basic
<1>1. TypeOK'
  BY NoFilesMeans DEF TypeOK, Working, Ended, ParentMade, FunctionTypes, NoFiles, Empty, Count
<1>2. FunctionTypes' /\ CreatedNames' /\ TempIsThere'
  BY DEF TypeOK, FunctionTypes, CreatedNames, TempIsThere, Exists
<1>3. QED
  BY <1>1, <1>2

\* The names a run works with.
NamesOf(r) == ShardsOf(r) \cup {ShardTemp(r), Index, IndexTemp}

\* A step of run r as far as files go: it removes some files, and leaves others
\* under names of its own.
FilesStep(r, gone, new) ==
  /\ gone \subseteq NamesOf(r) /\ new \subseteq NamesOf(r)
  /\ files' \in [(DOMAIN files \ gone) \cup new -> Runs \cup {Somebody}]
  /\ \A m \in DOMAIN files \ (gone \cup new) : files'[m] = files[m]
  /\ new # {} => dir = "directory"
  /\ pc'[r] \in {"recheck", "rename"} => Exists(ShardTemp(r))'

\* A step of run r as far as everything else goes.
RunStep(r) ==
  /\ pc[r] \in Working
  /\ \E place \in Working \cup Ended : Goto(r, place)
  /\ UNCHANGED <<parent, dir, madeDir>>
  /\ shard' \in [Runs -> Nat] /\ \A q \in Runs : shard'[q] \in 1..Count(q)
  /\ created' \in [Runs -> SUBSET Names] /\ CreatedNames'
  /\ deaths' \in 0..MaxDeaths

LEMMA RunBasic ==
  ASSUME Basic, NEW r \in Runs, RunStep(r), NEW gone, NEW new, FilesStep(r, gone, new)
  PROVE  Basic'
<1> USE DEF Basic, RunStep, FilesStep, Goto
<1>1. TypeOK'
  <2>1. DOMAIN files' \subseteq Names
    BY OwnNames DEF TypeOK, NamesOf
  <2>2. \A m \in DOMAIN files' : files'[m] \in Runs \cup {Somebody}
    OBVIOUS
  <2>3. files' # <<>> => dir = "directory"
    <3> SUFFICES ASSUME files' # <<>>, new = {} PROVE dir = "directory"
      OBVIOUS
    <3>1. files # <<>>
      BY NoFilesMeans DEF FunctionTypes, NoFiles
    <3>2. QED
      BY <3>1 DEF TypeOK
  <2>4. pc' \in [Runs -> {"start"} \cup Working \cup Ended]
    BY DEF TypeOK
  <2>5. QED
    BY <2>1, <2>2, <2>3, <2>4 DEF TypeOK, Count, FunctionTypes
<1>2. FunctionTypes'
  BY DEF FunctionTypes
<1>3. TempIsThere'
  BY OwnNames, NamesDiffer DEF TempIsThere, Exists, TypeOK, NamesOf
<1>4. QED
  BY <1>1, <1>2, <1>3

\* A step that leaves the files alone.
LEMMA QuietStep ==
  ASSUME Basic, NEW r \in Runs, RunStep(r), UNCHANGED files,
         pc'[r] \in {"recheck", "rename"} => pc[r] \in {"recheck", "rename"}
  PROVE  FilesStep(r, {}, {})
BY DEF Basic, FunctionTypes, FilesStep, TempIsThere, Exists

LEMMA PlusStep ==
  ASSUME Basic, NEW r \in Runs, NEW name \in NamesOf(r), files' = Plus(name, r),
         dir = "directory", pc'[r] \in {"recheck", "rename"} => name = ShardTemp(r)
  PROVE  FilesStep(r, {}, {name})
BY ShardedAssumption DEF Basic, FunctionTypes, FilesStep, Exists, Plus

LEMMA MinusStep ==
  ASSUME Basic, NEW r \in Runs, NEW gone \in SUBSET NamesOf(r), files' = Minus(gone),
         pc'[r] \notin {"recheck", "rename"}
  PROVE  FilesStep(r, gone, {})
BY DEF Basic, FunctionTypes, FilesStep, Minus

LEMMA BeginShardBasic ==
  ASSUME Basic, NEW r \in Runs, BeginShard(r)
  PROVE  Basic'
<1> USE ShardedAssumption DEF BeginShard, Goto
<1>1. RunStep(r)
  BY DEF Basic, TypeOK, FunctionTypes, CreatedNames, Working, Count, RunStep
<1>2. CASE files' = Plus(ShardTemp(r), r) /\ dir = "directory"
  BY <1>1, <1>2, PlusStep, RunBasic DEF NamesOf
<1>3. CASE Goto(r, "cleanup") /\ UNCHANGED files
  <2>1. pc'[r] = "cleanup"
    BY <1>3 DEF Basic, TypeOK
  <2>2. QED
    BY <1>1, <1>3, <2>1, QuietStep, RunBasic
<1>4. QED
  BY <1>2, <1>3

LEMMA RecheckShardBasic ==
  ASSUME Basic, NEW r \in Runs, RecheckShard(r)
  PROVE  Basic'
<1> USE ShardedAssumption DEF RecheckShard, Goto
<1>1. RunStep(r)
  BY DEF Basic, TypeOK, FunctionTypes, CreatedNames, Working, Count, RunStep
<1>2. CASE Goto(r, "rename") /\ UNCHANGED files
  BY <1>1, <1>2, QuietStep, RunBasic
<1>3. CASE Goto(r, "cleanup") /\ files' = Minus({ShardTemp(r)})
  <2>1. pc'[r] = "cleanup"
    BY <1>3 DEF Basic, TypeOK
  <2>2. QED
    BY <1>1, <1>3, <2>1, MinusStep, RunBasic DEF NamesOf
<1>4. QED
  BY <1>2, <1>3

LEMMA RenameShardBasic ==
  ASSUME Basic, NEW r \in Runs, RenameShard(r)
  PROVE  Basic'
<1> USE ShardedAssumption DEF RenameShard, Goto
<1>1. RunStep(r)
  <2>1. created' \in [Runs -> SUBSET Names] /\ CreatedNames'
    BY OwnNames DEF Basic, FunctionTypes, CreatedNames
  <2>2. shard' \in [Runs -> Nat] /\ \A q \in Runs : shard'[q] \in 1..Count(q)
    BY DEF Basic, TypeOK, FunctionTypes, Count, MoreShards
  <2>3. QED
    BY <2>1, <2>2 DEF Basic, TypeOK, Working, RunStep
<1>2. CASE files' = [m \in (DOMAIN files \ {ShardTemp(r)}) \cup {Own(r)} |->
                       IF m = Own(r) THEN r ELSE files[m]]
           /\ (IF MoreShards(r) THEN Goto(r, "shard") ELSE Goto(r, "indexTemp"))
  <2>1. pc'[r] \notin {"recheck", "rename"}
    BY <1>2 DEF Basic, TypeOK
  <2>2. Exists(ShardTemp(r))
    BY DEF Basic, TempIsThere
  <2>3. dir = "directory"
    BY <2>2, NoFilesMeans DEF Basic, FunctionTypes, Exists, NoFiles, TypeOK
  <2>4. FilesStep(r, {ShardTemp(r)}, {Own(r)})
    BY <1>2, <2>1, <2>3, OwnNames DEF FilesStep, NamesOf, Basic, FunctionTypes
  <2>5. QED
    BY <1>1, <2>4, RunBasic
<1>3. CASE Goto(r, "cleanup") /\ files' = Minus({ShardTemp(r)})
  <2>1. pc'[r] = "cleanup"
    BY <1>3 DEF Basic, TypeOK
  <2>2. QED
    BY <1>1, <1>3, <2>1, MinusStep, RunBasic DEF NamesOf
<1>4. QED
  BY <1>2, <1>3

LEMMA WriteIndexBasic ==
  ASSUME Basic, NEW r \in Runs, WriteIndex(r)
  PROVE  Basic'
<1> USE ShardedAssumption DEF WriteIndex, Goto
<1>1. RunStep(r)
  <2>1. created' \in [Runs -> SUBSET Names] /\ CreatedNames'
    BY OwnNames DEF Basic, FunctionTypes, CreatedNames
  <2>2. QED
    BY <2>1 DEF Basic, TypeOK, FunctionTypes, Working, Count, RunStep
<1>2. pc'[r] \notin {"recheck", "rename"}
  BY DEF Basic, TypeOK
<1>3. CASE files' = Plus(IndexTemp, r) /\ dir = "directory"
  BY <1>1, <1>2, <1>3, PlusStep, RunBasic DEF NamesOf
<1>4. CASE UNCHANGED files
  BY <1>1, <1>2, <1>4, QuietStep, RunBasic
<1>5. QED
  BY <1>3, <1>4

LEMMA RenameIndexBasic ==
  ASSUME Basic, NEW r \in Runs, RenameIndex(r)
  PROVE  Basic'
<1> USE ShardedAssumption DEF RenameIndex, Goto
<1>1. RunStep(r)
  <2>1. created' \in [Runs -> SUBSET Names] /\ CreatedNames'
    BY OwnNames DEF Basic, FunctionTypes, CreatedNames
  <2>2. QED
    BY <2>1 DEF Basic, TypeOK, FunctionTypes, Working, Ended, Count, RunStep
<1>2. pc'[r] \notin {"recheck", "rename"}
  BY DEF Basic, TypeOK
<1>3. CASE /\ Exists(IndexTemp)
           /\ files' = [m \in (DOMAIN files \ {IndexTemp}) \cup {Index} |->
                          IF m = Index THEN files[IndexTemp] ELSE files[m]]
  <2>1. dir = "directory"
    BY <1>3, NoFilesMeans DEF Basic, FunctionTypes, Exists, NoFiles, TypeOK
  <2>2. FilesStep(r, {IndexTemp}, {Index})
    BY <1>2, <1>3, <2>1 DEF FilesStep, NamesOf, Basic, FunctionTypes, Exists
  <2>3. QED
    BY <1>1, <2>2, RunBasic
<1>4. CASE UNCHANGED files
  BY <1>1, <1>2, <1>4, QuietStep, RunBasic
<1>5. QED
  BY <1>3, <1>4

LEMMA CleanupBasic ==
  ASSUME Basic, NEW r \in Runs, Cleanup(r)
  PROVE  Basic'
<1> USE ShardedAssumption DEF Cleanup, Goto
<1>1. RunStep(r)
  BY DEF Basic, TypeOK, FunctionTypes, CreatedNames, Working, Ended, Count, RunStep
<1>2. pc'[r] \notin {"recheck", "rename"}
  BY DEF Basic, TypeOK
<1>3. Removed(r) \in SUBSET NamesOf(r)
  BY DEF Basic, CreatedNames, Removed, NamesOf
<1>4. QED
  BY <1>1, <1>2, <1>3, MinusStep, RunBasic

\* The directory goes only when it is empty.
LEMMA RemoveDirBasic ==
  ASSUME Basic, NEW r \in Runs, RemoveDir(r)
  PROVE  Basic'
<1> USE ShardedAssumption DEF RemoveDir, Goto, Basic
<1>1. TypeOK'
  BY DEF TypeOK, Working, Ended, NoFiles, Count
<1>2. FunctionTypes' /\ CreatedNames' /\ TempIsThere'
  BY DEF TypeOK, FunctionTypes, CreatedNames, TempIsThere, Exists
<1>3. QED
  BY <1>1, <1>2

LEMMA DieBasic ==
  ASSUME Basic, NEW r \in Runs, Die(r)
  PROVE  Basic'
<1> USE ShardedAssumption DEF Die, Goto, Basic
<1>1. TypeOK'
  BY DEF TypeOK, Working, Ended, Count
<1>2. FunctionTypes' /\ CreatedNames' /\ TempIsThere'
  BY DEF TypeOK, FunctionTypes, CreatedNames, TempIsThere, Exists, Working
<1>3. QED
  BY <1>1, <1>2

LEMMA SomebodyAddsBasic ==
  ASSUME Basic, SomebodyAdds
  PROVE  Basic'
<1> USE ShardedAssumption DEF Basic
<1>1. PICK name \in ForeignNames : ~Exists(name) /\ files' = Plus(name, Somebody)
  BY DEF SomebodyAdds
<1>2. dir = "directory" /\ UNCHANGED <<parent, dir, pc, shard, created, madeDir, deaths>>
  BY DEF SomebodyAdds, runVars
<1>3. /\ DOMAIN files' = DOMAIN files \cup {name}
      /\ files' \in [DOMAIN files' -> Runs \cup {Somebody}]
  BY <1>1 DEF Plus, FunctionTypes
<1>4. TypeOK'
  BY <1>2, <1>3 DEF TypeOK, Names, Count
<1>5. FunctionTypes' /\ CreatedNames' /\ TempIsThere'
  BY <1>2, <1>3 DEF FunctionTypes, CreatedNames, TempIsThere, Exists
<1>6. QED
  BY <1>4, <1>5

LEMMA StutterBasic ==
  ASSUME Basic, UNCHANGED vars
  PROVE  Basic'
BY DEF Basic, vars, runVars, TypeOK, FunctionTypes, CreatedNames, TempIsThere,
       Exists, Count

\* Types and names, whatever the interleaving of the runs.
THEOREM BasicCorrect == Spec => []Basic
<1>1. Init => Basic
  BY InitBasic
<1>2. Basic /\ [Next]_vars => Basic'
  <2> SUFFICES ASSUME Basic, [Next]_vars PROVE Basic'
    OBVIOUS
  <2>1. CASE \E r \in Runs : Run(r)
    BY <2>1, StartBasic, BeginShardBasic, RecheckShardBasic, RenameShardBasic,
       WriteIndexBasic, RenameIndexBasic, CleanupBasic, RemoveDirBasic DEF Run
  <2>2. CASE \E r \in Runs : Die(r)
    BY <2>2, DieBasic
  <2>3. CASE SomebodyAdds
    BY <2>3, SomebodyAddsBasic
  <2>4. CASE UNCHANGED vars
    BY <2>4, StutterBasic
  <2>5. QED
    BY <2>1, <2>2, <2>3, <2>4 DEF Next
<1>3. QED
  BY <1>1, <1>2, PTL DEF Spec

\* The types of ShardedWrite, for runs at the same time as well.
THEOREM TypeCorrect == Spec => []TypeOK
<1>1. Basic => TypeOK
  BY DEF Basic
<1>2. QED
  BY <1>1, BasicCorrect, PTL

(***************************************************************************)
(* Runs that take turns.                                                   *)
(***************************************************************************)

LEMMA PublishedNames ==
  ASSUME Basic, NEW r \in Runs
  PROVE  /\ Published(r) \subseteq ShardsOf(r)
         /\ shard[r] = 1 => Published(r) = {}
         /\ Own(r) \notin Published(r)
         /\ shard[r] = Count(r) => Published(r) \cup {Own(r)} = ShardsOf(r)
<1>1. shard[r] \in 1..Count(r) /\ shard[r] \in Nat /\ Count(r) \in Nat
  BY ShardedAssumption DEF Basic, TypeOK, FunctionTypes, Count
<1>2. \A i \in 1..(shard[r] - 1) : i \in 1..Count(r) /\ i # shard[r]
  BY <1>1
<1>3. Published(r) \subseteq ShardsOf(r) /\ Own(r) \notin Published(r)
  BY <1>2, NamesDiffer DEF Published, ShardsOf, Own
<1>4. shard[r] = Count(r) => Published(r) \cup {Own(r)} = ShardsOf(r)
  <2>1. shard[r] = Count(r) => 1..Count(r) = (1..(shard[r] - 1)) \cup {shard[r]}
    BY <1>1
  <2>2. QED
    BY <2>1 DEF Published, ShardsOf, Own
<1>5. shard[r] = 1 => Published(r) = {}
  BY DEF Published
<1>6. QED
  BY <1>3, <1>4, <1>5

\* While a run works, all files are its own or somebody's, and it has no index.
LEMMA WorkerOwnsAll ==
  ASSUME Basic, AllContents, NEW r \in Runs, pc[r] \in Working
  PROVE  Alone(r) /\ Index \notin Mine(r)
BY PublishedNames, OwnNames, NamesDiffer DEF AllContents, Contents, Holds, Working

LEMMA OthersIdle ==
  ASSUME Basic, OneAtATime, AllContents, NEW r \in Runs, pc[r] \in Working
  PROVE  \A q \in Runs \ {r} : pc[q] \notin Working \cup {"ok"}
<1>1. \A q \in Runs : pc[q] = "ok" => Index \in Mine(q)
  BY DEF AllContents, Contents, Holds
<1>2. \A q \in Runs \ {r} : Index \notin Mine(q)
  BY WorkerOwnsAll, ShardedAssumption DEF Mine, Alone
<1>3. QED
  BY <1>1, <1>2 DEF OneAtATime

LEMMA InitInv == Init => Inv
<1> SUFFICES ASSUME Init PROVE Inv
  OBVIOUS
<1>1. Basic
  BY InitBasic
<1>2. /\ \A r \in Runs : pc[r] = "start" /\ shard[r] = 1 /\ created[r] = {}
      /\ \A m \in DOMAIN files : m = Index /\ files[m] = Somebody
  BY DEF Init, NoFiles
<1>3. QED
  BY <1>1, <1>2, NamesDiffer, ShardedAssumption
     DEF Inv, OneAtATime, AllContents, Contents, Owners, RunsDontMix,
         DirectoryUndone, Working, Exists

\* What is left to show of a step of a run that works: only its own contents
\* and its own files change.
LEMMA WorkerStep ==
  ASSUME Inv, NEW r \in Runs, pc[r] \in Working, Basic',
         NEW place \in Working \cup Ended, Goto(r, place),
         \A q \in Runs \ {r} : shard'[q] = shard[q] /\ created'[q] = created[q],
         Contents(r)', Alone(r)',
         Mine(r)' # {} => place \in Working \cup {"dead", "ok"},
         Index \in Mine(r)' => place = "ok",
         place = "failed" /\ madeDir'[r] /\ files' = NoFiles => dir' = "absent"
  PROVE  Inv'
<1> USE DEF Inv
<1>1. \A q \in Runs \ {r} : pc'[q] = pc[q] /\ pc[q] \notin Working \cup {"ok"}
  BY OthersIdle DEF Goto, Basic, TypeOK
<1>2. pc'[r] = place
  BY DEF Goto, Basic, TypeOK
<1>3. OneAtATime'
  BY <1>1 DEF OneAtATime
<1>4. AllContents'
  <2> SUFFICES ASSUME NEW q \in Runs \ {r} PROVE Contents(q)'
    BY DEF AllContents
  <2>1. pc'[q] = pc[q] /\ pc[q] \notin Working \cup {"ok"}
    BY <1>1
  <2>2. pc[q] = "start" => shard[q] = 1 /\ created[q] = {}
    BY DEF AllContents, Contents
  <2>3. QED
    BY <2>1, <2>2 DEF Contents, Working
<1>5. \A m \in DOMAIN files' : files'[m] \in Runs => files'[m] = r /\ m \in Mine(r)'
  BY ShardedAssumption DEF Alone, Mine
<1>6. Owners' /\ RunsDontMix'
  BY <1>2, <1>5 DEF Owners, RunsDontMix
<1>7. DirectoryUndone'
  BY <1>2 DEF DirectoryUndone, Working, Ended
<1>8. QED
  BY <1>3, <1>4, <1>6, <1>7

LEMMA StartStep ==
  ASSUME Inv, Exclusive, NEW r \in Runs, Start(r)
  PROVE  Inv'
<1> USE DEF Inv
<1>1. Basic'
  BY StartBasic
<1>2. /\ pc[r] = "start" /\ UNCHANGED <<files, shard, created>>
      /\ \A q \in Runs : pc[q] \notin Working
      /\ shard[r] = 1 /\ created[r] = {}
      /\ RunsDontMix'
  <2>1. pc[r] = "start" /\ UNCHANGED <<files, shard, created>>
    BY DEF Start
  <2>2. \A q \in Runs : pc[q] \notin Working
    BY DEF Start
  <2>3. shard[r] = 1 /\ created[r] = {}
    BY <2>1 DEF AllContents, Contents
  <2>4. RunsDontMix'
    BY <2>1 DEF RunsDontMix
  <2>5. QED
    BY <2>1, <2>2, <2>3, <2>4
<1>3. CASE Goto(r, "refused") \/ (Goto(r, "failed") /\ dir' = "absent")
  <2>1. /\ \A q \in Runs \ {r} : pc'[q] = pc[q]
        /\ pc'[r] = "refused" \/ (pc'[r] = "failed" /\ dir' = "absent")
    BY <1>3 DEF Goto, Basic, TypeOK
  <2>2. OneAtATime'
    BY <1>2, <2>1 DEF Working, OneAtATime
  <2>3. AllContents'
    <3> SUFFICES ASSUME NEW q \in Runs PROVE Contents(q)'
      BY DEF AllContents
    <3>1. CASE q = r
      BY <2>1, <3>1 DEF Contents
    <3>2. CASE q # r
      BY <1>2, <2>1, <3>2 DEF AllContents, Contents, Holds, Alone, Mine, Published, Own, Working
    <3>3. QED
      BY <3>1, <3>2
  <2>4. Owners'
    BY <1>2, <2>1 DEF Owners, Working
  <2>5. DirectoryUndone'
    BY <2>1 DEF DirectoryUndone
  <2>6. QED
    BY <1>1, <1>2, <2>2, <2>3, <2>4, <2>5
<1>4. CASE files = NoFiles /\ Goto(r, "shard")
  <2>1. /\ \A q \in Runs \ {r} : pc'[q] = pc[q]
        /\ pc'[r] = "shard" /\ DOMAIN files = {} /\ DOMAIN files' = {}
    BY <1>2, <1>4 DEF Goto, Basic, TypeOK, NoFiles
  <2>2. OneAtATime'
    BY <1>2, <2>1 DEF Working, OneAtATime
  <2>3. AllContents'
    <3> SUFFICES ASSUME NEW q \in Runs PROVE Contents(q)'
      BY DEF AllContents
    <3>1. CASE q = r
      <4>1. Published(r)' = {}
        BY <1>1, <1>2, PublishedNames DEF Published
      <4>2. QED
        BY <1>2, <2>1, <3>1, <4>1 DEF Contents, Holds, Alone, Mine
    <3>2. CASE q # r
      <4>1. pc[q] # "ok"
        BY <2>1 DEF AllContents, Contents, Holds, Mine
      <4>2. QED
        BY <1>2, <2>1, <3>2, <4>1 DEF AllContents, Contents, Working
    <3>3. QED
      BY <3>1, <3>2
  <2>4. Owners' /\ DirectoryUndone'
    BY <2>1 DEF Owners, DirectoryUndone
  <2>6. QED
    BY <1>1, <1>2, <2>2, <2>3, <2>4
<1>5. QED
  <2>1. dir = "absent" => files = NoFiles
    BY DEF Basic, TypeOK, NoFiles
  <2>2. QED
    BY <1>3, <1>4, <2>1 DEF Start, Empty

\* Where run r is after a step that ends at place.
LEMMA Moved ==
  ASSUME Basic, NEW r \in Runs, NEW place, Goto(r, place)
  PROVE  pc'[r] = place
BY DEF Goto, Basic, TypeOK

\* What a file written, removed or renamed by run r does to its files.
LEMMA PlusMine ==
  ASSUME NEW r \in Runs, NEW name, files' = Plus(name, r)
  PROVE  Mine(r)' = Mine(r) \cup {name} /\ (Alone(r) => Alone(r)')
BY DEF Plus, Mine, Alone

LEMMA MinusMine ==
  ASSUME NEW r \in Runs, NEW names, files' = Minus(names)
  PROVE  Mine(r)' = Mine(r) \ names /\ (Alone(r) => Alone(r)')
BY DEF Minus, Mine, Alone

LEMMA RenameMine ==
  ASSUME NEW r \in Runs, NEW from, NEW to,
         files' = [m \in (DOMAIN files \ {from}) \cup {to} |-> IF m = to THEN r ELSE files[m]]
  PROVE  Mine(r)' = (Mine(r) \ {from}) \cup {to} /\ (Alone(r) => Alone(r)')
BY DEF Mine, Alone

LEMMA SameMine ==
  ASSUME NEW r \in Runs, UNCHANGED files
  PROVE  Mine(r)' = Mine(r) /\ (Alone(r) => Alone(r)')
BY DEF Mine, Alone

LEMMA BeginShardStep ==
  ASSUME Inv, NEW r \in Runs, BeginShard(r)
  PROVE  Inv'
<1> USE DEF Inv
<1>1. /\ Basic' /\ pc[r] \in Working
      /\ UNCHANGED <<shard, created, madeDir>> /\ Published(r)' = Published(r)
      /\ Alone(r) /\ Mine(r) = Published(r) /\ created[r] = Published(r)
  BY BeginShardBasic DEF BeginShard, Working, AllContents, Contents, Holds, Published
<1>2. Index \notin Published(r) \cup {ShardTemp(r)}
  BY PublishedNames, OwnNames, NamesDiffer
<1>3. CASE files' = Plus(ShardTemp(r), r) /\ Goto(r, "recheck")
  <2>1. pc'[r] = "recheck"
    BY <1>3, Moved
  <2>2. Alone(r)' /\ Mine(r)' = Published(r) \cup {ShardTemp(r)}
    BY <1>1, <1>3, PlusMine
  <2>3. ShardTemp(r)' = ShardTemp(r)
    BY DEF ShardTemp
  <2>4. Contents(r)'
    BY <1>1, <2>1, <2>2, <2>3 DEF Contents, Holds
  <2>5. QED
    BY <1>1, <1>2, <1>3, <2>2, <2>4, WorkerStep DEF Working
<1>4. CASE UNCHANGED files /\ Goto(r, "cleanup")
  <2>1. pc'[r] = "cleanup"
    BY <1>4, Moved
  <2>2. Alone(r)' /\ Mine(r)' = Published(r)
    BY <1>1, <1>4, SameMine
  <2>3. Contents(r)'
    BY <1>1, <1>2, <2>1, <2>2 DEF Contents
  <2>4. QED
    BY <1>1, <1>2, <1>4, <2>2, <2>3, WorkerStep DEF Working
<1>5. QED
  BY <1>3, <1>4 DEF BeginShard

\* The writer removes its temporary file, and nothing else, when it fails.
LEMMA TempRemoved ==
  ASSUME Inv, NEW r \in Runs, pc[r] \in {"recheck", "rename"}, Basic',
         Goto(r, "cleanup"), files' = Minus({ShardTemp(r)}),
         UNCHANGED <<shard, created, madeDir>>
  PROVE  Inv'
<1> USE DEF Inv
<1>1. Alone(r) /\ Mine(r) = Published(r) \cup {ShardTemp(r)} /\ created[r] = Published(r)
  BY DEF AllContents, Contents, Holds
<1>2. pc'[r] = "cleanup"
  BY Moved
<1>3. Alone(r)' /\ Mine(r)' \subseteq Published(r) /\ Index \notin Published(r)
  BY <1>1, MinusMine, PublishedNames, OwnNames
<1>4. Contents(r)'
  BY <1>1, <1>2, <1>3 DEF Contents
<1>5. QED
  BY <1>3, <1>4, WorkerStep DEF Working

LEMMA RecheckShardStep ==
  ASSUME Inv, NEW r \in Runs, RecheckShard(r)
  PROVE  Inv'
<1>1. /\ Basic' /\ pc[r] = "recheck" /\ pc[r] \in Working
      /\ UNCHANGED <<shard, created, madeDir>>
  BY RecheckShardBasic DEF Inv, RecheckShard, Working
<1>2. CASE UNCHANGED files /\ Goto(r, "rename")
  <2>1. pc'[r] = "rename"
    BY <1>2, Moved DEF Inv
  <2>2. Contents(r)'
    BY <1>1, <1>2, <2>1
       DEF Inv, AllContents, Contents, Holds, Alone, Mine, Published
  <2>3. Alone(r)' /\ Index \notin Mine(r)'
    BY <1>1, <1>2, WorkerOwnsAll, SameMine DEF Inv
  <2>4. QED
    BY <1>1, <1>2, <2>2, <2>3, WorkerStep DEF Working
<1>3. CASE files' = Minus({ShardTemp(r)}) /\ Goto(r, "cleanup")
  BY <1>1, <1>3, TempRemoved
<1>4. QED
  BY <1>2, <1>3 DEF RecheckShard

\* The shard joins those that are published and noted down.
LEMMA RenameShardStep ==
  ASSUME Inv, NEW r \in Runs, RenameShard(r)
  PROVE  Inv'
<1> USE DEF Inv
<1>1. /\ Basic' /\ pc[r] = "rename" /\ pc[r] \in Working /\ UNCHANGED madeDir
      /\ Alone(r) /\ Mine(r) = Published(r) \cup {ShardTemp(r)} /\ created[r] = Published(r)
  BY RenameShardBasic DEF RenameShard, Working, AllContents, Contents, Holds
<1>2. CASE /\ files' = [m \in (DOMAIN files \ {ShardTemp(r)}) \cup {Own(r)} |->
                          IF m = Own(r) THEN r ELSE files[m]]
           /\ created' = [created EXCEPT ![r] = @ \cup {Own(r)}]
           /\ IF MoreShards(r)
                THEN shard' = [shard EXCEPT ![r] = @ + 1] /\ Goto(r, "shard")
                ELSE Goto(r, "indexTemp") /\ UNCHANGED shard
  <2> DEFINE Done == Published(r) \cup {Own(r)}
  <2>1. Alone(r)' /\ Mine(r)' = Done /\ created'[r] = Done /\ Index \notin Done
    <3>1. Done \subseteq ShardsOf(r)
      BY OwnNames, PublishedNames
    <3>2. created'[r] = Done
      BY <1>1, <1>2 DEF Basic, FunctionTypes
    <3>3. ShardTemp(r) \notin Done
      BY <3>1, OwnNames
    <3>4. Alone(r)' /\ Mine(r)' = (Mine(r) \ {ShardTemp(r)}) \cup {Own(r)}
      BY <1>1, <1>2, RenameMine
    <3>5. QED
      BY <1>1, <3>1, <3>2, <3>3, <3>4, OwnNames
  <2>2. \A q \in Runs \ {r} : shard'[q] = shard[q] /\ created'[q] = created[q]
    BY <1>2 DEF Basic, FunctionTypes
  <2>3. CASE MoreShards(r)
    <3>1. pc'[r] = "shard" /\ Goto(r, "shard")
      BY <1>2, <2>3, Moved
    <3>2. Published(r)' = Done
      <4>1. shard[r] \in Nat /\ shard[r] >= 1 /\ shard'[r] = shard[r] + 1
        BY <1>2, <2>3 DEF Basic, FunctionTypes, TypeOK
      <4>2. 1..(shard'[r] - 1) = (1..(shard[r] - 1)) \cup {shard[r]}
        BY <4>1
      <4>3. QED
        BY <4>2 DEF Published, Own, Count
    <3>3. Contents(r)'
      BY <2>1, <3>1, <3>2 DEF Contents, Holds
    <3>4. QED
      BY <1>1, <2>1, <2>2, <3>1, <3>3, WorkerStep DEF Working
  <2>4. CASE ~MoreShards(r)
    <3>1. pc'[r] = "indexTemp" /\ Goto(r, "indexTemp")
      BY <1>2, <2>4, Moved
    <3>2. Done = ShardsOf(r) /\ ShardsOf(r)' = ShardsOf(r)
      <4>1. shard[r] \in Nat /\ shard[r] \in 1..Count(r) /\ Count(r) \in Nat
        BY ShardedAssumption DEF Basic, FunctionTypes, TypeOK, Count
      <4>2. shard[r] = Count(r)
        BY <2>4, <4>1 DEF MoreShards
      <4>3. QED
        BY <4>2, PublishedNames DEF ShardsOf, Count
    <3>3. Contents(r)'
      BY <2>1, <3>1, <3>2 DEF Contents, Holds
    <3>4. QED
      BY <1>1, <2>1, <2>2, <3>1, <3>3, WorkerStep DEF Working
  <2>5. QED
    BY <2>3, <2>4
<1>3. CASE /\ files' = Minus({ShardTemp(r)}) /\ Goto(r, "cleanup")
           /\ UNCHANGED <<shard, created>>
  BY <1>1, <1>3, TempRemoved
<1>4. QED
  BY <1>2, <1>3 DEF RenameShard

LEMMA WriteIndexStep ==
  ASSUME Inv, NEW r \in Runs, WriteIndex(r)
  PROVE  Inv'
<1> USE DEF Inv
<1>1. /\ Basic' /\ pc[r] = "indexTemp" /\ pc[r] \in Working
      /\ UNCHANGED <<shard, madeDir>> /\ ShardsOf(r)' = ShardsOf(r)
      /\ Alone(r) /\ Mine(r) = ShardsOf(r) /\ created[r] = ShardsOf(r)
      /\ created'[r] = ShardsOf(r) \cup {IndexTemp}
      /\ \A q \in Runs \ {r} : shard'[q] = shard[q] /\ created'[q] = created[q]
      /\ Goto(r, "indexRename") \/ Goto(r, "cleanup")
  BY WriteIndexBasic
     DEF WriteIndex, Working, AllContents, Contents, Holds, ShardsOf, Count, Basic,
         FunctionTypes
<1>2. Index \notin ShardsOf(r) \cup {IndexTemp}
  BY OwnNames, NamesDiffer
<1>3. CASE files' = Plus(IndexTemp, r)
  <2>1. Alone(r)' /\ Mine(r)' = ShardsOf(r) \cup {IndexTemp}
    BY <1>1, <1>3, PlusMine
  <2>2. pc'[r] \in {"indexRename", "cleanup"}
    BY <1>1, Moved
  <2>3. Contents(r)'
    BY <1>1, <1>2, <2>1, <2>2 DEF Contents, Holds
  <2>4. QED
    BY <1>1, <1>2, <2>1, <2>3, WorkerStep DEF Working
<1>4. CASE UNCHANGED files /\ Goto(r, "cleanup")
  <2>1. pc'[r] = "cleanup"
    BY <1>4, Moved
  <2>2. Alone(r)' /\ Mine(r)' = ShardsOf(r)
    BY <1>1, <1>4, SameMine
  <2>3. Contents(r)'
    BY <1>1, <1>2, <2>1, <2>2 DEF Contents
  <2>4. QED
    BY <1>1, <1>2, <1>4, <2>2, <2>3, WorkerStep DEF Working
<1>5. QED
  BY <1>3, <1>4 DEF WriteIndex

\* The file renamed is the run's own, since nobody else writes under that name
\* while it is there.
LEMMA RenameIndexStep ==
  ASSUME Inv, NEW r \in Runs, RenameIndex(r)
  PROVE  Inv'
<1> USE DEF Inv
<1>1. /\ Basic' /\ pc[r] = "indexRename" /\ pc[r] \in Working
      /\ UNCHANGED <<shard, madeDir>> /\ ShardsOf(r)' = ShardsOf(r)
      /\ Alone(r) /\ Mine(r) = ShardsOf(r) \cup {IndexTemp}
      /\ created[r] = ShardsOf(r) \cup {IndexTemp}
      /\ \A q \in Runs \ {r} : shard'[q] = shard[q] /\ created'[q] = created[q]
  BY RenameIndexBasic
     DEF RenameIndex, Working, AllContents, Contents, Holds, ShardsOf, Count, Basic,
         FunctionTypes
<1>2. Index \notin ShardsOf(r) \cup {IndexTemp} /\ IndexTemp \notin ShardsOf(r)
  BY OwnNames, NamesDiffer
<1>3. CASE /\ files' = [m \in (DOMAIN files \ {IndexTemp}) \cup {Index} |->
                          IF m = Index THEN files[IndexTemp] ELSE files[m]]
           /\ Goto(r, "ok")
  <2>1. files[IndexTemp] = r
    BY <1>1 DEF Mine
  <2>2. Alone(r)' /\ Mine(r)' = ShardsOf(r) \cup {Index}
    BY <1>1, <1>2, <1>3, <2>1, RenameMine
  <2>3. pc'[r] = "ok"
    BY <1>3, Moved
  <2>4. Index' = Index
    BY DEF Index
  <2>5. Contents(r)'
    BY <1>1, <2>2, <2>3, <2>4 DEF Contents, Holds
  <2>6. QED
    BY <1>1, <1>3, <2>2, <2>5, WorkerStep DEF Ended
<1>4. CASE UNCHANGED <<files, created>> /\ Goto(r, "cleanup")
  <2>1. pc'[r] = "cleanup"
    BY <1>4, Moved
  <2>2. Alone(r)' /\ Mine(r)' = ShardsOf(r) \cup {IndexTemp}
    BY <1>1, <1>4, SameMine
  <2>3. Contents(r)'
    BY <1>1, <1>2, <1>4, <2>1, <2>2 DEF Contents
  <2>4. QED
    BY <1>1, <1>2, <1>4, <2>2, <2>3, WorkerStep DEF Working
<1>5. QED
  BY <1>3, <1>4 DEF RenameIndex

\* Every file of the run is among those it has noted down.
LEMMA CleanupStep ==
  ASSUME Inv, NEW r \in Runs, Cleanup(r)
  PROVE  Inv'
<1> USE DEF Inv
<1>1. /\ Basic' /\ pc[r] \in Working /\ UNCHANGED <<shard, created, madeDir>>
      /\ Alone(r) /\ Mine(r) \subseteq created[r]
      /\ files' = Minus(created[r])
      /\ Goto(r, IF madeDir[r] THEN "removeDir" ELSE "failed")
  BY CleanupBasic DEF Cleanup, Removed, Working, AllContents, Contents
<1>2. Alone(r)' /\ Mine(r)' = {}
  BY <1>1, MinusMine
<1>3. CASE madeDir[r]
  <2>1. pc'[r] = "removeDir" /\ Goto(r, "removeDir")
    BY <1>1, <1>3, Moved
  <2>2. Contents(r)'
    BY <1>2, <2>1 DEF Contents, Holds
  <2>3. QED
    BY <1>1, <1>2, <2>1, <2>2, WorkerStep DEF Working
<1>4. CASE ~madeDir[r]
  <2>1. pc'[r] = "failed" /\ Goto(r, "failed")
    BY <1>1, <1>4, Moved
  <2>2. Contents(r)'
    BY <1>2, <2>1 DEF Contents
  <2>3. madeDir' # madeDir \/ ~madeDir'[r]
    BY <1>4
  <2>4. QED
    BY <1>1, <1>2, <2>1, <2>2, <2>3, WorkerStep DEF Ended
<1>5. QED
  BY <1>3, <1>4

LEMMA RemoveDirStep ==
  ASSUME Inv, NEW r \in Runs, RemoveDir(r)
  PROVE  Inv'
<1> USE DEF Inv
<1>1. /\ Basic' /\ pc[r] \in Working /\ UNCHANGED <<files, shard, created, madeDir>>
      /\ Alone(r) /\ Mine(r) = {} /\ Goto(r, "failed") /\ pc'[r] = "failed"
      /\ files = NoFiles => dir' = "absent"
  BY RemoveDirBasic, Moved DEF RemoveDir, Working, AllContents, Contents, Holds
<1>2. Contents(r)'
  BY <1>1 DEF Contents
<1>3. Alone(r)' /\ Mine(r)' = {}
  BY <1>1, SameMine
<1>4. QED
  BY <1>1, <1>2, <1>3, WorkerStep DEF Ended

LEMMA DieStep ==
  ASSUME Inv, NEW r \in Runs, Die(r)
  PROVE  Inv'
<1> USE DEF Inv
<1>1. /\ Basic' /\ pc[r] \in Working /\ UNCHANGED <<files, shard, created, madeDir>>
      /\ Goto(r, "dead") /\ pc'[r] = "dead"
  BY DieBasic, Moved DEF Die
<1>2. Contents(r)'
  BY <1>1 DEF Contents
<1>3. Alone(r)' /\ Index \notin Mine(r)'
  BY <1>1, WorkerOwnsAll, SameMine
<1>4. QED
  BY <1>1, <1>2, <1>3, WorkerStep DEF Ended

LEMMA SomebodyAddsStep ==
  ASSUME Inv, SomebodyAdds
  PROVE  Inv'
<1> USE DEF Inv
<1>1. PICK name \in ForeignNames : ~Exists(name) /\ files' = Plus(name, Somebody)
  BY DEF SomebodyAdds
<1>2. /\ Basic' /\ UNCHANGED <<parent, dir, pc, shard, created, madeDir>>
      /\ DOMAIN files' = DOMAIN files \cup {name} /\ files'[name] = Somebody
      /\ name \notin DOMAIN files
      /\ \A m \in DOMAIN files : files'[m] = files[m]
  BY <1>1, SomebodyAddsBasic DEF SomebodyAdds, Plus, Exists, runVars
<1>3. OneAtATime' /\ Owners' /\ RunsDontMix'
  BY <1>2, ShardedAssumption DEF OneAtATime, Owners, RunsDontMix
<1>4. DirectoryUndone'
  BY <1>2 DEF DirectoryUndone, NoFiles
<1>5. \A r \in Runs : Mine(r)' = Mine(r) /\ (Alone(r) => Alone(r)')
  BY <1>2, ShardedAssumption DEF Mine, Alone
<1>6. AllContents'
  <2> SUFFICES ASSUME NEW r \in Runs PROVE Contents(r)'
    BY DEF AllContents
  <2>1. \A names : Holds(r, names) => Alone(r)' /\ Mine(r)' = names
    BY <1>5 DEF Holds
  <2>2. Contents(r)
    BY DEF AllContents
  <2>3. ShardsOf(r)' = ShardsOf(r) /\ Published(r)' = Published(r)
    BY <1>2 DEF ShardsOf, Published, Count
  <2>4. QED
    BY <1>2, <1>5, <2>1, <2>2, <2>3 DEF Contents, Holds, ShardTemp, Index, IndexTemp
<1>7. QED
  BY <1>2, <1>3, <1>4, <1>6

LEMMA StutterStep ==
  ASSUME Inv, UNCHANGED vars
  PROVE  Inv'
<1>1. Basic'
  BY StutterBasic DEF Inv
<1>2. QED
  BY <1>1 DEF vars, runVars, Inv, OneAtATime, AllContents, Contents, Holds, Alone, Mine,
              Published, Owners, RunsDontMix, DirectoryUndone, ShardsOf, Count

\* Runs that take turns, failing or dying anywhere: what the directory holds and
\* what a run has noted down agree with where every run is.
THEOREM TurnsCorrect ==
  ASSUME Exclusive
  PROVE  Spec => []Inv
<1>1. Init => Inv
  BY InitInv
<1>2. Inv /\ [Next]_vars => Inv'
  <2> SUFFICES ASSUME Inv, [Next]_vars PROVE Inv'
    OBVIOUS
  <2>1. CASE \E r \in Runs : Run(r)
    BY <2>1, StartStep, BeginShardStep, RecheckShardStep, RenameShardStep,
       WriteIndexStep, RenameIndexStep, CleanupStep, RemoveDirStep DEF Run
  <2>2. CASE \E r \in Runs : Die(r)
    BY <2>2, DieStep
  <2>3. CASE SomebodyAdds
    BY <2>3, SomebodyAddsStep
  <2>4. CASE UNCHANGED vars
    BY <2>4, StutterStep
  <2>5. QED
    BY <2>1, <2>2, <2>3, <2>4 DEF Next
<1>3. QED
  BY <1>1, <1>2, PTL DEF Spec

\* An index in the directory stands for all its shards, at every moment, and a
\* run that succeeds leaves its index and its shards (sharding.rs:195-206).
THEOREM CompleteCorrect ==
  ASSUME Exclusive
  PROVE  Spec => []IndexMeansComplete
<1>1. Inv => IndexMeansComplete
  <2> SUFFICES ASSUME Inv PROVE IndexMeansComplete
    OBVIOUS
  <2> USE DEF Inv
  <2>1. \A r \in Runs : pc[r] = "ok" => Exists(Index) /\ files[Index] = r /\ IndexHolds
    BY DEF AllContents, Contents, Holds, Mine, IndexHolds, Exists
  <2>2. IndexIsLast
    BY <2>1, NamesDiffer DEF Owners, IndexIsLast, Exists
  <2>3. QED
    BY <2>1, <2>2 DEF IndexMeansComplete, SuccessLeavesAll
<1>2. QED
  BY <1>1, TurnsCorrect, PTL

\* A reader never finds files of two runs side by side, whoever failed, died or put
\* files of their own into the directory (ADR 0015:20).
THEOREM DontMixCorrect ==
  ASSUME Exclusive
  PROVE  Spec => []RunsDontMix
<1>1. Inv => RunsDontMix
  BY DEF Inv
<1>2. QED
  BY <1>1, TurnsCorrect, PTL

\* A failed run leaves no file of its own, and no directory it made and left
\* empty (sharding.rs:224-226).
THEOREM FailureCorrect ==
  ASSUME Exclusive
  PROVE  Spec => []FailureIsUndone
<1>1. Inv => FailureIsUndone
  BY ShardedAssumption
     DEF Inv, Owners, DirectoryUndone, FailureIsUndone, Working
<1>2. QED
  BY <1>1, TurnsCorrect, PTL
=============================================================================
