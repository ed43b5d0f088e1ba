---------------------------- MODULE ShardedWrite ----------------------------
(***************************************************************************)
(* `write_sharded` (crates/modelq-io/src/sharding.rs) writes one file per  *)
(* group of tensors and then the index that maps the tensors to them;      *)
(* `SafetensorsInput::open' (sharded.rs) decides what such a directory     *)
(* holds.  Runs are calls of write_sharded for one directory; a run may    *)
(* fail at any file operation or die between two.                          *)
(*                                                                         *)
(* Every shard is written by a single-file writer under the "rename"       *)
(* protocol of module Publish: it appears whole or not at all, unless its  *)
(* name is taken, and a failed writer removes its temporary file.          *)
(* A file is represented by the run that wrote it: shard i of run r holds  *)
(* group i of r's plan, r's index maps the tensors to r's shards.  Other   *)
(* programs may put files into the directory at any time, and under any    *)
(* name but those of the writers' temporary files, which nobody guesses.   *)
(***************************************************************************)
EXTENDS Integers

CONSTANTS
  Runs,        \* calls of write_sharded
  ShardCount,  \* ShardCount[r]: number of groups run r is called with
  Exclusive,   \* does a run start only when no other is under way?
  MaxDeaths,   \* bound on the runs that die
  Somebody     \* whoever else puts files into the directory

ASSUME ShardedAssumption ==
  /\ ShardCount \in [Runs -> Nat \ {0}]
  /\ Exclusive \in BOOLEAN
  /\ MaxDeaths \in Nat
  /\ Somebody \notin Runs

VARIABLES
  parent,      \* the directory above the output directory
  dir,         \* the output path
  files,       \* files[name]: who wrote the file of that name in dir
  pc,          \* pc[r]: where run r is
  shard,       \* shard[r]: the shard r works on
  created,     \* created[r]: names r would remove
  madeDir,     \* madeDir[r]: created_directory
  deaths       \* runs that died

runVars == <<pc, shard, created, madeDir>>
vars == <<parent, dir, files, runVars, deaths>>

(***************************************************************************)
(* Names of files in the directory.  Only shards and the index have names  *)
(* a reader looks for.  The writers' temporary files differ by process,    *)
(* the index's temporary name does not.                                    *)
(***************************************************************************)
Shard(i, n)   == <<"shard", i, n>>
ShardTemp(r)  == <<"shardTemp", r, 0>>
Index         == <<"index", 0, 0>>
IndexTemp     == <<"indexTemp", 0, 0>>
Note          == <<"note", 0, 0>>

Exists(name)    == name \in DOMAIN files
Plus(name, who) == [m \in DOMAIN files \cup {name} |-> IF m = name THEN who ELSE files[m]]
Minus(names)    == [m \in DOMAIN files \ names |-> files[m]]

Count(r)    == ShardCount[r]
Own(r)      == Shard(shard[r], Count(r))
ShardsOf(r) == {Shard(i, Count(r)) : i \in 1..Count(r)}

Working == {"shard", "recheck", "rename", "indexTemp", "indexRename", "cleanup", "removeDir"}
Ended   == {"ok", "refused", "failed", "dead"}

ForeignNames == {Index, IndexTemp, Note} \cup UNION {ShardsOf(r) : r \in Runs}

Names == ForeignNames \cup {ShardTemp(r) : r \in Runs}

\* The types of the variables.
TypeOK ==
  /\ parent \in {"absent", "present", "made"}
  /\ dir \in {"absent", "directory", "file"}
  /\ DOMAIN files \subseteq Names
  /\ \A name \in DOMAIN files : files[name] \in Runs \cup {Somebody}
  /\ files # <<>> => dir = "directory"
  /\ dir # "absent" => parent # "absent"
  /\ pc \in [Runs -> {"start"} \cup Working \cup Ended]
  /\ \A r \in Runs : shard[r] \in 1..Count(r)
  /\ \A r \in Runs : created[r] \subseteq Names
  /\ madeDir \in [Runs -> BOOLEAN]
  /\ deaths \in 0..MaxDeaths

NoFiles == <<>>

\* The output path may be absent, with or without the directory above it, or a
\* file, or a directory: empty, or holding somebody's model.
Init ==
  /\ \/ parent = "absent"  /\ dir = "absent"    /\ files = NoFiles
     \/ parent = "present" /\ dir = "absent"    /\ files = NoFiles
     \/ parent = "present" /\ dir = "file"      /\ files = NoFiles
     \/ parent = "present" /\ dir = "directory" /\ files = NoFiles
     \/ parent = "present" /\ dir = "directory" /\ files = [m \in {Index} |-> Somebody]
  /\ pc = [r \in Runs |-> "start"]
  /\ shard = [r \in Runs |-> 1]
  /\ created = [r \in Runs |-> {}]
  /\ madeDir = [r \in Runs |-> FALSE]
  /\ deaths = 0

Goto(r, place) == pc' = [pc EXCEPT ![r] = place]

-----------------------------------------------------------------------------
(***************************************************************************)
(* One run.                                                                *)
(***************************************************************************)

\* Bug: a directory with files in it is accepted.
BuggyEmpty == TRUE

Empty == files = NoFiles

ParentMade == IF parent = "absent" THEN "made" ELSE parent

\* The directory is looked at, and made when there is none, with those above it;
\* that may fail halfway.
Start(r) ==
  /\ pc[r] = "start"
  /\ Exclusive => \A q \in Runs : pc[q] \notin Working
  /\ \/ dir = "directory" /\ Empty /\ Goto(r, "shard") /\ UNCHANGED <<parent, dir, madeDir>>
     \/ dir = "directory" /\ ~Empty /\ Goto(r, "refused") /\ UNCHANGED <<parent, dir, madeDir>>
     \/ dir = "file" /\ Goto(r, "refused") /\ UNCHANGED <<parent, dir, madeDir>>
     \/ /\ dir = "absent"
        /\ dir' = "directory"
        /\ parent' = ParentMade
        /\ madeDir' = [madeDir EXCEPT ![r] = TRUE]
        /\ Goto(r, "shard")
     \/ /\ dir = "absent"
        /\ parent' \in {parent, ParentMade}
        /\ Goto(r, "failed")
        /\ UNCHANGED <<dir, madeDir>>
  /\ UNCHANGED <<files, shard, created, deaths>>

\* write_shard makes a temporary file and fills it; it fails when the shard's
\* name is taken, and may fail anyway.
BeginShard(r) ==
  /\ pc[r] = "shard"
  /\ \/ /\ dir = "directory" /\ ~Exists(Own(r))
        /\ files' = Plus(ShardTemp(r), r)
        /\ Goto(r, "recheck")
     \/ Goto(r, "cleanup") /\ UNCHANGED files
  /\ UNCHANGED <<parent, dir, shard, created, madeDir, deaths>>

\* The writer's last look at the name, and its own failure.
RecheckShard(r) ==
  /\ pc[r] = "recheck"
  /\ \/ ~Exists(Own(r)) /\ Goto(r, "rename") /\ UNCHANGED files
     \/ Goto(r, "cleanup") /\ files' = Minus({ShardTemp(r)})
  /\ UNCHANGED <<parent, dir, shard, created, madeDir, deaths>>

\* Bug: the index is written before the last shard.
BuggyAllButOne(r) == shard[r] < Count(r) - 1

MoreShards(r) == shard[r] < Count(r)

\* The rename that publishes the shard; then write_sharded notes it down.
RenameShard(r) ==
  /\ pc[r] = "rename"
  /\ \/ /\ files' = [m \in (DOMAIN files \ {ShardTemp(r)}) \cup {Own(r)} |->
                       IF m = Own(r) THEN r ELSE files[m]]
        /\ created' = [created EXCEPT ![r] = @ \cup {Own(r)}]
        /\ IF MoreShards(r)
             THEN shard' = [shard EXCEPT ![r] = @ + 1] /\ Goto(r, "shard")
             ELSE Goto(r, "indexTemp") /\ UNCHANGED shard
     \/ /\ files' = Minus({ShardTemp(r)})
        /\ Goto(r, "cleanup")
        /\ UNCHANGED <<shard, created>>
  /\ UNCHANGED <<parent, dir, madeDir, deaths>>

\* Bug: the temporary index is noted only once it has been written.
BuggyWriteIndex(r) ==
  /\ pc[r] = "indexTemp"
  /\ \/ /\ files' = Plus(IndexTemp, r)
        /\ created' = [created EXCEPT ![r] = @ \cup {IndexTemp}]
        /\ Goto(r, "indexRename")
     \/ Goto(r, "cleanup") /\ files' \in {files, Plus(IndexTemp, r)} /\ UNCHANGED created
  /\ UNCHANGED <<parent, dir, shard, madeDir, deaths>>

\* The index is written under its temporary name, which all runs share; it is
\* noted first, since a failed write may leave the file behind.
WriteIndex(r) ==
  /\ pc[r] = "indexTemp"
  /\ created' = [created EXCEPT ![r] = @ \cup {IndexTemp}]
  /\ \/ /\ dir = "directory"
        /\ files' = Plus(IndexTemp, r)
        /\ Goto(r, "indexRename") \/ Goto(r, "cleanup")
     \/ Goto(r, "cleanup") /\ UNCHANGED files
  /\ UNCHANGED <<parent, dir, shard, madeDir, deaths>>

\* Bug: an error of the rename is ignored.
BuggyRenameIndex(r) ==
  /\ pc[r] = "indexRename"
  /\ files' \in {files, Plus(Index, r)}
  /\ Goto(r, "ok")
  /\ UNCHANGED <<parent, dir, shard, created, madeDir, deaths>>

\* The rename replaces an index that is there, and fails without a temporary.
RenameIndex(r) ==
  /\ pc[r] = "indexRename"
  /\ \/ /\ Exists(IndexTemp)
        /\ files' = [m \in (DOMAIN files \ {IndexTemp}) \cup {Index} |->
                       IF m = Index THEN files[IndexTemp] ELSE files[m]]
        /\ created' = [created EXCEPT ![r] = (@ \ {IndexTemp}) \cup {Index}]
        /\ Goto(r, "ok")
     \/ Goto(r, "cleanup") /\ UNCHANGED <<files, created>>
  /\ UNCHANGED <<parent, dir, shard, madeDir, deaths>>

\* Bug: only the file that was written last is removed.
BuggyRemoved(r) == {Own(r), IndexTemp}

\* The files a failed run removes, by name.
Removed(r) == created[r]

Cleanup(r) ==
  /\ pc[r] = "cleanup"
  /\ files' = Minus(Removed(r))
  /\ Goto(r, IF madeDir[r] THEN "removeDir" ELSE "failed")
  /\ UNCHANGED <<parent, dir, shard, created, madeDir, deaths>>

\* `remove_dir' fails when anything is left in the directory.
RemoveDir(r) ==
  /\ pc[r] = "removeDir"
  /\ dir' = IF files = NoFiles THEN "absent" ELSE dir
  /\ Goto(r, "failed")
  /\ UNCHANGED <<parent, files, shard, created, madeDir, deaths>>

Run(r) ==
  \/ Start(r) \/ BeginShard(r) \/ RecheckShard(r) \/ RenameShard(r)
  \/ WriteIndex(r) \/ RenameIndex(r) \/ Cleanup(r) \/ RemoveDir(r)

-----------------------------------------------------------------------------
Die(r) ==
  /\ pc[r] \in Working
  /\ deaths < MaxDeaths
  /\ deaths' = deaths + 1
  /\ Goto(r, "dead")
  /\ UNCHANGED <<parent, dir, files, shard, created, madeDir>>

\* Somebody puts a file into the directory: a note, or a shard or an index of a
\* model of their own.
SomebodyAdds ==
  /\ dir = "directory"
  /\ \E name \in ForeignNames : ~Exists(name) /\ files' = Plus(name, Somebody)
  /\ UNCHANGED <<parent, dir, runVars, deaths>>

Next ==
  \/ \E r \in Runs : Run(r) \/ Die(r)
  \/ SomebodyAdds

Spec == Init /\ [][Next]_vars

-----------------------------------------------------------------------------
(***************************************************************************)
(* Properties.                                                             *)
(***************************************************************************)

\* open_index: every shard the index maps tensors to is there with them.
IndexHolds ==
  LET r == files[Index]
  IN  \A m \in ShardsOf(r) : Exists(m) /\ files[m] = r

\* The index is written last (ADR 0015:20): when it is there, so is every
\* shard it names, through failures and deaths, and at every moment a reader
\* may look.
IndexIsLast == Exists(Index) /\ files[Index] \in Runs => IndexHolds

\* A run that returns its files (sharding.rs:195-206) has left them all: its
\* shards and an index that maps to them.
SuccessLeavesAll ==
  \A r \in Runs : pc[r] = "ok" =>
    Exists(Index) /\ files[Index] = r /\ IndexHolds

\* An index stands for a whole output, and a run that succeeds has one.
IndexMeansComplete == IndexIsLast /\ SuccessLeavesAll

\* Files of two runs are never in the directory together: what a run that died has
\* left behind keeps the next one out, and what one that failed has left is gone
\* before the next begins.  So nothing a reader finds there was put together from
\* two models, whose shards may have the same names (ADR 0015:20).
RunsDontMix ==
  \A m, n \in DOMAIN files : {files[m], files[n]} \subseteq Runs => files[m] = files[n]

\* A failed run has removed every file it created, and the directory if it
\* created it and nobody has put anything into it (sharding.rs:224-226).
FailureIsUndone ==
  \A r \in Runs : pc[r] = "failed" =>
    /\ \A m \in DOMAIN files : files[m] # r
    /\ madeDir[r] /\ files = NoFiles =>
         dir = "absent" \/ \E q \in Runs \ {r} : pc[q] # "start"
=============================================================================
