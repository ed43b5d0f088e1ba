------------------------------ MODULE Container ------------------------------
(***************************************************************************)
(* One `quantize' command from the opened source to the checked output:    *)
(* main.rs, lowbit_command.rs and nvfp4_command.rs with the four           *)
(* SafeTensors writers.  The source stays a set of files that anybody may  *)
(* change: opening it keeps the catalog, and every read maps the file      *)
(* anew, so the tensor read need not be the one that was planned for.      *)
(*                                                                         *)
(* How files are created, renamed and removed is ShardedWrite's and        *)
(* Publish's subject; here a failed write leaves nothing.  Offsets,        *)
(* lengths and names are exact, values are "old", "new" or "nan".          *)
(***************************************************************************)
EXTENDS OpenInput, Functions

CONSTANTS
  Inputs,        \* sources: functions from names to [dtype, shape, values]
  Jobs,          \* [format, minimum, limit, suffix]; limit 0 is a single file
  Replacements,  \* tensors somebody may put in the place of one of the source
  MaxChanges     \* how often somebody does

ASSUME ContainerAssumption ==
  /\ \A j \in Jobs : j.format \in Formats /\ j.limit \in Nat /\ j.minimum \in Nat
  /\ \A t \in Replacements : Bytes(t) > 0
  /\ MaxChanges \in Nat

VARIABLES
  source,    \* the tensors in the source files now
  opened,    \* the catalog read when the source was opened
  job,
  groups,    \* source names by output file
  records,   \* the plan of the file being written, then of the check
  next,      \* the record that is next
  data,      \* the pieces written to the current file
  pending,   \* the tensor whose payload was last written
  files, index,
  stage, outcome,
  changes,   \* how often the source was changed
  stale      \* names changed after they were written and before they are checked

command == <<opened, job>>
plan    == <<groups, records>>
artifact == <<files, index>>
vars    == <<source, opened, job, groups, records, next, data, pending, files,
             index, stage, outcome, changes, stale>>

Nothing == [dtype |-> "U8", shape |-> <<0>>, values |-> "none"]
NoIndex == [map |-> <<>>, total |-> 0]

Sharded  == job.limit # 0
LowBit   == job.format \in DOMAIN Bits
Blockwise == job.format \in {"nvfp4", "te"}
selected == Selected(job.format, job.minimum, opened)

\* A SubsetSource planned by itself.
PlanOf(names) ==
  Placed(Outputs(job.format, Restrict(opened, names), selected \cap names))

-----------------------------------------------------------------------------
(***************************************************************************)
(* Planning.                                                               *)
(***************************************************************************)
SizeOf(n) ==
  LET outputs == OutputsOf(job.format, n, opened[n], selected)
  IN  SumOf([i \in DOMAIN outputs |-> outputs[i].bytes])

\* Bug: the size of a full shard is not compared.
BuggyFits(used, bytes) == used <= job.limit
Fits(used, bytes) == used + bytes <= job.limit

\* Bug: a group is closed even when nothing is in it.
BuggyCloses(group, fits) == ~fits
Closes(group, fits) == group # <<>> /\ ~fits

\* `plan_shard_groups': names in order, a new group when the next does not fit.
ShardGroups ==
  LET add(acc, n) ==
        IF Closes(acc.group, Fits(acc.used, SizeOf(n)))
        THEN [done |-> Append(acc.done, acc.group), group |-> <<n>>, used |-> SizeOf(n)]
        ELSE [acc EXCEPT !.group = Append(@, n), !.used = @ + SizeOf(n)]
      end == FoldLeft(add, [done |-> <<>>, group |-> <<>>, used |-> 0], Sorted(DOMAIN opened))
  IN  IF end.group = <<>> THEN end.done ELSE Append(end.done, end.group)

Init ==
  /\ source \in Inputs /\ opened = source /\ job \in Jobs
  /\ groups = <<>> /\ records = <<>> /\ next = 1 /\ data = <<>> /\ pending = Nothing
  /\ files = <<>> /\ index = NoIndex
  /\ stage = "plan" /\ outcome = "running"
  /\ changes = 0 /\ stale = {}

Fail(reason) ==
  /\ stage' = "done" /\ outcome' = reason
  /\ UNCHANGED <<source, command, plan, next, data, pending, changes, stale>>

\* A write that fails removes what it made.
FailWrite(reason) == Fail(reason) /\ files' = <<>> /\ index' = NoIndex

Plan ==
  /\ stage = "plan"
  /\ LET error == PlanError(job.format, opened, selected)
         grouped == IF Sharded THEN ShardGroups ELSE <<Sorted(DOMAIN opened)>>
     IN  IF error # "none" THEN Fail(error) /\ UNCHANGED artifact
         ELSE IF grouped = <<>> THEN Fail("NothingToWrite") /\ UNCHANGED artifact
         ELSE /\ groups' = grouped
              /\ stage' = IF job.format = "int8" THEN "report" ELSE "start"
              /\ UNCHANGED <<source, command, records, next, data, pending, artifact,
                             outcome, changes, stale>>

\* What `with_tensor' and a codec that rejects values that are not finite ask of
\* the source as it is now.
Readable(n) ==
  n \in DOMAIN source /\ Floating(source[n]) /\ source[n].values # "nan"

\* `print_progress' quantizes every selected tensor once for its report.
Report ==
  /\ stage = "report"
  /\ IF \A n \in selected : Readable(n)
     THEN /\ stage' = "start"
          /\ UNCHANGED <<source, command, plan, next, data, pending, artifact,
                         outcome, changes, stale>>
     ELSE Fail("Unreadable") /\ UNCHANGED artifact

-----------------------------------------------------------------------------
(***************************************************************************)
(* Writing.  The files are written one by one, the records of a file in    *)
(* the order of its plan; the scales that follow a payload are those its   *)
(* encoder returned.                                                       *)
(***************************************************************************)
StartFile ==
  /\ stage = "start"
  /\ LET names == Range(groups[Len(files) + 1])
         error == PlanError(job.format, Restrict(opened, names), selected \cap names)
     IN  IF error # "none" THEN FailWrite(error)
         ELSE /\ records' = PlanOf(names) /\ next' = 1 /\ data' = <<>>
              /\ pending' = Nothing /\ stage' = "write"
              /\ UNCHANGED <<source, command, groups, artifact, outcome, changes, stale>>

\* The tensor the record's bytes are made from.
\* Bug: scales are computed from the source as it is when they are written.
BuggyOrigin(r) == IF r.source \in DOMAIN source THEN source[r.source] ELSE pending
Origin(r) == IF r.role \in {"preserved", "payload"} THEN source[r.source] ELSE pending

Encodable(t) == Blockwise => t.shape # <<>> /\ NoZero(t) /\ Last(t.shape) % Block = 0

\* The length checks of `write_data': what is there now has the planned size.
ScalesFit(r) ==
  IF job.format = "te"
  THEN Elements(pending) \div Block = Elements(opened[r.source]) \div Block
  ELSE Quantized(job.format, r.source, pending)[2].bytes = r.bytes

Writable(r) ==
  CASE r.role = "preserved" -> r.source \in DOMAIN source /\ Bytes(source[r.source]) = r.bytes
    [] r.role = "payload" ->
         /\ Readable(r.source) /\ Encodable(source[r.source])
         /\ Quantized(job.format, r.source, source[r.source])[1].bytes = r.bytes
    [] r.role = "scale"  -> ScalesFit(r)
    [] r.role = "global" -> TRUE

WriteRecord ==
  /\ stage = "write" /\ next <= Len(records)
  /\ LET r == records[next].o
     IN  IF ~Writable(r) THEN FailWrite("WriteFailed")
         ELSE /\ data' = Append(data, [bytes |-> r.bytes,
                           made |-> [source |-> r.source, role |-> r.role, tensor |-> Origin(r)]])
              /\ pending' = IF r.role = "payload" THEN source[r.source] ELSE pending
              /\ next' = next + 1
              /\ UNCHANGED <<source, command, plan, artifact, stage, outcome, changes, stale>>

\* `build_header': a descriptor for every planned tensor.
\* Bug: the offsets are assigned in the order of the names.
BuggyHeader(placed) ==
  LET names == Sorted({p.o.name : p \in Range(placed)})
      of(n) == (CHOOSE p \in Range(placed) : p.o.name = n).o
      start(n) == SumOf([i \in DOMAIN names |->
                    IF NameLess(names[i], n) THEN of(names[i]).bytes ELSE 0])
  IN  [n \in Range(names) |->
         [dtype |-> of(n).dtype, shape |-> of(n).shape,
          start |-> start(n), end |-> start(n) + of(n).bytes]]
Header(placed) ==
  [n \in {p.o.name : p \in Range(placed)} |->
     LET p == CHOOSE p \in Range(placed) : p.o.name = n
     IN  [dtype |-> p.o.dtype, shape |-> p.o.shape, start |-> p.start, end |-> p.end]]

\* `build_manifest': the sources of this file, as they were opened.
\* Bug: every source of the command is listed.
BuggyManifest(names) ==
  [n \in DOMAIN opened |->
     [action |-> IF n \in selected THEN "quantized" ELSE "preserved", tensor |-> opened[n]]]
Manifest(names) ==
  [n \in names |->
     [action |-> IF n \in selected THEN "quantized" ELSE "preserved", tensor |-> opened[n]]]

\* The weight map and the total of `write_sharded'.
IndexOf(written) ==
  [map   |-> [n \in Catalog(written) |-> CHOOSE s \in DOMAIN written :
                n \in DOMAIN written[s].header],
   total |-> SumOf([s \in DOMAIN written |->
               LET h == written[s].header
               IN  MapThenSumSet(LAMBDA n : h[n].end - h[n].start, DOMAIN h)])]

FinishFile ==
  /\ stage = "write" /\ next > Len(records)
  /\ LET file == [header |-> Header(records), data |-> data,
                  manifest |-> Manifest(Range(groups[Len(files) + 1]))]
         last == Len(files) + 1 = Len(groups)
     IN  /\ files' = Append(files, file)
         /\ index' = IF last /\ Sharded THEN IndexOf(Append(files, file)) ELSE index
         /\ stage' = IF last THEN "reopen" ELSE "start"
  /\ data' = <<>>
  /\ UNCHANGED <<source, command, plan, next, pending, outcome, changes, stale>>

-----------------------------------------------------------------------------
(***************************************************************************)
(* Checking: the output is opened, and what it holds is compared with the  *)
(* source once more.                                                       *)
(***************************************************************************)

\* `written.paths': the files, and the index of a sharded output.
Paths == 1..(Len(files) + IF Sharded THEN 1 ELSE 0)

Suffix(p) ==
  CASE ~Sharded          -> job.suffix
    [] p <= Len(files)   -> ".safetensors"
    [] OTHER             -> ".index.json"

\* Bug: the low-bit check opens every path written.
BuggyShards == Paths
\* The paths the low-bit check opens: those whose extension is `safetensors'.
Shards == {p \in Paths : Suffix(p) = ".safetensors"}

OpensAsFile(p) == p \in DOMAIN files /\ Parses(files[p])

\* The source tensors the low-bit check finds.
Listed == UNION {DOMAIN files[p].manifest : p \in Shards}

Whole == PlanOf(DOMAIN opened)

Reopens ==
  IF LowBit THEN \A p \in Shards : OpensAsFile(p)
  ELSE /\ Opens(files, index, IF Sharded THEN "directory" ELSE job.suffix)
       /\ Catalog(files) = {p.o.name : p \in Range(Whole)}
       /\ job.format = "te" => \A p \in Paths : Suffix(p) # ".index.json" =>
            OpensAsFile(p) /\ ReadsManifest("te", files[p])

Reopen ==
  /\ stage = "reopen"
  /\ IF ~Reopens THEN Fail("NotReopened") /\ UNCHANGED artifact
     ELSE /\ records' = IF LowBit THEN SelectSeq(Whole, LAMBDA p : p.o.source \in Listed)
                                  ELSE Whole
          /\ next' = 1 /\ stage' = "check"
          /\ UNCHANGED <<source, command, groups, data, pending, artifact, outcome,
                         changes, stale>>

\* Bug: preserved tensors are not compared.
BuggyUnchanged(o) == o.source \in DOMAIN source
\* The bytes written are those the source has now.
Unchanged(o) ==
  /\ o.source \in DOMAIN source
  /\ Content(Holder(files, o.name), o.name) =
       IF Bytes(source[o.source]) = 0 THEN {}
       ELSE {[source |-> o.source, role |-> "preserved", tensor |-> source[o.source]]}

\* The low-bit check compares as many values as both sides have and accepts
\* values that are not finite; the others compare the lengths.
Comparable(o) ==
  IF LowBit THEN o.source \in DOMAIN source /\ Floating(source[o.source])
  ELSE Readable(o.source) /\ Elements(source[o.source]) = Elements(opened[o.source])

CheckRecord ==
  /\ stage = "check" /\ next <= Len(records)
  /\ LET o == records[next].o
     IN  IF \/ o.role = "preserved" /\ ~Unchanged(o)
            \/ o.role = "payload" /\ ~Comparable(o)
         THEN Fail("Rejected") /\ UNCHANGED artifact
         ELSE /\ next' = next + 1
              /\ UNCHANGED <<source, command, plan, data, pending, artifact, stage,
                             outcome, changes, stale>>

\* The low-bit check ends by asking for the sources it has not found.
Conclude ==
  /\ stage = "check" /\ next > Len(records)
  /\ Fail(IF LowBit /\ Listed # DOMAIN opened THEN "Missing" ELSE "ok")
  /\ UNCHANGED artifact

-----------------------------------------------------------------------------
(***************************************************************************)
(* Somebody else's changes to the source files.                            *)
(***************************************************************************)
Pieces == Range(data) \cup UNION {Range(files[s].data) : s \in DOMAIN files}
IsWritten(n) == \E piece \in Pieces : piece.made.source = n
IsChecked(n) == stage = "check" /\ \E i \in 1..(next - 1) : records[i].o.source = n

Change(n) ==
  /\ stage # "done" /\ changes < MaxChanges
  /\ n \in DOMAIN source
  /\ \/ \E t \in Replacements \ {source[n]} : source' = [source EXCEPT ![n] = t]
     \/ source' = Restrict(source, DOMAIN source \ {n})
  /\ changes' = changes + 1
  /\ stale' = IF IsWritten(n) /\ ~IsChecked(n) THEN stale \cup {n} ELSE stale
  /\ UNCHANGED <<command, plan, next, data, pending, artifact, stage, outcome>>

Command == Plan \/ Report \/ StartFile \/ WriteRecord \/ FinishFile
           \/ Reopen \/ CheckRecord \/ Conclude
Next == Command \/ \E n \in DOMAIN source : Change(n)

Spec == Init /\ [][Next]_vars

-----------------------------------------------------------------------------
(***************************************************************************)
(* Properties.                                                             *)
(***************************************************************************)
AllWritten == groups # <<>> /\ Len(files) = Len(groups)

\* Whatever the names, the shapes and the policy, the reader opens what the
\* writers wrote: header and data agree byte for byte, also where tensors have no
\* bytes, and the index agrees with the shards.
HeadersHold ==
  AllWritten => IF Sharded THEN OpensIndex(files, index) ELSE Parses(files[1])

\* In every file every planned tensor is found at the place its header gives, it
\* holds the part of its own source that its name says, and all parts of a source
\* come from one reading of it, even when the source changes meanwhile.
ContentIsPlaced ==
  AllWritten => \A s \in DOMAIN files :
    LET planned == {p.o : p \in Range(PlanOf(Range(groups[s])))}
        found   == [o \in planned |-> Content(files[s], o.name)]
    IN  \A o \in planned :
          IF o.bytes = 0 THEN found[o] = {}
          ELSE /\ {[source |-> c.source, role |-> c.role] : c \in found[o]}
                    = {[source |-> o.source, role |-> o.role]}
               /\ \A q \in planned : q.source = o.source /\ q.bytes > 0 =>
                    {c.tensor : c \in found[o]} = {c.tensor : c \in found[q]}

\* A shard holds at most the requested bytes unless it holds a single source
\* tensor, no source is in two shards and none is left out.
ShardsWithinLimit ==
  AllWritten =>
    /\ Sharded => \A s \in DOMAIN files :
         DataLength(files[s]) <= job.limit \/ Cardinality(DOMAIN files[s].manifest) = 1
    /\ \A n \in DOMAIN opened : \E g \in DOMAIN groups : n \in Range(groups[g])
    /\ \A g, h \in DOMAIN groups : g # h => Range(groups[g]) \cap Range(groups[h]) = {}
    /\ DOMAIN opened # {} => \A g \in DOMAIN groups : groups[g] # <<>>

\* What was written can be read back: the reader opens it, finds every tensor's
\* own content in its place, and finds each in one shard of the size asked for.
WrittenOpens == HeadersHold /\ ContentIsPlaced /\ ShardsWithinLimit

\* Every file of an NVFP4 output, each shard by itself, passes the strict reader
\* of its manifest.
ManifestsAreRead ==
  Blockwise => \A s \in DOMAIN files : ReadsManifest(job.format, files[s])

\* The strict readers accept every output, and so does the command's own check:
\* without interference a command fails only for a name that a generated name
\* collides with, for values that are not finite, or because there is nothing to
\* put into shards.
CompleteIsAccepted ==
  /\ ManifestsAreRead
  /\ stage = "done" /\ changes = 0 =>
       \/ outcome = "ok"
       \/ GeneratedClash(job.format, opened, selected)
       \/ \E n \in selected : opened[n].values = "nan"
       \/ Sharded /\ DOMAIN opened = {}

\* A command succeeds only with all tensors in its output, and never when a
\* preserved tensor changed after it was copied and before it was compared, nor,
\* in the formats whose check compares lengths, when a quantized one changed its
\* number of values.
SuccessIsFaithful ==
  outcome = "ok" =>
    /\ AllWritten
    /\ \A n \in DOMAIN opened : \E s \in DOMAIN files : n \in DOMAIN files[s].manifest
    /\ \A n \in stale :
         /\ n \in selected
         /\ ~LowBit => /\ n \in DOMAIN source
                       /\ Elements(source[n]) = Elements(opened[n])
=============================================================================
