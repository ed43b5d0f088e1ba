------------------------------ MODULE HubFetch ------------------------------
(***************************************************************************)
(* `hub::fetch` (src/hub.rs) brings the weights of one model revision, and *)
(* the extra files its caller names, into the cache directory of that      *)
(* revision.  `ensure_file` reuses a cached file whose checksum is right   *)
(* and downloads anything else to `<file>.part`, where an interrupted      *)
(* download is resumed, by this call or by a later one.                    *)
(*                                                                         *)
(* A file's content is a sequence of blocks; a block is TRUE when it is    *)
(* the published block for its position.  Nothing stops two processes from *)
(* working in one cache directory, so an open file is followed through     *)
(* renames and removals.  The server and the connection may fail in any    *)
(* way until `healthy' becomes TRUE, and behave from then on.  A request   *)
(* that is never answered hangs for good: the client has no timeout.       *)
(***************************************************************************)
EXTENDS Integers, Sequences, FiniteSets, Functions

CONSTANTS
  Processes,   \* processes that call fetch with one request, again and again
  Repos,       \* the revisions the Hub may have published
  Single,      \* SINGLE_FILE
  Index,       \* INDEX_FILE
  Extras,      \* the extra files the caller asks for, in order
  Attempts     \* ATTEMPTS

\* A revision's files have names and sizes; its index may name shards it lacks.
ASSUME HubAssumption ==
  /\ Single \in STRING /\ Index \in STRING /\ Single # Index
  /\ Extras \in Seq(STRING)
  /\ Attempts \in Nat /\ Attempts > 1
  /\ \A r \in Repos : /\ r.files \subseteq STRING
                      /\ r.size \in [r.files -> Nat]
                      /\ r.shards \in Seq(STRING)

VARIABLES
  repo,        \* the published revision: files, size, sized, summed, shards
  healthy,     \* the Hub and the network behave from now on
  content,     \* content[pl]: what the existing file at place pl holds
  pc,          \* pc[p]: where process p is; "stalled" when it waits for nothing
  todo,        \* todo[p]: files still to ensure, the current one first
  planned,     \* planned[p]: the shards are known
  attempt,     \* attempt[p]: attempt of the current file
  existing,    \* existing[p]: bytes on disk when the request was built
  fd,          \* fd[p]: the place of p's open .part file
  append,      \* append[p]: it was opened to append
  pos,         \* pos[p]: blocks of the file the download has passed
  verdict,     \* verdict[p]: how p's last call ended
  calm         \* calm[p]: calls begun since healthy without a success, 3 for more

callVars == <<todo, planned, attempt>>
downloadVars == <<existing, fd, append, pos>>
vars == <<repo, healthy, content, pc, callVars, downloadVars, verdict, calm>>

-----------------------------------------------------------------------------
(***************************************************************************)
(* The revision and the files on disk.                                     *)
(***************************************************************************)
Target(f) == <<f, "target">>
Part(f)   == <<f, "part">>
Names     == UNION {r.files : r \in Repos}
Places    == {Target(f) : f \in Names} \cup {Part(f) : f \in Names}

Closed == <<"closed", "">>   \* no open file
Gone   == <<"gone", "">>     \* an open file without a name

Exists(pl)    == pl \in DOMAIN content
Size(f)       == repo.size[f]
SizeKnown(f)  == f \in repo.sized
Published(f)  == [i \in 1..Size(f) |-> TRUE]
Cached(f)     == Exists(Target(f)) /\ content[Target(f)] = Published(f)
Length(pl)    == IF Exists(pl) THEN Len(content[pl]) ELSE 0

Without(pl)   == Restrict(content, DOMAIN content \ {pl})
With(pl, blocks) == [x \in DOMAIN content \cup {pl} |-> IF x = pl THEN blocks ELSE content[x]]

\* What `verify` finds: "match", "mismatch", or an error.
Verified(f, pl) ==
  IF ~Exists(pl) THEN "error"
  ELSE IF SizeKnown(f) /\ Len(content[pl]) # Size(f) THEN "mismatch"
  ELSE IF f \notin repo.summed THEN "error"
  ELSE IF content[pl] = Published(f) THEN "match" ELSE "mismatch"

\* The file at pl is removed or renamed to `to'; whoever has it open keeps it.
Moved(pl, to) == fd' = [p \in Processes |-> IF fd[p] = pl THEN to ELSE fd[p]]

-----------------------------------------------------------------------------
(***************************************************************************)
(* Which files a call wants.                                               *)
(***************************************************************************)
Selected ==
  IF Single \in repo.files THEN <<Single>>
  ELSE IF Index \in repo.files THEN <<Index>> ELSE <<>>

Listed(s) == \A i \in DOMAIN s : s[i] \in repo.files

\* The entries of s at the positions P, in order.
EntriesAt(s, P) ==
  [k \in 1..Cardinality(P) |-> s[CHOOSE i \in P : Cardinality({j \in P : j <= i}) = k]]

WithExtras(s) ==
  s \o EntriesAt(Extras, {i \in DOMAIN Extras :
                            /\ \A j \in DOMAIN s : s[j] # Extras[i]
                            /\ \A j \in 1..(i - 1) : Extras[j] # Extras[i]})

Planned == WithExtras(IF Single \in repo.files THEN Selected ELSE Selected \o repo.shards)
Wanted  == {Planned[i] : i \in DOMAIN Planned}

\* Everything the request names is published with a checksum, and an index names
\* shards at all.
Fetchable ==
  /\ Selected # <<>>
  /\ Single \in repo.files \/ repo.shards # <<>>
  /\ Wanted \subseteq repo.files \cap repo.summed

Working == {"lookup", "ensure", "request", "answer", "copy", "verify", "replace", "rename", "plan"}

\* The types of the variables.
TypeOK ==
  /\ repo \in Repos
  /\ healthy \in BOOLEAN
  /\ DOMAIN content \subseteq Places
  /\ \A pl \in DOMAIN content : content[pl] \in Seq(BOOLEAN)
  /\ pc \in [Processes -> {"idle", "stalled"} \cup Working]
  /\ todo \in [Processes -> Seq(repo.files)]
  /\ \A p \in Processes : pc[p] \in Working \ {"lookup", "plan"} => todo[p] # <<>>
  /\ planned \in [Processes -> BOOLEAN]
  /\ attempt \in [Processes -> 0..Attempts]
  /\ existing \in [Processes -> Nat]
  /\ fd \in [Processes -> Places \cup {Closed, Gone}]
  /\ append \in [Processes -> BOOLEAN]
  /\ pos \in [Processes -> Nat]
  /\ verdict \in [Processes -> {"none", "ok", "failed"}]
  /\ calm \in [Processes -> 0..3]

Only(pl, blocks) == [x \in {pl} |-> blocks]

\* A cache may hold files somebody damaged or cut short, and a .part file two
\* processes appended to at once.
Init ==
  /\ repo \in Repos
  /\ healthy = FALSE
  /\ \E f \in repo.files :
       content \in {<<>>, Only(Target(f), <<>>), Only(Target(f), [i \in 1..Size(f) |-> FALSE]),
                     Only(Part(f), [i \in 1..Size(f) + 1 |-> i # Size(f) + 1])}
  /\ pc = [p \in Processes |-> "idle"]
  /\ todo = [p \in Processes |-> <<>>]
  /\ planned = [p \in Processes |-> FALSE]
  /\ attempt = [p \in Processes |-> 0]
  /\ existing = [p \in Processes |-> 0]
  /\ fd = [p \in Processes |-> Closed]
  /\ append = [p \in Processes |-> FALSE]
  /\ pos = [p \in Processes |-> 0]
  /\ verdict = [p \in Processes |-> "none"]
  /\ calm = [p \in Processes |-> 0]

Goto(p, place) == pc' = [pc EXCEPT ![p] = place]

Return(p, how) ==
  /\ Goto(p, "idle")
  /\ verdict' = [verdict EXCEPT ![p] = how]
  /\ todo' = [todo EXCEPT ![p] = <<>>]
  /\ planned' = [planned EXCEPT ![p] = FALSE]
  /\ attempt' = [attempt EXCEPT ![p] = 0]
  /\ calm' = [calm EXCEPT ![p] = IF how = "ok" THEN 0 ELSE calm[p]]

-----------------------------------------------------------------------------
(***************************************************************************)
(* fetch: ask for the revision, ensure the files of the plan in order.     *)
(***************************************************************************)
Call(p) ==
  /\ pc[p] = "idle"
  /\ Goto(p, "lookup")
  /\ verdict' = [verdict EXCEPT ![p] = "none"]
  /\ calm' = [calm EXCEPT ![p] = IF ~healthy THEN 0 ELSE IF @ = 3 THEN 3 ELSE @ + 1]
  /\ UNCHANGED <<repo, healthy, content, callVars, downloadVars>>

\* Bug: the shards an index names are forgotten.
BuggyEnsuring(p, files, complete) ==
  /\ Goto(p, "ensure")
  /\ todo' = [todo EXCEPT ![p] = files]
  /\ planned' = [planned EXCEPT ![p] = TRUE]
  /\ UNCHANGED <<attempt, verdict, calm>>

Ensuring(p, files, complete) ==
  /\ Goto(p, "ensure")
  /\ todo' = [todo EXCEPT ![p] = files]
  /\ planned' = [planned EXCEPT ![p] = complete]
  /\ UNCHANGED <<attempt, verdict, calm>>

\* repo_info and select_weights.  A single file needs no index to be read.
Lookup(p) ==
  /\ pc[p] = "lookup"
  /\ \/ ~healthy /\ Return(p, "failed")
     \/ Selected = <<>> /\ Return(p, "failed")
     \/ Selected = <<Index>> /\ Ensuring(p, Selected, FALSE)
     \/ Selected = <<Single>> /\ Listed(Planned) /\ Ensuring(p, Planned, TRUE)
     \/ Selected = <<Single>> /\ ~Listed(Planned) /\ Return(p, "failed")
  /\ UNCHANGED <<repo, healthy, content, downloadVars>>

\* Nothing left to ensure: the call is over, or the index is read for its shards.
ReadIndex(p) ==
  /\ pc[p] = "plan"
  /\ \/ planned[p] /\ Return(p, "ok")
     \/ /\ ~planned[p]
        /\ IF Cached(Index) /\ repo.shards # <<>> /\ Listed(Planned)
           THEN Ensuring(p, Planned, TRUE)
           ELSE Return(p, "failed")
  /\ UNCHANGED <<repo, healthy, content, downloadVars>>

NextFile(p) ==
  /\ todo' = [todo EXCEPT ![p] = Tail(@)]
  /\ Goto(p, IF Tail(todo[p]) = <<>> THEN "plan" ELSE "ensure")
  /\ attempt' = [attempt EXCEPT ![p] = 0]
  /\ UNCHANGED <<planned, verdict, calm>>

-----------------------------------------------------------------------------
(***************************************************************************)
(* ensure_file and download_once.                                          *)
(***************************************************************************)
File(p) == Head(todo[p])

Reusable(f) == IF Exists(Target(f)) THEN Verified(f, Target(f)) ELSE "mismatch"

EnsureFile(p) ==
  /\ pc[p] = "ensure"
  /\ \/ Reusable(File(p)) = "match" /\ NextFile(p)
     \/ Reusable(File(p)) = "error" /\ Return(p, "failed")
     \/ /\ Reusable(File(p)) = "mismatch"
        /\ Goto(p, "request")
        /\ attempt' = [attempt EXCEPT ![p] = 1]
        /\ UNCHANGED <<todo, planned, verdict, calm>>
  /\ UNCHANGED <<repo, healthy, content, downloadVars>>

Remove(pl) == content' = Without(pl) /\ Moved(pl, Gone)

\* download_once looks at the .part file: complete, too long, or worth resuming.
Request(p) ==
  LET f == File(p)  onDisk == Length(Part(f)) IN
  /\ pc[p] = "request"
  /\ \/ /\ SizeKnown(f) /\ onDisk = Size(f)
        /\ Goto(p, "verify")
        /\ UNCHANGED <<content, existing, fd>>
     \/ /\ SizeKnown(f) /\ onDisk > Size(f)
        /\ Goto(p, "answer")
        /\ existing' = [existing EXCEPT ![p] = 0]
        /\ Remove(Part(f))
     \/ /\ SizeKnown(f) => onDisk < Size(f)
        /\ Goto(p, "answer")
        /\ existing' = [existing EXCEPT ![p] = onDisk]
        /\ UNCHANGED <<content, fd>>
  /\ UNCHANGED <<repo, healthy, callVars, append, pos, verdict, calm>>

LastAttempt(p) == attempt[p] = Attempts

\* Bug: the attempts are not counted.
BuggyRetry(p) ==
  IF LastAttempt(p) THEN Return(p, "failed")
  ELSE /\ Goto(p, "request")
       /\ UNCHANGED <<attempt, todo, planned, verdict, calm>>

Retry(p) ==
  IF LastAttempt(p) THEN Return(p, "failed")
  ELSE /\ Goto(p, "request")
       /\ attempt' = [attempt EXCEPT ![p] = @ + 1]
       /\ UNCHANGED <<todo, planned, verdict, calm>>

\* No answer, a 5xx, or a status another attempt cannot mend.
NoContent(p) ==
  /\ pc[p] = "answer" /\ ~healthy
  /\ Retry(p) \/ Return(p, "failed")
  /\ existing' = [existing EXCEPT ![p] = 0]
  /\ UNCHANGED <<repo, healthy, content, fd, append, pos>>

\* 416: there is nothing after the bytes on disk.
RangeRejected(p) ==
  LET f == File(p) IN
  /\ pc[p] = "answer" /\ existing[p] > 0
  /\ healthy => existing[p] >= Size(f)
  /\ IF SizeKnown(f) /\ existing[p] = Size(f)
     THEN /\ Goto(p, "verify")
          /\ UNCHANGED <<content, fd, callVars, verdict, calm>>
     ELSE Remove(Part(f)) /\ Retry(p)
  /\ existing' = [existing EXCEPT ![p] = 0]
  /\ UNCHANGED <<repo, healthy, append, pos>>

\* Bug: the answer to a range request is appended even when it is the whole file.
BuggyResumed(p, status) == existing[p] > 0

Resumed(p, status) == status = 206 /\ existing[p] > 0

\* 200 from the first byte, 206 from the byte asked for.
Accepted(p) ==
  LET f == File(p)  part == Part(File(p)) IN
  /\ pc[p] = "answer"
  /\ \E status \in {200, 206} :
       /\ status = 206 => existing[p] \in 1..Size(f) - 1
       /\ append' = [append EXCEPT ![p] = Resumed(p, status)]
       /\ pos' = [pos EXCEPT ![p] = IF status = 206 THEN existing[p] ELSE 0]
       /\ content' = IF Resumed(p, status) /\ Exists(part) THEN content ELSE With(part, <<>>)
  /\ fd' = [fd EXCEPT ![p] = part]
  /\ existing' = [existing EXCEPT ![p] = 0]
  /\ Goto(p, "copy")
  /\ UNCHANGED <<repo, healthy, callVars, verdict, calm>>

\* Block i of the file lands at the end of the open file, or at its own place.
Put(blocks, i, whole, good) ==
  IF whole
  THEN [j \in 1..(IF i > Len(blocks) THEN i ELSE Len(blocks)) |->
         IF j = i THEN good ELSE IF j <= Len(blocks) THEN blocks[j] ELSE FALSE]
  ELSE Append(blocks, good /\ i = Len(blocks) + 1)

Copy(p) ==
  LET i == pos[p] + 1 IN
  /\ pc[p] = "copy" /\ i <= Size(File(p))
  /\ \E good \in IF healthy THEN {TRUE} ELSE BOOLEAN :
       content' = IF fd[p] = Gone THEN content
                  ELSE With(fd[p], Put(content[fd[p]], i, ~append[p], good))
  /\ pos' = [pos EXCEPT ![p] = i]
  /\ UNCHANGED <<repo, healthy, pc, callVars, existing, fd, append, verdict, calm>>

Close(p) ==
  /\ fd' = [fd EXCEPT ![p] = Closed]
  /\ append' = [append EXCEPT ![p] = FALSE]
  /\ pos' = [pos EXCEPT ![p] = 0]

\* The body ended; without a length nobody notices that it ended early.
BodyEnds(p) ==
  /\ pc[p] = "copy"
  /\ healthy => pos[p] = Size(File(p))
  /\ Close(p)
  /\ Goto(p, "verify")
  /\ UNCHANGED <<repo, healthy, content, callVars, existing, verdict, calm>>

\* The connection or the disk gave up: what has arrived stays for the next attempt.
BodyBreaks(p) ==
  /\ pc[p] = "copy" /\ ~healthy
  /\ Close(p)
  /\ Retry(p)
  /\ UNCHANGED <<repo, healthy, content, existing>>

\* Bug: a download with the wrong checksum is left behind.
BuggyDiscard(f) == UNCHANGED <<content, fd>>

Discard(f) == Remove(Part(f))

\* Bug: the length is all that is compared.
BuggyAccepts(f) == IF Length(Part(f)) = Size(f) THEN "match" ELSE "mismatch"

Accepts(f) == Verified(f, Part(f))

VerifyPart(p) ==
  /\ pc[p] = "verify"
  /\ \/ /\ Accepts(File(p)) = "match"
        /\ Goto(p, "replace")
        /\ UNCHANGED <<content, fd, callVars, verdict, calm>>
     \/ /\ Accepts(File(p)) = "mismatch"
        /\ Discard(File(p))
        /\ Return(p, "failed")
     \/ /\ Accepts(File(p)) = "error"
        /\ Return(p, "failed")
        /\ UNCHANGED <<content, fd>>
  /\ UNCHANGED <<repo, healthy, existing, append, pos>>

RemoveTarget(p) ==
  /\ pc[p] = "replace"
  /\ IF Exists(Target(File(p))) THEN Remove(Target(File(p))) ELSE UNCHANGED <<content, fd>>
  /\ Goto(p, "rename")
  /\ UNCHANGED <<repo, healthy, callVars, existing, append, pos, verdict, calm>>

Rename(p) ==
  LET f == File(p) IN
  /\ pc[p] = "rename"
  /\ IF Exists(Part(f))
     THEN /\ content' = [x \in (DOMAIN content \cup {Target(f)}) \ {Part(f)} |->
                            content[IF x = Target(f) THEN Part(f) ELSE x]]
          /\ fd' = [q \in Processes |-> IF fd[q] = Part(f) THEN Target(f)
                                        ELSE IF fd[q] = Target(f) THEN Gone ELSE fd[q]]
          /\ NextFile(p)
     ELSE Return(p, "failed") /\ UNCHANGED <<content, fd>>
  /\ UNCHANGED <<repo, healthy, existing, append, pos>>

-----------------------------------------------------------------------------
\* The other side falls silent, or sends for ever: the agent sets no timeout, so the
\* request hangs, with its .part file open, until somebody kills the process.
Stall(p) ==
  /\ pc[p] \in {"lookup", "answer", "copy"} /\ ~healthy
  /\ Goto(p, "stalled")
  /\ UNCHANGED <<repo, healthy, content, callVars, downloadVars, verdict, calm>>

\* The process is killed; the cache keeps what it wrote.
Die(p) ==
  /\ pc[p] # "idle"
  /\ Goto(p, "idle")
  /\ Close(p)
  /\ verdict' = [verdict EXCEPT ![p] = "none"]
  /\ todo' = [todo EXCEPT ![p] = <<>>]
  /\ planned' = [planned EXCEPT ![p] = FALSE]
  /\ attempt' = [attempt EXCEPT ![p] = 0]
  /\ existing' = [existing EXCEPT ![p] = 0]
  /\ calm' = [calm EXCEPT ![p] = 0]
  /\ UNCHANGED <<repo, healthy, content>>

\* From now on the Hub answers and the connection holds.
Recover ==
  /\ ~healthy
  /\ healthy' = TRUE
  /\ UNCHANGED <<repo, content, pc, callVars, downloadVars, verdict, calm>>

Run(p) ==
  \/ Lookup(p) \/ ReadIndex(p) \/ EnsureFile(p) \/ Request(p) \/ NoContent(p)
  \/ RangeRejected(p) \/ Accepted(p) \/ Copy(p) \/ BodyEnds(p) \/ BodyBreaks(p)
  \/ VerifyPart(p) \/ RemoveTarget(p) \/ Rename(p)

Next ==
  \/ \E p \in Processes : Call(p) \/ Run(p) \/ Stall(p) \/ Die(p)
  \/ Recover

Spec == Init /\ [][Next]_vars

\* What is fair is a process that has something to do: its own work, and an answer
\* that does come.  Stall takes every answer away, and is not excluded.
FairSpec == Spec /\ \A p \in Processes : WF_vars(Run(p))

-----------------------------------------------------------------------------
(***************************************************************************)
(* Properties.                                                             *)
(***************************************************************************)

\* A call that succeeded has left every file it was asked for in the cache, with
\* the published content ("Every file is checked before use", ADR 0029).
SuccessIsPublished ==
  \A p \in Processes : verdict[p] = "ok" => Fetchable /\ \A f \in Wanted : Cached(f)

\* A file gets its final name only with the content whose checksum the Hub
\* publishes, whatever was resumed, retried, damaged or cut short before.
OnlyVerifiedStored ==
  [][\A f \in repo.files :
       \/ ~Exists(Target(f))'
       \/ Exists(Target(f)) /\ content'[Target(f)] = content[Target(f)]
       \/ Cached(f)' /\ f \in repo.summed]_vars

\* What a resumed download appends goes exactly where the bytes on disk end, so
\* damage is the server's, never the resume's.
ResumesAtTheEnd ==
  \A p \in Processes : pc[p] = "copy" => Exists(fd[p]) /\ Len(content[fd[p]]) = pos[p]

\* Of the calls begun while the Hub behaves at most one fails.
OneFailureAtMost ==
  \A p \in Processes : Fetchable /\ pc[p] = "idle" /\ verdict[p] = "failed" => calm[p] <= 1

\* Whatever earlier attempts and calls left behind is built upon or thrown away:
\* a resume continues it where it ends, and a bad .part file costs one call and is
\* gone with it.
HealsAtOnce == ResumesAtTheEnd /\ OneFailureAtMost

\* However long the Hub misbehaves, a call does not go on for ever: it returns,
\* because attempts are bounded, or it hangs in a request that nobody answers.
\* A call that has come to the time when the Hub behaves returns.
CallEnds ==
  \A p \in Processes :
    /\ pc[p] # "idle" ~> pc[p] \in {"idle", "stalled"}
    /\ healthy /\ pc[p] \notin {"idle", "stalled"} ~> pc[p] = "idle"
=============================================================================
