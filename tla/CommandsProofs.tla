--------------------------- MODULE CommandsProofs ---------------------------
(***************************************************************************)
(* Proofs about HubFetch for any revisions, files and number of attempts,  *)
(* and about Commands, whose runs fetch, for every set of command lines.   *)
(* What a cache directory holds is proved for one process: two that share  *)
(* a directory can undo each other's checks.                               *)
(***************************************************************************)
EXTENDS HubFetch, Commands, FiniteSetTheorems, SequenceTheorems, TLAPS

\* At most one process works in the cache directory.
Alone == \A p, q \in Processes : p = q

\* No published file is empty.
NoEmptyFiles == \A r \in Repos : \A f \in r.files : r.size[f] > 0

Downloading == {"request", "answer", "copy", "verify", "replace", "rename"}

\* The files the cache holds, verified.
Stored == {f \in repo.summed : Cached(f)}

-----------------------------------------------------------------------------
(***************************************************************************)
(* The invariants.                                                         *)
(***************************************************************************)

\* What a process knows of its call.
CallOK ==
  /\ pc \in [Processes -> {"idle", "stalled"} \cup Working]
  /\ todo \in [Processes -> Seq(repo.files)]
  /\ \A p \in Processes : pc[p] \in Working \ {"lookup", "plan"} => todo[p] # <<>>
  /\ planned \in [Processes -> BOOLEAN]
  /\ attempt \in [Processes -> 0..Attempts]
  /\ verdict \in [Processes -> {"none", "ok", "failed"}]
  /\ calm \in [Processes -> 0..3]

\* What it knows of its download.
DownloadOK ==
  /\ existing \in [Processes -> Nat]
  /\ append \in [Processes -> BOOLEAN]
  /\ pos \in [Processes -> Nat]

\* What the directory holds.
ContentOK == DOMAIN content \subseteq Places /\ \A pl \in DOMAIN content : content[pl] \in Seq(BOOLEAN)

\* An open .part file is one that exists, unless it was removed.
OpenOK ==
  /\ fd \in [Processes -> Places \cup {Closed, Gone}]
  /\ \A p \in Processes : fd[p] \in DOMAIN content \cup {Closed, Gone}

\* A process that copies has a file open.
CopyOpen == \A p \in Processes : pc[p] = "copy" => fd[p] # Closed

Basic ==
  /\ repo \in Repos /\ healthy \in BOOLEAN
  /\ CallOK /\ DownloadOK /\ ContentOK /\ OpenOK /\ CopyOpen

\* The first n files of the plan are done.
DoneUpTo(n) == \A i \in 1..n : Planned[i] \in Stored

\* With the plan complete: what is still to do is its rest, what comes before is done.
OnPlan(p) ==
  /\ Selected # <<>> /\ (Single \in repo.files \/ repo.shards # <<>>) /\ Listed(Planned)
  /\ \E k \in 0..Len(Planned) :
       /\ Len(todo[p]) = Len(Planned) - k
       /\ \A i \in 1..Len(todo[p]) : todo[p][i] = Planned[k + i]
       /\ DoneUpTo(k)

\* Before: the index is to do, or done.
OnIndex(p) ==
  /\ Selected = <<Index>>
  /\ todo[p] = <<Index>> \/ (todo[p] = <<>> /\ Index \in Stored)

InPlan ==
  \A p \in Processes :
    /\ pc[p] \notin {"idle", "lookup", "stalled"} => IF planned[p] THEN OnPlan(p) ELSE OnIndex(p)
    /\ pc[p] = "plan" => todo[p] = <<>>
    /\ pc[p] # "idle" => verdict[p] = "none"

\* The files the cache lacks, or holds damaged.
Missing == {f \in repo.files : Reusable(f) = "mismatch"}

\* A file is downloaded only when the cache does not hold it.
DownloadsMissing == \A p \in Processes : pc[p] \in Downloading => File(p) \in Missing

\* What the .part file holds while the process works on it.
PartInv ==
  \A p \in Processes :
    LET f == File(p)  part == Part(File(p)) IN
    /\ pc[p] \notin {"copy", "stalled"} => fd[p] = Closed
    /\ pc[p] = "answer" => /\ existing[p] \in {0, Length(part)}
                           /\ SizeKnown(f) => existing[p] = 0 \/ existing[p] < Size(f)
    /\ pc[p] = "copy" => /\ fd[p] = part /\ Exists(part)
                         /\ Len(content[part]) = pos[p] /\ pos[p] <= Size(f)
    /\ pc[p] \in {"replace", "rename"} => /\ Exists(part) /\ content[part] = Published(f)
                                         /\ f \in repo.summed

\* The invariant behind what a successful call leaves.
CacheInv == Basic /\ InPlan /\ DownloadsMissing /\ PartInv /\ SuccessIsPublished

-----------------------------------------------------------------------------
\* A .part file that a resume would build upon although a block of it is wrong.
Harmful(f) ==
  /\ Exists(Part(f)) /\ Len(content[Part(f)]) <= Size(f)
  /\ \E i \in 1..Len(content[Part(f)]) : ~content[Part(f)][i]

NoHarm == \A f \in Wanted : ~Harmful(f)

\* Only the first file of the plan that is not done has a harmful .part file.
HarmIsFirst ==
  \A f \in Wanted : Harmful(f) =>
    /\ f \notin Stored
    /\ \E j \in 1..Len(Planned) : Planned[j] = f /\ DoneUpTo(j - 1)

\* What a call begun while the Hub behaves, of files that can be fetched, knows: it
\* never tries twice to resume, a download is whole, and harm outlives one failure.
CalmAt(p) ==
  /\ pc[p] \in {"request", "answer"} /\ Exists(Part(File(p))) => attempt[p] = 1
  /\ pc[p] = "verify" => Exists(Part(File(p))) /\ Len(content[Part(File(p))]) = Size(File(p))
  /\ calm[p] >= 2 \/ pc[p] = "idle" => NoHarm
  /\ calm[p] >= 2 /\ pc[p] = "idle" => verdict[p] # "failed"

CalmInv == \A p \in Processes : calm[p] >= 1 => healthy /\ (Fetchable => CalmAt(p))

HealInv == CacheInv /\ HarmIsFirst /\ CalmInv

-----------------------------------------------------------------------------
(***************************************************************************)
(* Places, contents and the plan.                                          *)
(***************************************************************************)

LEMMA PlaceFacts ==
  /\ \A f, g : Target(f) # Part(g)
  /\ \A f, g : Target(f) = Target(g) => f = g
  /\ \A f, g : Part(f) = Part(g) => f = g
  /\ \A f : {Target(f), Part(f)} \cap {Closed, Gone} = {}
  /\ Closed # Gone
  BY DEF Target, Part, Closed, Gone

\* The files of the published revision have places.
LEMMA FilePlaces ==
  ASSUME repo \in Repos, NEW f \in repo.files
  PROVE  Target(f) \in Places /\ Part(f) \in Places
  BY DEF Places, Names

LEMMA WithFacts ==
  ASSUME NEW pl, NEW blocks
  PROVE  /\ DOMAIN With(pl, blocks) = DOMAIN content \cup {pl}
         /\ With(pl, blocks)[pl] = blocks
         /\ \A x \in DOMAIN content : x # pl => With(pl, blocks)[x] = content[x]
  BY DEF With

LEMMA WithoutFacts ==
  ASSUME NEW pl
  PROVE  /\ DOMAIN Without(pl) = DOMAIN content \ {pl}
         /\ \A x \in DOMAIN content : x # pl => Without(pl)[x] = content[x]
  BY DEF Without, Restrict

LEMMA SingleSeq ==
  ASSUME NEW S, NEW e \in S
  PROVE  <<e>> \in Seq(S) /\ <<e>> # <<>>
  OBVIOUS

LEMMA BlocksSeq ==
  ASSUME NEW n \in Nat, NEW b \in [1..n -> BOOLEAN]
  PROVE  b \in Seq(BOOLEAN) /\ Len(b) = n
  OBVIOUS

\* A block lands in its place and nowhere else.
LEMMA PutFacts ==
  ASSUME NEW b \in Seq(BOOLEAN), NEW i \in Nat \ {0},
         NEW whole \in BOOLEAN, NEW good \in BOOLEAN
  PROVE  /\ Put(b, i, whole, good) \in Seq(BOOLEAN)
         /\ i = Len(b) + 1 =>
              /\ Len(Put(b, i, whole, good)) = i
              /\ Put(b, i, whole, good)[i] <=> good
              /\ \A j \in 1..Len(b) : Put(b, i, whole, good)[j] <=> b[j]
<1>1. Len(b) \in Nat /\ \A j \in 1..Len(b) : b[j] \in BOOLEAN
  OBVIOUS
<1>2. CASE whole
  <2> DEFINE m == IF i > Len(b) THEN i ELSE Len(b)
             g == [j \in 1..m |-> IF j = i THEN good ELSE IF j <= Len(b) THEN b[j] ELSE FALSE]
  <2>1. m \in Nat /\ (i = Len(b) + 1 => m = i)
    BY <1>1
  <2>2. Put(b, i, whole, good) = g
    BY <1>2 DEF Put
  <2>3. \A j \in 1..m : g[j] \in BOOLEAN
    <3>1. \A j \in 1..m : j <= Len(b) => b[j] \in BOOLEAN
      BY <1>1
    <3> SUFFICES ASSUME NEW j \in 1..m PROVE g[j] \in BOOLEAN
      OBVIOUS
    <3> HIDE DEF m
    <3>2. g[j] = IF j = i THEN good ELSE IF j <= Len(b) THEN b[j] ELSE FALSE
      BY Zenon
    <3> HIDE DEF g
    <3>3. QED
      BY <3>1, <3>2, Zenon
  <2>4. \A j \in 1..m : /\ j = i => g[j] = good
                        /\ j # i /\ j <= Len(b) => g[j] = b[j]
    OBVIOUS
  <2>5. DOMAIN g = 1..m
    OBVIOUS
  <2>6. g \in [1..m -> BOOLEAN]
    <3>1. g = [j \in 1..m |-> g[j]]
      OBVIOUS
    <3> HIDE DEF g
    <3>2. QED
      BY <2>3, <3>1
  <2> HIDE DEF g, m
  <2>7. g \in Seq(BOOLEAN) /\ Len(g) = m
    BY <2>1, <2>6
  <2>8. ASSUME i = Len(b) + 1
        PROVE  /\ Len(g) = i /\ (g[i] <=> good)
               /\ \A j \in 1..Len(b) : g[j] <=> b[j]
    <3>1. i \in 1..m /\ \A j \in 1..Len(b) : j \in 1..m /\ j # i /\ j <= Len(b)
      BY <1>1, <2>1, <2>8
    <3>2. QED
      BY <2>1, <2>4, <2>7, <2>8, <3>1
  <2>9. QED
    BY <2>2, <2>7, <2>8
<1>3. CASE ~whole
  <2> DEFINE e == good /\ i = Len(b) + 1
  <2>1. Put(b, i, whole, good) = Append(b, e)
    BY <1>3 DEF Put
  <2>2. e \in BOOLEAN /\ (i = Len(b) + 1 => (e <=> good))
    OBVIOUS
  <2> HIDE DEF e
  <2>3. /\ Append(b, e) \in Seq(BOOLEAN) /\ Len(Append(b, e)) = Len(b) + 1
        /\ Append(b, e)[Len(b) + 1] = e
        /\ \A j \in 1..Len(b) : Append(b, e)[j] = b[j]
    BY <2>2
  <2>4. QED
    BY <2>1, <2>2, <2>3
<1>4. QED
  BY <1>2, <1>3

\* The files at some positions form a sequence.
LEMMA EntriesAtSeq ==
  ASSUME NEW S, NEW s \in Seq(S), NEW P \in SUBSET (DOMAIN s)
  PROVE  \E T : EntriesAt(s, P) \in Seq(T)
<1> DEFINE e == EntriesAt(s, P)
           n == Cardinality(P)
           T == {e[k] : k \in 1..n}
<1>1. Len(s) \in Nat /\ DOMAIN s = 1..Len(s)
  OBVIOUS
<1>2. n \in Nat
  <2>1. IsFiniteSet(1..Len(s))
    BY <1>1, FS_Interval
  <2>2. IsFiniteSet(P)
    BY <1>1, <2>1, FS_Subset
  <2>3. QED
    BY <2>2, FS_CardinalityType
<1>3. e = [k \in 1..n |-> e[k]]
  BY DEF EntriesAt
<1> HIDE DEF e, n
<1>4. e \in [1..n -> T]
  BY <1>3
<1>5. e \in Seq(T)
  BY <1>2, <1>4
<1>6. QED
  BY <1>5 DEF e

\* A plan is a sequence, and starts with the index where there is one.
LEMMA PlanFacts ==
  ASSUME repo \in Repos
  PROVE  /\ Planned \in Seq(Wanted) /\ Len(Planned) \in Nat
         /\ Wanted = {Planned[i] : i \in 1..Len(Planned)}
         /\ Selected = <<Index>> => Len(Planned) > 0 /\ Planned[1] = Index
         /\ Selected # <<>> \/ repo.shards # <<>> => Len(Planned) > 0
<1> DEFINE s == IF Single \in repo.files THEN Selected ELSE Selected \o repo.shards
           P == {i \in DOMAIN Extras : /\ \A j \in DOMAIN s : s[j] # Extras[i]
                                       /\ \A j \in 1..(i - 1) : Extras[j] # Extras[i]}
<1>1. repo.shards \in Seq(STRING) /\ Extras \in Seq(STRING)
  BY HubAssumption
<1>2. Selected \in Seq(STRING)
  <2>1. <<Single>> \in Seq(STRING) /\ <<Index>> \in Seq(STRING) /\ <<>> \in Seq(STRING)
    BY HubAssumption
  <2>2. QED
    BY <2>1 DEF Selected
<1>3. /\ s \in Seq(STRING)
      /\ Selected = <<Index>> => Len(s) > 0 /\ s[1] = Index
      /\ Selected # <<>> \/ repo.shards # <<>> => Len(s) > 0
  <2>1. CASE Single \in repo.files
    <3>1. s = Selected /\ Selected = <<Single>>
      BY <2>1 DEF Selected
    <3>2. Selected # <<Index>>
      BY <3>1, HubAssumption
    <3> HIDE DEF s
    <3>3. QED
      BY <1>2, <3>1, <3>2
  <2>2. CASE Single \notin repo.files
    <3>1. s = Selected \o repo.shards
      BY <2>2
    <3> HIDE DEF s
    <3>2. s \in Seq(STRING)
      BY <1>1, <1>2, <3>1
    <3>3. ASSUME Selected = <<Index>> PROVE Len(s) > 0 /\ s[1] = Index
      BY <1>1, <1>2, <3>1, <3>3
    <3>4. Selected # <<>> \/ repo.shards # <<>> => Len(s) > 0
      BY <1>1, <1>2, <3>1
    <3>5. QED
      BY <3>2, <3>3, <3>4
  <2>3. QED
    BY <2>1, <2>2
<1>4. Planned = s \o EntriesAt(Extras, P)
  BY DEF Planned, WithExtras
<1>5. P \in SUBSET (DOMAIN Extras)
  OBVIOUS
<1> HIDE DEF s, P
<1>6. PICK T : EntriesAt(Extras, P) \in Seq(T)
  BY <1>1, <1>5, EntriesAtSeq
<1>7. s \in Seq(STRING \cup T) /\ EntriesAt(Extras, P) \in Seq(STRING \cup T)
  <2>1. s \in Seq(STRING \cup T)
    BY <1>3
  <2>2. EntriesAt(Extras, P) \in Seq(STRING \cup T)
    BY <1>6
  <2>3. QED
    BY <2>1, <2>2
<1>8. /\ Planned \in Seq(STRING \cup T)
      /\ Selected = <<Index>> => Len(Planned) > 0 /\ Planned[1] = Index
      /\ Selected # <<>> \/ repo.shards # <<>> => Len(Planned) > 0
  BY <1>3, <1>4, <1>7
<1>9. Len(Planned) \in Nat /\ DOMAIN Planned = 1..Len(Planned)
  BY <1>8
<1>10. Wanted = {Planned[i] : i \in 1..Len(Planned)}
  BY <1>9 DEF Wanted
<1>11. Planned \in Seq(Wanted)
  <2>1. Planned = [i \in 1..Len(Planned) |-> Planned[i]]
    BY <1>8
  <2>2. Planned \in [1..Len(Planned) -> Wanted]
    BY <1>10, <2>1
  <2>3. QED
    BY <1>9, <2>2
<1>12. QED
  BY <1>8, <1>9, <1>10, <1>11

\* A plan whose files are all listed can be ensured.
LEMMA ListedPlan ==
  ASSUME repo \in Repos, Listed(Planned)
  PROVE  Planned \in Seq(repo.files)
<1>1. Planned \in Seq(Wanted) /\ DOMAIN Planned = 1..Len(Planned)
  BY PlanFacts
<1>2. \A i \in 1..Len(Planned) : Planned[i] \in repo.files
  BY <1>1 DEF Listed
<1>3. QED
  BY <1>1, <1>2

-----------------------------------------------------------------------------
(***************************************************************************)
(* Types, for any number of processes.                                     *)
(***************************************************************************)

LEMMA InitBasic == Init => Basic
<1> SUFFICES ASSUME Init PROVE Basic
  OBVIOUS
<1>1. repo \in Repos /\ healthy \in BOOLEAN
  BY DEF Init
<1>2. CallOK
  BY HubAssumption DEF Init, CallOK, Working
<1>3. DownloadOK /\ CopyOpen
  BY DEF Init, DownloadOK, CopyOpen
<1>4. ContentOK
  <2>1. PICK f \in repo.files :
          content \in {<<>>, Only(Target(f), <<>>), Only(Target(f), [i \in 1..Size(f) |-> FALSE]),
                       Only(Part(f), [i \in 1..Size(f) + 1 |-> i # Size(f) + 1])}
    BY DEF Init
  <2>2. Target(f) \in Places /\ Part(f) \in Places
    BY <1>1, FilePlaces
  <2>3. Size(f) \in Nat
    BY <1>1, HubAssumption DEF Size
  <2>4. [i \in 1..Size(f) |-> FALSE] \in Seq(BOOLEAN)
    <3>1. [i \in 1..Size(f) |-> FALSE] \in [1..Size(f) -> BOOLEAN]
      OBVIOUS
    <3>2. QED
      BY <2>3, <3>1, BlocksSeq
  <2>5. [i \in 1..Size(f) + 1 |-> i # Size(f) + 1] \in Seq(BOOLEAN)
    <3>1. [i \in 1..Size(f) + 1 |-> i # Size(f) + 1] \in [1..Size(f) + 1 -> BOOLEAN]
      OBVIOUS
    <3>2. Size(f) + 1 \in Nat
      BY <2>3
    <3>3. QED
      BY <3>1, <3>2, BlocksSeq
  <2>6. \A pl \in Places, b \in Seq(BOOLEAN) :
          DOMAIN Only(pl, b) \subseteq Places /\ \A x \in DOMAIN Only(pl, b) : Only(pl, b)[x] \in Seq(BOOLEAN)
    BY DEF Only
  <2>7. <<>> \in Seq(BOOLEAN)
    OBVIOUS
  <2>8. CASE content = <<>>
    BY <2>8 DEF ContentOK
  <2>9. CASE content # <<>>
    <3> DEFINE zero == [i \in 1..Size(f) |-> FALSE]
               long == [i \in 1..Size(f) + 1 |-> i # Size(f) + 1]
    <3>1. content \in {Only(Target(f), <<>>), Only(Target(f), zero), Only(Part(f), long)}
      BY <2>1, <2>9
    <3>2. zero \in Seq(BOOLEAN) /\ long \in Seq(BOOLEAN)
      BY <2>4, <2>5
    <3> HIDE DEF zero, long
    <3>3. QED
      BY <2>2, <2>6, <2>7, <3>1, <3>2 DEF ContentOK
  <2>10. QED
    BY <2>8, <2>9
<1>5. OpenOK
  BY DEF Init, OpenOK
<1>6. QED
  BY <1>1, <1>2, <1>3, <1>4, <1>5 DEF Basic

(***************************************************************************)
(* What the operators shared by the actions keep.                          *)
(***************************************************************************)

LEMMA GotoCall ==
  ASSUME CallOK, repo' = repo, NEW p \in Processes, NEW place \in Working, Goto(p, place),
         place \notin {"lookup", "plan"} => todo[p] # <<>>,
         UNCHANGED <<todo, planned, attempt, verdict, calm>>
  PROVE  CallOK'
  BY DEF CallOK, Goto

LEMMA ReturnCall ==
  ASSUME CallOK, repo' = repo, NEW p \in Processes, NEW how \in {"ok", "failed"}, Return(p, how)
  PROVE  CallOK' /\ pc' = [pc EXCEPT ![p] = "idle"]
<1>1. todo' \in [Processes -> Seq(repo.files)]
  <2>1. <<>> \in Seq(repo.files)
    OBVIOUS
  <2>2. QED
    BY <2>1 DEF CallOK, Return
<1>2. attempt' \in [Processes -> 0..Attempts]
  BY HubAssumption DEF CallOK, Return
<1>3. QED
  BY <1>1, <1>2 DEF CallOK, Return, Goto, Working

LEMMA EnsuringCall ==
  ASSUME CallOK, repo' = repo, NEW p \in Processes, NEW files \in Seq(repo.files), files # <<>>,
         NEW complete \in BOOLEAN, Ensuring(p, files, complete)
  PROVE  CallOK'
  BY DEF CallOK, Ensuring, Goto, Working

LEMMA NextFileCall ==
  ASSUME CallOK, repo' = repo, NEW p \in Processes, todo[p] # <<>>, NextFile(p)
  PROVE  CallOK'
<1>1. Tail(todo[p]) \in Seq(repo.files)
  BY DEF CallOK
<1>2. todo' \in [Processes -> Seq(repo.files)] /\ todo'[p] = Tail(todo[p])
  BY <1>1 DEF CallOK, NextFile
<1>3. pc' \in [Processes -> {"idle", "stalled"} \cup Working]
  BY DEF CallOK, NextFile, Goto, Working
<1>4. \A q \in Processes : pc'[q] \in Working \ {"lookup", "plan"} => todo'[q] # <<>>
  BY <1>2 DEF CallOK, NextFile, Goto
<1>5. attempt' \in [Processes -> 0..Attempts]
  BY HubAssumption DEF CallOK, NextFile
<1>6. QED
  BY <1>2, <1>3, <1>4, <1>5 DEF CallOK, NextFile

LEMMA RetryCall ==
  ASSUME CallOK, repo' = repo, NEW p \in Processes, todo[p] # <<>>, Retry(p)
  PROVE  CallOK' /\ pc'[p] \in {"idle", "request"} /\ \A q \in Processes : q # p => pc'[q] = pc[q]
<1>1. CASE LastAttempt(p)
  <2>1. Return(p, "failed")
    BY <1>1 DEF Retry
  <2>2. QED
    BY <2>1, ReturnCall DEF CallOK
<1>2. CASE ~LastAttempt(p)
  <2>1. /\ Goto(p, "request") /\ attempt' = [attempt EXCEPT ![p] = @ + 1]
        /\ UNCHANGED <<todo, planned, verdict, calm>>
    BY <1>2 DEF Retry
  <2>2. attempt' \in [Processes -> 0..Attempts]
    BY <1>2, <2>1, HubAssumption DEF CallOK, LastAttempt
  <2>3. QED
    BY <2>1, <2>2 DEF CallOK, Goto, Working
<1>3. QED
  BY <1>1, <1>2

LEMMA RemoveDisk ==
  ASSUME ContentOK, OpenOK, NEW pl \in Places, Remove(pl)
  PROVE  /\ ContentOK' /\ OpenOK' /\ content' = Without(pl)
         /\ \A q \in Processes : fd'[q] = fd[q] \/ fd'[q] = Gone
<1>1. /\ DOMAIN content' = DOMAIN content \ {pl}
      /\ \A x \in DOMAIN content : x # pl => content'[x] = content[x]
      /\ content' = Without(pl)
  BY WithoutFacts DEF Remove
<1>2. fd' = [q \in Processes |-> IF fd[q] = pl THEN Gone ELSE fd[q]]
  BY DEF Remove, Moved
<1>3. ContentOK'
  BY <1>1 DEF ContentOK
<1>4. OpenOK'
  BY <1>1, <1>2 DEF OpenOK
<1>5. QED
  BY <1>1, <1>2, <1>3, <1>4

LEMMA WithDisk ==
  ASSUME ContentOK, NEW pl \in Places, NEW b \in Seq(BOOLEAN), content' = With(pl, b)
  PROVE  ContentOK' /\ DOMAIN content' = DOMAIN content \cup {pl}
<1>1. /\ DOMAIN content' = DOMAIN content \cup {pl}
      /\ content'[pl] = b
      /\ \A x \in DOMAIN content : x # pl => content'[x] = content[x]
  BY DEF With
<1>2. \A x \in DOMAIN content' : content'[x] \in Seq(BOOLEAN)
  BY <1>1 DEF ContentOK
<1>3. DOMAIN content' \subseteq Places
  BY <1>1 DEF ContentOK
<1>4. QED
  BY <1>1, <1>2, <1>3 DEF ContentOK

\* The file a working process is at.
LEMMA FileFacts ==
  ASSUME Basic, NEW p \in Processes, pc[p] \in Working \ {"lookup", "plan"}
  PROVE  /\ todo[p] # <<>> /\ todo[p] \in Seq(repo.files) /\ File(p) \in repo.files
         /\ Size(File(p)) \in Nat
         /\ Target(File(p)) \in Places /\ Part(File(p)) \in Places
<1>1. todo[p] # <<>> /\ todo[p] \in Seq(repo.files) /\ repo \in Repos
  BY DEF Basic, CallOK
<1>2. File(p) \in repo.files
  BY <1>1 DEF File
<1>3. Size(File(p)) \in Nat
  BY <1>1, <1>2, HubAssumption DEF Size
<1>4. QED
  BY <1>1, <1>2, <1>3, FilePlaces

(***************************************************************************)
(* Every step keeps the types.                                             *)
(***************************************************************************)

LEMMA LookupBasic ==
  ASSUME Basic, NEW p \in Processes, Lookup(p) \/ ReadIndex(p)
  PROVE  Basic'
<1> USE DEF Basic
<1>1. repo' = repo /\ UNCHANGED <<healthy, content, existing, fd, append, pos>>
  BY DEF Lookup, ReadIndex, downloadVars
<1>2. CallOK'
  <2>1. CASE \E how \in {"ok", "failed"} : Return(p, how)
    BY <1>1, <2>1, ReturnCall
  <2>2. CASE Selected = <<Index>> /\ Ensuring(p, Selected, FALSE)
    <3>1. Index \in repo.files
      BY <2>2, HubAssumption DEF Selected
    <3>2. <<Index>> \in Seq(repo.files) /\ <<Index>> # <<>>
      BY <3>1, SingleSeq
    <3>3. QED
      <4>1. Selected \in Seq(repo.files) /\ Selected # <<>>
        BY <2>2, <3>2
      <4>2. QED
        BY <1>1, <2>2, <4>1, EnsuringCall
  <2>3. CASE Listed(Planned) /\ (Selected # <<>> \/ repo.shards # <<>>) /\ Ensuring(p, Planned, TRUE)
    <3>1. Planned \in Seq(repo.files) /\ Len(Planned) > 0
      BY <2>3, ListedPlan, PlanFacts
    <3>2. Planned # <<>>
      BY <3>1
    <3>3. QED
      BY <1>1, <2>3, <3>1, <3>2, EnsuringCall
  <2>4. QED
    <3>1. <<Single>> # <<>>
      OBVIOUS
    <3>2. QED
      BY <2>1, <2>2, <2>3, <3>1, Zenon DEF Lookup, ReadIndex
<1>3. CopyOpen'
  <2>1. pc[p] # "copy" /\ pc'[p] # "copy" /\ \A q \in Processes : q # p => pc'[q] = pc[q]
    BY DEF Lookup, ReadIndex, Return, Ensuring, Goto, CallOK
  <2>2. QED
    BY <1>1, <2>1 DEF CopyOpen
<1>4. QED
  BY <1>1, <1>2, <1>3 DEF DownloadOK, ContentOK, OpenOK

LEMMA EnsureBasic ==
  ASSUME Basic, NEW p \in Processes, EnsureFile(p)
  PROVE  Basic'
<1> USE DEF Basic
<1>1. repo' = repo /\ UNCHANGED <<healthy, content, existing, fd, append, pos>> /\ pc[p] = "ensure"
  BY DEF EnsureFile, downloadVars
<1>2. todo[p] # <<>>
  BY <1>1, FileFacts DEF Working
<1>3. CallOK'
  <2>1. CASE NextFile(p)
    BY <1>1, <1>2, <2>1, NextFileCall
  <2>2. CASE Return(p, "failed")
    BY <1>1, <2>2, ReturnCall
  <2>3. CASE Goto(p, "request") /\ attempt' = [attempt EXCEPT ![p] = 1] /\ UNCHANGED <<todo, planned, verdict, calm>>
    BY <1>1, <1>2, <2>3, HubAssumption DEF CallOK, Goto, Working
  <2>4. QED
    BY <2>1, <2>2, <2>3 DEF EnsureFile
<1>4. CopyOpen'
  <2>1. pc'[p] # "copy" /\ \A q \in Processes : q # p => pc'[q] = pc[q]
    BY DEF EnsureFile, NextFile, Return, Goto, CallOK
  <2>2. QED
    BY <1>1, <2>1 DEF CopyOpen
<1>5. QED
  BY <1>1, <1>3, <1>4 DEF DownloadOK, ContentOK, OpenOK

LEMMA RequestBasic ==
  ASSUME Basic, NEW p \in Processes, Request(p)
  PROVE  Basic'
<1> USE DEF Basic
<1>1. /\ UNCHANGED <<repo, healthy, todo, planned, attempt, append, pos, verdict, calm>> /\ pc[p] = "request"
      /\ Goto(p, "verify") \/ Goto(p, "answer")
  BY DEF Request, callVars
<1>2. todo[p] # <<>> /\ Part(File(p)) \in Places
  BY <1>1, FileFacts DEF Working
<1>3. CallOK'
  BY <1>1, <1>2, GotoCall DEF Working
<1>4. DownloadOK'
  <2>1. Length(Part(File(p))) \in Nat
    BY DEF Length, Exists, ContentOK
  <2>2. existing' \in [Processes -> Nat]
    BY <2>1 DEF Request, DownloadOK
  <2>3. QED
    BY <1>1, <2>2 DEF DownloadOK
<1>5. /\ ContentOK' /\ OpenOK'
      /\ \A q \in Processes : fd'[q] = fd[q] \/ fd'[q] = Gone
  <2>1. CASE UNCHANGED <<content, fd>>
    BY <2>1 DEF ContentOK, OpenOK
  <2>2. CASE Remove(Part(File(p)))
    BY <1>2, <2>2, RemoveDisk
  <2>3. QED
    BY <2>1, <2>2 DEF Request
<1>6. CopyOpen'
  <2>1. pc'[p] # "copy" /\ \A q \in Processes : q # p => pc'[q] = pc[q]
    BY <1>1 DEF Goto, CallOK
  <2>2. QED
    BY <1>5, <2>1, PlaceFacts DEF CopyOpen
<1>7. QED
  BY <1>1, <1>3, <1>4, <1>5, <1>6

LEMMA AnswerBasic ==
  ASSUME Basic, NEW p \in Processes, NoContent(p) \/ RangeRejected(p)
  PROVE  Basic'
<1> USE DEF Basic
<1>1. /\ UNCHANGED <<repo, healthy, append, pos>> /\ pc[p] = "answer"
      /\ existing' = [existing EXCEPT ![p] = 0]
  BY DEF NoContent, RangeRejected
<1>2. todo[p] # <<>> /\ Part(File(p)) \in Places
  BY <1>1, FileFacts DEF Working
<1>3. CallOK' /\ pc'[p] # "copy" /\ \A q \in Processes : q # p => pc'[q] = pc[q]
  <2>1. CASE Retry(p)
    BY <1>1, <1>2, <2>1, RetryCall
  <2>2. CASE Return(p, "failed")
    BY <1>1, <2>2, ReturnCall DEF CallOK
  <2>3. CASE Goto(p, "verify") /\ UNCHANGED <<todo, planned, attempt, verdict, calm>>
    <3>1. CallOK'
      BY <1>1, <1>2, <2>3, GotoCall DEF Working
    <3>2. QED
      BY <3>1, <2>3 DEF Goto, CallOK
  <2>4. QED
    BY <2>1, <2>2, <2>3 DEF NoContent, RangeRejected, callVars
<1>4. DownloadOK'
  BY <1>1 DEF DownloadOK
<1>5. /\ ContentOK' /\ OpenOK'
      /\ \A q \in Processes : fd'[q] = fd[q] \/ fd'[q] = Gone
  <2>1. CASE UNCHANGED <<content, fd>>
    BY <2>1 DEF ContentOK, OpenOK
  <2>2. CASE Remove(Part(File(p)))
    BY <1>2, <2>2, RemoveDisk
  <2>3. QED
    BY <2>1, <2>2 DEF NoContent, RangeRejected
<1>6. CopyOpen'
  BY <1>3, <1>5, PlaceFacts DEF CopyOpen
<1>7. QED
  BY <1>1, <1>3, <1>4, <1>5, <1>6

LEMMA AcceptedBasic ==
  ASSUME Basic, NEW p \in Processes, Accepted(p)
  PROVE  Basic'
<1> USE DEF Basic
<1> DEFINE part == Part(File(p))
<1>1. /\ UNCHANGED <<repo, healthy, todo, planned, attempt, verdict, calm>> /\ pc[p] = "answer"
      /\ existing' = [existing EXCEPT ![p] = 0] /\ fd' = [fd EXCEPT ![p] = part]
      /\ Goto(p, "copy")
  BY DEF Accepted, callVars
<1>2. todo[p] # <<>> /\ part \in Places
  BY <1>1, FileFacts DEF Working
<1>3. CallOK'
  BY <1>1, <1>2, GotoCall DEF Working
<1>4. DownloadOK'
  <2>1. \E b \in BOOLEAN : append' = [append EXCEPT ![p] = b]
    BY DEF Accepted, Resumed
  <2>2. \E n \in Nat : pos' = [pos EXCEPT ![p] = n]
    <3>1. existing[p] \in Nat /\ 0 \in Nat
      BY DEF DownloadOK
    <3>2. pos' = [pos EXCEPT ![p] = existing[p]] \/ pos' = [pos EXCEPT ![p] = 0]
      BY Zenon DEF Accepted
    <3>3. QED
      BY <3>1, <3>2
  <2>3. QED
    BY <1>1, <2>1, <2>2 DEF DownloadOK
<1>5. ContentOK' /\ DOMAIN content' = DOMAIN content \cup {part}
  <2>1. CASE content' = content /\ Exists(part)
    BY <2>1 DEF ContentOK, Exists
  <2>2. CASE content' = With(part, <<>>)
    <3>1. <<>> \in Seq(BOOLEAN)
      OBVIOUS
    <3>2. QED
      BY <1>2, <2>2, <3>1, WithDisk
  <2>3. QED
    BY <2>1, <2>2 DEF Accepted
<1> HIDE DEF part
<1>6. OpenOK'
  BY <1>1, <1>2, <1>5 DEF OpenOK
<1>7. CopyOpen'
  <2>1. part # Closed
    BY PlaceFacts DEF part
  <2>2. \A q \in Processes : q # p => pc'[q] = pc[q] /\ fd'[q] = fd[q]
    BY <1>1 DEF Goto, CallOK, OpenOK
  <2>3. fd'[p] = part
    BY <1>1 DEF OpenOK
  <2>4. QED
    BY <2>1, <2>2, <2>3 DEF CopyOpen
<1>8. QED
  BY <1>1, <1>3, <1>4, <1>5, <1>6, <1>7

LEMMA CopyBasic ==
  ASSUME Basic, NEW p \in Processes, Copy(p)
  PROVE  Basic'
<1> USE DEF Basic
<1>1. /\ UNCHANGED <<repo, healthy, pc, todo, planned, attempt, existing, fd, append, verdict, calm>>
      /\ pc[p] = "copy" /\ pos' = [pos EXCEPT ![p] = pos[p] + 1]
  BY DEF Copy, callVars
<1>2. DownloadOK'
  BY <1>1 DEF DownloadOK
<1>3. ContentOK' /\ DOMAIN content \subseteq DOMAIN content'
  <2>1. CASE content' = content
    BY <2>1 DEF ContentOK
  <2>2. CASE content' # content
    <3>1. PICK good \in BOOLEAN :
            fd[p] # Gone /\ content' = With(fd[p], Put(content[fd[p]], pos[p] + 1, ~append[p], good))
      BY <2>2 DEF Copy
    <3>2. fd[p] \in DOMAIN content /\ fd[p] \in Places /\ content[fd[p]] \in Seq(BOOLEAN)
      BY <1>1, <3>1 DEF CopyOpen, OpenOK, ContentOK
    <3>3. pos[p] + 1 \in Nat \ {0} /\ (~append[p]) \in BOOLEAN
      BY DEF DownloadOK
    <3>4. Put(content[fd[p]], pos[p] + 1, ~append[p], good) \in Seq(BOOLEAN)
      <4> DEFINE b == content[fd[p]]  i == pos[p] + 1  w == ~append[p]
      <4>1. b \in Seq(BOOLEAN) /\ i \in Nat \ {0} /\ w \in BOOLEAN
        BY <3>2, <3>3
      <4> HIDE DEF b, i, w
      <4>2. Put(b, i, w, good) \in Seq(BOOLEAN)
        BY <4>1, PutFacts
      <4>3. QED
        BY <4>2 DEF b, i, w
    <3>5. QED
      BY <3>1, <3>2, <3>4, WithDisk
  <2>3. QED
    BY <2>1, <2>2
<1>4. OpenOK' /\ CopyOpen'
  BY <1>1, <1>3 DEF OpenOK, CopyOpen
<1>5. CallOK'
  BY <1>1 DEF CallOK
<1>6. QED
  BY <1>1, <1>2, <1>3, <1>4, <1>5

LEMMA CloseBasic ==
  ASSUME Basic, NEW p \in Processes, BodyEnds(p) \/ BodyBreaks(p) \/ Die(p)
  PROVE  Basic'
<1> USE DEF Basic
<1>1. UNCHANGED <<repo, healthy, content>> /\ Close(p)
  BY DEF BodyEnds, BodyBreaks, Die
<1>2. CallOK' /\ pc'[p] # "copy" /\ \A q \in Processes : q # p => pc'[q] = pc[q]
  <2>1. CASE BodyEnds(p)
    <3>1. pc[p] = "copy" /\ Goto(p, "verify") /\ UNCHANGED <<todo, planned, attempt, verdict, calm>>
      BY <2>1 DEF BodyEnds, callVars
    <3>2. CallOK'
      BY <1>1, <3>1, FileFacts, GotoCall DEF Working
    <3>3. QED
      BY <3>1, <3>2 DEF Goto, CallOK
  <2>2. CASE BodyBreaks(p)
    <3>1. pc[p] = "copy" /\ Retry(p)
      BY <2>2 DEF BodyBreaks
    <3>2. todo[p] # <<>>
      BY <3>1, FileFacts DEF Working
    <3>3. QED
      BY <1>1, <3>1, <3>2, RetryCall
  <2>3. CASE Die(p)
    <3>1. <<>> \in Seq(repo.files)
      OBVIOUS
    <3>2. todo' \in [Processes -> Seq(repo.files)]
      BY <2>3, <3>1 DEF Die, CallOK
    <3>3. attempt' \in [Processes -> 0..Attempts] /\ calm' \in [Processes -> 0..3]
      BY <2>3, HubAssumption DEF Die, CallOK
    <3>4. CallOK'
      BY <1>1, <2>3, <3>2, <3>3 DEF Die, CallOK, Goto, Working
    <3>5. QED
      BY <2>3, <3>4 DEF Die, Goto, CallOK
  <2>4. QED
    BY <2>1, <2>2, <2>3
<1>3. existing' \in [Processes -> Nat]
  BY DEF BodyEnds, BodyBreaks, Die, DownloadOK
<1>4. DownloadOK'
  BY <1>1, <1>3 DEF DownloadOK, Close
<1>5. ContentOK' /\ OpenOK' /\ CopyOpen'
  BY <1>1, <1>2 DEF ContentOK, OpenOK, CopyOpen, Close
<1>6. QED
  BY <1>1, <1>2, <1>4, <1>5

LEMMA StoreBasic ==
  ASSUME Basic, NEW p \in Processes, VerifyPart(p) \/ RemoveTarget(p) \/ Rename(p)
  PROVE  Basic'
<1> USE DEF Basic
<1> DEFINE target == Target(File(p))
           part == Part(File(p))
<1>1. UNCHANGED <<repo, healthy, existing, append, pos>> /\ pc[p] \in {"verify", "replace", "rename"}
  BY DEF VerifyPart, RemoveTarget, Rename
<1>2. todo[p] # <<>> /\ target \in Places /\ part \in Places
  BY <1>1, FileFacts DEF Working
<1>3. CallOK' /\ pc'[p] # "copy" /\ \A q \in Processes : q # p => pc'[q] = pc[q]
  <2>1. CASE NextFile(p)
    <3>1. CallOK'
      BY <1>1, <1>2, <2>1, NextFileCall
    <3>2. QED
      BY <2>1, <3>1 DEF NextFile, Goto, CallOK
  <2>2. CASE Return(p, "failed")
    BY <1>1, <2>2, ReturnCall DEF CallOK
  <2>3. ASSUME NEW place \in {"replace", "rename"}, Goto(p, place), UNCHANGED <<todo, planned, attempt, verdict, calm>>
        PROVE  CallOK' /\ pc'[p] # "copy" /\ \A q \in Processes : q # p => pc'[q] = pc[q]
    <3>1. CallOK'
      BY <1>1, <1>2, <2>3, GotoCall DEF Working
    <3>2. QED
      BY <3>1, <2>3 DEF Goto, CallOK
  <2>4. QED
    BY <2>1, <2>2, <2>3 DEF VerifyPart, RemoveTarget, Rename, callVars
<1>4. /\ ContentOK' /\ OpenOK'
      /\ \A q \in Processes : fd[q] # Closed => fd'[q] # Closed
  <2>1. CASE UNCHANGED <<content, fd>>
    BY <2>1 DEF ContentOK, OpenOK
  <2>2. CASE Remove(target) \/ Remove(part)
    BY <1>2, <2>2, RemoveDisk, PlaceFacts
  <2>3. CASE /\ part \in DOMAIN content
             /\ content' = [x \in (DOMAIN content \cup {target}) \ {part} |->
                              content[IF x = target THEN part ELSE x]]
             /\ fd' = [q \in Processes |-> IF fd[q] = part THEN target
                                           ELSE IF fd[q] = target THEN Gone ELSE fd[q]]
    <3>1. target # part /\ {target, part} \cap {Closed, Gone} = {} /\ Closed # Gone
      BY PlaceFacts
    <3> HIDE DEF target, part
    <3>2. ContentOK'
      <4>1. DOMAIN content' = (DOMAIN content \cup {target}) \ {part}
        BY <2>3
      <4>2. \A x \in DOMAIN content' : content'[x] = content[IF x = target THEN part ELSE x]
        BY <2>3
      <4>3. \A x \in DOMAIN content' : (IF x = target THEN part ELSE x) \in DOMAIN content
        BY <2>3, <4>1
      <4>4. \A x \in DOMAIN content' : content'[x] \in Seq(BOOLEAN)
        BY <4>2, <4>3 DEF ContentOK
      <4>5. QED
        BY <1>2, <4>1, <4>4 DEF ContentOK
    <3>3. OpenOK'
      <4>1. DOMAIN content' = (DOMAIN content \cup {target}) \ {part}
        BY <2>3
      <4>2. QED
        BY <1>2, <2>3, <3>1, <4>1 DEF OpenOK
    <3>4. QED
      BY <2>3, <3>1, <3>2, <3>3
  <2>4. QED
    BY <2>1, <2>2, <2>3 DEF VerifyPart, RemoveTarget, Rename, Discard, Exists
<1>5. CopyOpen'
  BY <1>3, <1>4 DEF CopyOpen
<1>6. DownloadOK'
  BY <1>1 DEF DownloadOK
<1>7. QED
  BY <1>1, <1>3, <1>4, <1>5, <1>6

LEMMA CallBasic ==
  ASSUME Basic, NEW p \in Processes, Call(p)
  PROVE  Basic'
<1> USE DEF Basic
<1>1. UNCHANGED <<repo, healthy, content, todo, planned, attempt, existing, fd, append, pos>>
  BY DEF Call, callVars, downloadVars
<1>2. calm' \in [Processes -> 0..3]
  <2>1. calm[p] \in 0..3
    BY DEF CallOK
  <2>2. \A c \in 0..3 : (IF c = 3 THEN 3 ELSE c + 1) \in 0..3 /\ 0 \in 0..3
    OBVIOUS
  <2>3. \E c \in 0..3 : calm' = [calm EXCEPT ![p] = c]
    BY <2>1, <2>2, Zenon DEF Call
  <2>4. QED
    BY <2>3 DEF CallOK
<1>3. CallOK' /\ CopyOpen'
  BY <1>1, <1>2 DEF Call, Goto, CallOK, CopyOpen, Working
<1>4. QED
  BY <1>1, <1>3 DEF DownloadOK, ContentOK, OpenOK

LEMMA OtherBasic ==
  ASSUME Basic, Recover \/ UNCHANGED vars
  PROVE  Basic'
<1> USE DEF Basic
<1>1. UNCHANGED <<repo, content, pc, todo, planned, attempt, existing, fd, append, pos, verdict, calm>>
  BY DEF Recover, vars, callVars, downloadVars
<1>2. healthy' \in BOOLEAN
  BY DEF Recover, vars
<1>3. CallOK' /\ DownloadOK' /\ ContentOK' /\ OpenOK' /\ CopyOpen'
  BY <1>1 DEF CallOK, DownloadOK, ContentOK, OpenOK, CopyOpen
<1>4. QED
  BY <1>1, <1>2, <1>3

LEMMA StallBasic ==
  ASSUME Basic, NEW p \in Processes, Stall(p)
  PROVE  Basic'
<1> USE DEF Basic
<1>1. UNCHANGED <<repo, healthy, content, todo, planned, attempt, existing, fd, append, pos, verdict, calm>>
  BY DEF Stall, callVars, downloadVars
<1>2. CallOK' /\ CopyOpen'
  BY <1>1 DEF Stall, Goto, CallOK, CopyOpen, Working
<1>3. QED
  BY <1>1, <1>2 DEF DownloadOK, ContentOK, OpenOK

LEMMA BasicStep == Basic /\ [Next]_vars => Basic'
  BY LookupBasic, EnsureBasic, RequestBasic, AnswerBasic, AcceptedBasic, CopyBasic, CloseBasic,
     StoreBasic, CallBasic, StallBasic, OtherBasic DEF Next, Run

\* Every variable keeps its type, and an open .part file exists or was removed,
\* however many processes work in the directory.
THEOREM BasicCorrect == Spec => []Basic
  BY InitBasic, BasicStep, PTL DEF Spec

THEOREM TypeCorrect == Spec => []TypeOK
<1>1. Basic => TypeOK
  BY DEF Basic, CallOK, DownloadOK, ContentOK, OpenOK, TypeOK
<1>2. QED
  BY <1>1, BasicCorrect, PTL

-----------------------------------------------------------------------------
(***************************************************************************)
(* What one process leaves in the cache.                                   *)
(***************************************************************************)

\* No step but a download's last two touches a final file.
TargetSame(f) ==
  /\ Target(f) \in DOMAIN content' <=> Target(f) \in DOMAIN content
  /\ Target(f) \in DOMAIN content => content'[Target(f)] = content[Target(f)]

TargetsSame == \A f : TargetSame(f)

\* The published revision stays the same, and everything said about it.
LEMMA SameRepo ==
  ASSUME repo' = repo
  PROVE  /\ Planned' = Planned /\ Wanted' = Wanted /\ Selected' = Selected
         /\ Listed(Planned)' <=> Listed(Planned)
         /\ Fetchable' <=> Fetchable
         /\ \A f : Size(f)' = Size(f) /\ Published(f)' = Published(f) /\ (SizeKnown(f)' <=> SizeKnown(f))
  BY DEF Planned, Wanted, Selected, Listed, Fetchable, Size, Published, SizeKnown, WithExtras

\* Only the published content verifies.
LEMMA VerifiedFacts ==
  ASSUME repo \in Repos, NEW f \in repo.files, NEW pl
  PROVE  /\ Len(Published(f)) = Size(f)
         /\ Verified(f, pl) = "match" <=> Exists(pl) /\ content[pl] = Published(f) /\ f \in repo.summed
         /\ Verified(f, pl) \in {"match", "mismatch", "error"}
         /\ f \in repo.summed /\ Exists(pl) => Verified(f, pl) # "error"
<1>1. Size(f) \in Nat
  BY HubAssumption DEF Size
<1>2. Published(f) \in [1..Size(f) -> BOOLEAN]
  BY DEF Published
<1>3. Published(f) \in Seq(BOOLEAN) /\ Len(Published(f)) = Size(f)
  BY <1>1, <1>2, BlocksSeq
<1>4. QED
  BY <1>3 DEF Verified

LEMMA ReusableFacts ==
  ASSUME repo \in Repos, NEW f \in repo.files
  PROVE  /\ Reusable(f) = "match" <=> f \in Stored
         /\ ~Exists(Target(f)) => Reusable(f) = "mismatch"
  BY VerifiedFacts DEF Reusable, Stored, Cached

LEMMA SameTargets ==
  ASSUME repo' = repo, TargetsSame
  PROVE  \A f : (f \in Stored' <=> f \in Stored) /\ Reusable(f)' = Reusable(f)
<1>1. \A f : /\ Exists(Target(f))' <=> Exists(Target(f))
             /\ Exists(Target(f)) => content'[Target(f)] = content[Target(f)]
  BY DEF TargetsSame, TargetSame, Exists
<1>2. ASSUME NEW f PROVE (f \in Stored' <=> f \in Stored) /\ Reusable(f)' = Reusable(f)
  <2>1. /\ Size(f)' = Size(f) /\ Published(f)' = Published(f) /\ (SizeKnown(f)' <=> SizeKnown(f))
        /\ f \in repo'.summed <=> f \in repo.summed
    BY SameRepo
  <2>2. /\ Exists(Target(f))' <=> Exists(Target(f))
        /\ Exists(Target(f)) => content'[Target(f)] = content[Target(f)]
    BY <1>1
  <2>3. f \in Stored' <=> f \in Stored
    BY <2>1, <2>2 DEF Stored, Cached
  <2>4. Reusable(f)' = Reusable(f)
    BY <2>1, <2>2 DEF Reusable, Verified
  <2>5. QED
    BY <2>3, <2>4
<1>3. QED
  BY <1>2

\* What a process is at: a file of the plan, with everything before it done.
LEMMA FileInPlan ==
  ASSUME CacheInv, NEW p \in Processes, pc[p] \in Downloading \cup {"ensure"}
  PROVE  /\ File(p) \in Wanted /\ File(p) \in repo.files
         /\ \E k \in 0..(Len(Planned) - 1) : File(p) = Planned[k + 1] /\ DoneUpTo(k)
<1>1. pc[p] \in Working \ {"lookup", "plan"} /\ pc[p] \notin {"idle", "lookup", "stalled"} /\ repo \in Repos
  BY DEF CacheInv, Basic, CallOK, Downloading, Working
<1>2. todo[p] # <<>> /\ todo[p] \in Seq(repo.files) /\ File(p) \in repo.files
  BY <1>1, FileFacts DEF CacheInv
<1>3. Len(todo[p]) \in Nat \ {0} /\ File(p) = todo[p][1]
  BY <1>2 DEF File
<1>4. Len(Planned) \in Nat /\ Wanted = {Planned[i] : i \in 1..Len(Planned)}
  BY <1>1, PlanFacts
<1>5. \E k \in 0..(Len(Planned) - 1) : File(p) = Planned[k + 1] /\ DoneUpTo(k)
  <2>1. CASE planned[p]
    <3>1. PICK k \in 0..Len(Planned) :
            /\ Len(todo[p]) = Len(Planned) - k
            /\ \A i \in 1..Len(todo[p]) : todo[p][i] = Planned[k + i]
            /\ DoneUpTo(k)
      BY <1>1, <2>1 DEF CacheInv, InPlan, OnPlan
    <3>2. k \in 0..(Len(Planned) - 1) /\ 1 \in 1..Len(todo[p])
      BY <1>3, <1>4, <3>1
    <3>3. QED
      BY <1>3, <3>1, <3>2
  <2>2. CASE ~planned[p]
    <3>1. Selected = <<Index>> /\ todo[p] = <<Index>>
      BY <1>1, <1>2, <2>2 DEF CacheInv, InPlan, OnIndex
    <3>2. Len(Planned) > 0 /\ Planned[1] = Index
      BY <1>1, <3>1, PlanFacts
    <3>3. File(p) = Planned[0 + 1] /\ 0 \in 0..(Len(Planned) - 1)
      BY <1>3, <1>4, <3>1, <3>2
    <3>4. DoneUpTo(0)
      BY DEF DoneUpTo
    <3>5. QED
      BY <3>3, <3>4
  <2>3. QED
    BY <2>1, <2>2
<1>6. File(p) \in Wanted
  BY <1>4, <1>5
<1>7. QED
  BY <1>2, <1>5, <1>6

\* While a process goes on with its file, its place in the plan is the same.
LEMMA StayStep ==
  ASSUME Alone, CacheInv, NEW p \in Processes, repo' = repo,
         pc[p] \in Downloading \cup {"ensure"}, pc'[p] \in Downloading,
         UNCHANGED <<todo, planned, verdict>>,
         \A f \in repo.files : f \in Stored => f \in Stored',
         File(p) \in Missing'
  PROVE  InPlan' /\ DownloadsMissing' /\ SuccessIsPublished'
<1>1. \A q \in Processes : q = p
  BY DEF Alone
<1>2. /\ Planned' = Planned /\ Wanted' = Wanted /\ Selected' = Selected
      /\ Listed(Planned)' <=> Listed(Planned)
  BY SameRepo
<1>3. repo \in Repos /\ Len(Planned) \in Nat
  BY PlanFacts DEF CacheInv, Basic
<1>4. IF planned[p] THEN OnPlan(p)' ELSE OnIndex(p)'
  <2>1. pc[p] \notin {"idle", "lookup", "stalled"}
    BY DEF Downloading
  <2>2. CASE planned[p]
    <3>1. OnPlan(p)
      BY <2>1, <2>2 DEF CacheInv, InPlan
    <3>2. PICK k \in 0..Len(Planned) :
            /\ Len(todo[p]) = Len(Planned) - k
            /\ \A i \in 1..Len(todo[p]) : todo[p][i] = Planned[k + i]
            /\ DoneUpTo(k)
      BY <3>1 DEF OnPlan
    <3>3. \A i \in 1..k : Planned[i] \in repo.files
      <4>1. DOMAIN Planned = 1..Len(Planned) /\ \A i \in DOMAIN Planned : Planned[i] \in repo.files
        BY <1>3, <3>1, PlanFacts DEF OnPlan, Listed
      <4>2. QED
        BY <1>3, <4>1
    <3>4. DoneUpTo(k)'
      BY <1>2, <3>2, <3>3 DEF DoneUpTo
    <3>5. QED
      BY <1>2, <2>2, <3>1, <3>2, <3>4 DEF OnPlan
  <2>3. CASE ~planned[p]
    <3>1. OnIndex(p)
      BY <2>1, <2>3 DEF CacheInv, InPlan
    <3>2. todo[p] # <<>>
      BY FileFacts DEF CacheInv, Downloading, Working
    <3>3. QED
      BY <1>2, <2>3, <3>1, <3>2 DEF OnIndex
  <2>4. QED
    BY <2>2, <2>3
<1>5. verdict[p] = "none" /\ verdict'[p] = "none"
  BY DEF CacheInv, InPlan, Downloading
<1>6. InPlan'
  BY <1>1, <1>4, <1>5 DEF InPlan, Downloading
<1>7. File(p)' = File(p)
  BY DEF File
<1>8. DownloadsMissing'
  BY <1>1, <1>7 DEF DownloadsMissing
<1>9. SuccessIsPublished'
  BY <1>1, <1>5 DEF SuccessIsPublished
<1>10. QED
  BY <1>6, <1>8, <1>9

\* A call that ends without success leaves nothing to check.
LEMMA EndStep ==
  ASSUME Alone, NEW p \in Processes, pc'[p] = "idle", verdict'[p] # "ok", fd'[p] = Closed
  PROVE  InPlan' /\ DownloadsMissing' /\ PartInv' /\ SuccessIsPublished'
<1>1. \A q \in Processes : q = p
  BY DEF Alone
<1>2. QED
  BY <1>1 DEF InPlan, DownloadsMissing, PartInv, SuccessIsPublished, Downloading

\* The file is done, and the next one is begun.
LEMMA NextFileStep ==
  ASSUME Alone, CacheInv, NEW p \in Processes, repo' = repo,
         pc[p] \in Downloading \cup {"ensure"}, NextFile(p), fd'[p] = Closed,
         \A f \in repo.files : f \in Stored => f \in Stored', NEW g, g = File(p), g \in Stored'
  PROVE  InPlan' /\ DownloadsMissing' /\ PartInv' /\ SuccessIsPublished'
<1>1. \A q \in Processes : q = p
  BY DEF Alone
<1>2. /\ Planned' = Planned /\ Wanted' = Wanted /\ Selected' = Selected
      /\ Listed(Planned)' <=> Listed(Planned)
  BY SameRepo
<1>3. repo \in Repos /\ Len(Planned) \in Nat
  BY PlanFacts DEF CacheInv, Basic
<1>4. pc[p] \in Working \ {"lookup", "plan"} /\ pc[p] \notin {"idle", "lookup", "stalled"}
  BY DEF Downloading, Working
<1>5. todo[p] # <<>> /\ todo[p] \in Seq(repo.files) /\ File(p) = todo[p][1]
  BY <1>4, FileFacts DEF CacheInv, File
<1>6. /\ planned' = planned /\ verdict' = verdict /\ todo'[p] = Tail(todo[p])
      /\ pc'[p] = IF Tail(todo[p]) = <<>> THEN "plan" ELSE "ensure"
  BY DEF NextFile, Goto, CacheInv, Basic, CallOK
<1>7. /\ Len(todo'[p]) = Len(todo[p]) - 1 /\ Len(todo[p]) \in Nat \ {0}
      /\ \A i \in 1..Len(todo'[p]) : todo'[p][i] = todo[p][i + 1]
  BY <1>5, <1>6
<1>8. IF planned[p] THEN OnPlan(p)' ELSE OnIndex(p)'
  <2>1. CASE planned[p]
    <3>1. OnPlan(p)
      BY <1>4, <2>1 DEF CacheInv, InPlan
    <3>2. PICK k \in 0..Len(Planned) :
            /\ Len(todo[p]) = Len(Planned) - k
            /\ \A i \in 1..Len(todo[p]) : todo[p][i] = Planned[k + i]
            /\ DoneUpTo(k)
      BY <3>1 DEF OnPlan
    <3>3. \A i \in 1..Len(Planned) : Planned[i] \in repo.files
      <4>1. Listed(Planned)
        BY <3>1 DEF OnPlan
      <4>2. Planned \in Seq(repo.files)
        BY <1>3, <4>1, ListedPlan
      <4>3. QED
        BY <4>2
    <3>4. k + 1 \in 0..Len(Planned) /\ Len(todo'[p]) = Len(Planned) - (k + 1)
      BY <1>3, <1>7, <3>2
    <3>5. \A i \in 1..Len(todo'[p]) : todo'[p][i] = Planned[(k + 1) + i]
      <4>1. \A i \in 1..Len(todo'[p]) : i + 1 \in 1..Len(todo[p]) /\ k + (i + 1) = (k + 1) + i
        BY <1>7, <3>2
      <4>2. QED
        BY <1>7, <3>2, <4>1
    <3>6. DoneUpTo(k + 1)'
      <4>1. File(p) = Planned[k + 1]
        BY <1>5, <1>7, <3>2
      <4>2. \A i \in 1..(k + 1) : i \in 1..k \/ i = k + 1
        OBVIOUS
      <4>3. \A i \in 1..k : Planned[i] \in Stored' /\ i \in 1..Len(Planned)
        BY <1>2, <1>3, <3>2, <3>3 DEF DoneUpTo
      <4>4. ASSUME NEW i \in 1..(k + 1) PROVE Planned'[i] \in Stored'
        <5>1. CASE i \in 1..k
          BY <1>2, <4>3, <5>1
        <5>2. CASE i = k + 1
          BY <1>2, <4>1, <5>2
        <5>3. QED
          BY <4>2, <5>1, <5>2
      <4>5. QED
        BY <4>4 DEF DoneUpTo
    <3>7. QED
      BY <1>2, <2>1, <3>1, <3>4, <3>5, <3>6 DEF OnPlan
  <2>2. CASE ~planned[p]
    <3>1. Selected = <<Index>> /\ todo[p] = <<Index>>
      BY <1>4, <1>5, <2>2 DEF CacheInv, InPlan, OnIndex
    <3>2. todo'[p] = <<>> /\ File(p) = Index
      BY <1>5, <1>6, <3>1
    <3>3. Index \in Stored'
      BY <3>2
    <3>4. QED
      BY <1>2, <2>2, <3>1, <3>2, <3>3 DEF OnIndex
  <2>3. QED
    BY <2>1, <2>2
<1>9. verdict[p] = "none"
  BY <1>4 DEF CacheInv, InPlan
<1>10. QED
  BY <1>1, <1>6, <1>8, <1>9 DEF InPlan, DownloadsMissing, PartInv, SuccessIsPublished, Downloading

\* What the single process' invariants say of it.
LEMMA AloneFacts ==
  ASSUME Alone, NEW p \in Processes
  PROVE  \A q \in Processes : q = p
  BY DEF Alone

\* A change of a .part file is no change of a final one.
LEMMA PartOnly ==
  ASSUME NEW g, content' = content \/ content' = Without(Part(g)) \/ \E b : content' = With(Part(g), b)
  PROVE  TargetsSame
<1>1. \A f : Target(f) # Part(g)
  BY PlaceFacts
<1>2. CASE content' = content
  BY <1>2 DEF TargetsSame, TargetSame
<1>3. CASE content' = Without(Part(g))
  BY <1>1, <1>3, WithoutFacts DEF TargetsSame, TargetSame
<1>4. ASSUME NEW b, content' = With(Part(g), b) PROVE TargetsSame
  <2>1. /\ DOMAIN content' = DOMAIN content \cup {Part(g)}
        /\ \A x \in DOMAIN content : x # Part(g) => content'[x] = content[x]
    BY <1>4 DEF With
  <2>2. QED
    BY <1>1, <2>1 DEF TargetsSame, TargetSame
<1>5. QED
  BY <1>2, <1>3, <1>4

\* Everything but the last two steps of a download works on a .part file.
LEMMA TargetsStep ==
  ASSUME Alone, CacheInv, NEW p \in Processes,
         \/ Call(p) \/ Lookup(p) \/ ReadIndex(p) \/ EnsureFile(p) \/ Request(p) \/ NoContent(p)
         \/ RangeRejected(p) \/ Accepted(p) \/ Copy(p) \/ BodyEnds(p) \/ BodyBreaks(p)
         \/ VerifyPart(p) \/ Stall(p) \/ Die(p) \/ Recover \/ UNCHANGED vars
  PROVE  repo' = repo /\ TargetsSame
<1>1. repo' = repo
  BY DEF Call, Lookup, ReadIndex, EnsureFile, Request, NoContent, RangeRejected, Accepted, Copy,
         BodyEnds, BodyBreaks, VerifyPart, Stall, Die, Recover, vars
<1>2. \/ content' = content
      \/ content' = Without(Part(File(p)))
      \/ \E b : content' = With(Part(File(p)), b)
  <2>1. CASE Request(p) \/ RangeRejected(p) \/ VerifyPart(p)
    BY <2>1 DEF Request, RangeRejected, VerifyPart, Remove, Discard
  <2>2. CASE Accepted(p)
    BY <2>2 DEF Accepted
  <2>3. CASE Copy(p)
    <3>1. fd[p] = Part(File(p))
      BY <2>3 DEF Copy, CacheInv, PartInv
    <3>2. QED
      BY <2>3, <3>1 DEF Copy
  <2>4. CASE \/ Call(p) \/ Lookup(p) \/ ReadIndex(p) \/ EnsureFile(p) \/ NoContent(p)
             \/ BodyEnds(p) \/ BodyBreaks(p) \/ Stall(p) \/ Die(p) \/ Recover \/ UNCHANGED vars
    BY <2>4 DEF Call, Lookup, ReadIndex, EnsureFile, NoContent, BodyEnds, BodyBreaks, Stall, Die, Recover, vars
  <2>5. QED
    BY <2>1, <2>2, <2>3, <2>4
<1>3. QED
  BY <1>1, <1>2, PartOnly

\* What a step has to keep beyond the types.
Kept == InPlan /\ DownloadsMissing /\ PartInv /\ SuccessIsPublished

\* Starting a call knows nothing yet.
LEMMA CallKept ==
  ASSUME Alone, CacheInv, NEW p \in Processes, Call(p)
  PROVE  Kept'
<1>1. \A q \in Processes : q = p
  BY AloneFacts
<1>2. pc'[p] = "lookup" /\ verdict'[p] = "none" /\ fd' = fd /\ pc[p] = "idle"
  BY DEF Call, Goto, CacheInv, Basic, CallOK, downloadVars
<1>3. fd'[p] = Closed
  BY <1>2 DEF CacheInv, PartInv
<1>4. QED
  BY <1>1, <1>2, <1>3 DEF Kept, InPlan, DownloadsMissing, PartInv, SuccessIsPublished, Downloading

\* The plan is known: everything is still to do that is not stored.
LEMMA EnsuringKept ==
  ASSUME Alone, CacheInv, NEW p \in Processes, pc[p] \in {"lookup", "plan"}, repo' = repo, fd' = fd,
         \/ Ensuring(p, Selected, FALSE) /\ Selected = <<Index>>
         \/ /\ Ensuring(p, Planned, TRUE) /\ Listed(Planned)
            /\ Selected # <<>> /\ (Single \in repo.files \/ repo.shards # <<>>)
  PROVE  Kept'
<1>1. \A q \in Processes : q = p
  BY AloneFacts
<1>2. pc'[p] = "ensure" /\ verdict'[p] = "none" /\ fd'[p] = Closed
  <2>1. pc'[p] = "ensure" /\ verdict' = verdict
    BY DEF Ensuring, Goto, CacheInv, Basic, CallOK
  <2>2. verdict[p] = "none" /\ fd[p] = Closed
    BY DEF CacheInv, InPlan, PartInv
  <2>3. QED
    BY <2>1, <2>2
<1>3. repo \in Repos /\ Len(Planned) \in Nat /\ Planned' = Planned /\ Selected' = Selected
      /\ (Listed(Planned)' <=> Listed(Planned))
  BY PlanFacts, SameRepo DEF CacheInv, Basic
<1>4. IF planned'[p] THEN OnPlan(p)' ELSE OnIndex(p)'
  <2>1. CASE Ensuring(p, Selected, FALSE) /\ Selected = <<Index>>
    <3>1. planned'[p] = FALSE /\ todo'[p] = <<Index>>
      BY <2>1 DEF Ensuring, CacheInv, Basic, CallOK
    <3>2. QED
      BY <1>3, <2>1, <3>1 DEF OnIndex
  <2>2. CASE /\ Ensuring(p, Planned, TRUE) /\ Listed(Planned)
             /\ Selected # <<>> /\ (Single \in repo.files \/ repo.shards # <<>>)
    <3>1. planned'[p] = TRUE /\ todo'[p] = Planned
      BY <2>2 DEF Ensuring, CacheInv, Basic, CallOK
    <3>2. /\ 0 \in 0..Len(Planned)
          /\ Len(Planned) = Len(Planned) - 0
          /\ \A i \in 1..Len(Planned) : Planned[i] = Planned[0 + i]
      BY <1>3
    <3>3. DoneUpTo(0)'
      BY DEF DoneUpTo
    <3>4. QED
      BY <1>3, <2>2, <3>1, <3>2, <3>3 DEF OnPlan
  <2>3. QED
    BY <2>1, <2>2
<1>5. QED
  BY <1>1, <1>2, <1>4 DEF Kept, InPlan, DownloadsMissing, PartInv, SuccessIsPublished, Downloading

LEMMA LookupKept ==
  ASSUME Alone, CacheInv, NEW p \in Processes, Lookup(p)
  PROVE  Kept'
<1>1. pc[p] = "lookup" /\ repo' = repo /\ fd' = fd /\ fd[p] = Closed
  BY DEF Lookup, downloadVars, CacheInv, PartInv
<1>2. CASE Return(p, "failed")
  BY <1>1, <1>2, EndStep DEF Return, Goto, CacheInv, Basic, CallOK, Kept
<1>3. CASE Selected = <<Index>> /\ Ensuring(p, Selected, FALSE)
  BY <1>1, <1>3, EnsuringKept
<1>4. CASE Selected = <<Single>> /\ Listed(Planned) /\ Ensuring(p, Planned, TRUE)
  <2>1. Single \in repo.files
    <3>1. Single # Index
      BY HubAssumption
    <3>2. QED
      BY <1>4, <3>1 DEF Selected
  <2>2. Selected # <<>>
    BY <1>4
  <2>3. QED
    BY <1>1, <1>4, <2>1, <2>2, EnsuringKept
<1>5. QED
  BY <1>2, <1>3, <1>4 DEF Lookup

\* Nothing is left to do: everything is stored.
LEMMA AllStored ==
  ASSUME CacheInv, NEW p \in Processes, pc[p] = "plan", planned[p]
  PROVE  Fetchable /\ \A f \in Wanted : Cached(f)
<1>1. OnPlan(p) /\ todo[p] = <<>>
  BY DEF CacheInv, InPlan
<1>2. repo \in Repos /\ Len(Planned) \in Nat /\ Wanted = {Planned[i] : i \in 1..Len(Planned)}
      /\ DOMAIN Planned = 1..Len(Planned)
  BY PlanFacts DEF CacheInv, Basic
<1>3. PICK k \in 0..Len(Planned) : Len(todo[p]) = Len(Planned) - k /\ DoneUpTo(k)
  BY <1>1 DEF OnPlan
<1>4. k = Len(Planned)
  <2>1. Len(todo[p]) = 0 /\ Len(Planned) \in Nat
    BY <1>1, <1>2
  <2>2. 0 = Len(Planned) - k
    BY <1>3, <2>1
  <2>3. QED
    BY <2>1, <2>2
<1>5. \A f \in Wanted : f \in Stored
  BY <1>2, <1>3, <1>4 DEF DoneUpTo
<1>6. Wanted \subseteq repo.files
  BY <1>1, <1>2 DEF OnPlan, Listed
<1>7. QED
  BY <1>1, <1>5, <1>6 DEF Stored, OnPlan, Fetchable

LEMMA ReadIndexKept ==
  ASSUME Alone, CacheInv, NEW p \in Processes, ReadIndex(p)
  PROVE  Kept'
<1>1. pc[p] = "plan" /\ repo' = repo /\ fd' = fd /\ fd[p] = Closed /\ content' = content
  BY DEF ReadIndex, downloadVars, CacheInv, PartInv
<1>2. CASE Return(p, "failed")
  BY <1>1, <1>2, EndStep DEF Return, Goto, CacheInv, Basic, CallOK, Kept
<1>3. CASE planned[p] /\ Return(p, "ok")
  <2>1. Fetchable /\ \A f \in Wanted : Cached(f)
    BY <1>1, <1>3, AllStored
  <2>2. Fetchable' /\ \A f \in Wanted' : Cached(f)'
    <3>1. Fetchable' /\ Wanted' = Wanted
      BY <1>1, <2>1, SameRepo
    <3>2. \A f : Cached(f)' <=> Cached(f)
      BY <1>1 DEF Cached, Exists, Published, Size
    <3>3. QED
      BY <2>1, <3>1, <3>2
  <2>3. SuccessIsPublished'
    BY <2>2 DEF SuccessIsPublished
  <2>4. pc'[p] = "idle" /\ fd'[p] = Closed
    BY <1>1, <1>3 DEF Return, Goto, CacheInv, Basic, CallOK
  <2>5. QED
    BY <2>3, <2>4, AloneFacts DEF Kept, InPlan, DownloadsMissing, PartInv, Downloading
<1>4. CASE /\ ~planned[p] /\ repo.shards # <<>> /\ Listed(Planned) /\ Ensuring(p, Planned, TRUE)
  <2>1. Selected = <<Index>>
    BY <1>1, <1>4 DEF CacheInv, InPlan, OnIndex
  <2>2. Selected # <<>>
    BY <2>1
  <2>3. QED
    BY <1>1, <1>4, <2>2, EnsuringKept
<1>5. QED
  BY <1>2, <1>3, <1>4 DEF ReadIndex

LEMMA EnsureKept ==
  ASSUME Alone, CacheInv, NEW p \in Processes, EnsureFile(p)
  PROVE  Kept'
<1>1. pc[p] = "ensure" /\ repo' = repo /\ fd' = fd /\ fd[p] = Closed /\ repo \in Repos
  BY DEF EnsureFile, downloadVars, CacheInv, PartInv, Basic
<1>2. \A f : (f \in Stored' <=> f \in Stored) /\ Reusable(f)' = Reusable(f)
  BY TargetsStep, SameTargets
<1>3. CASE Return(p, "failed")
  BY <1>1, <1>3, EndStep DEF Return, Goto, CacheInv, Basic, CallOK, Kept
<1>4. CASE Reusable(File(p)) = "match" /\ NextFile(p)
  <2>1. File(p) \in repo.files
    BY <1>1, FileInPlan
  <2>2. File(p) \in Stored
    BY <1>1, <1>4, <2>1, ReusableFacts
  <2>3. PICK g : g = File(p) /\ g \in Stored'
    BY <1>2, <2>2
  <2>4. QED
    BY <1>1, <1>2, <1>4, <2>3, NextFileStep DEF Kept
<1>5. CASE /\ Reusable(File(p)) = "mismatch" /\ Goto(p, "request")
           /\ UNCHANGED <<todo, planned, verdict, calm>>
  <2>1. pc'[p] = "request"
    BY <1>5 DEF Goto, CacheInv, Basic, CallOK
  <2>2. File(p) \in Missing'
    <3>1. File(p) \in repo.files
      BY <1>1, FileInPlan
    <3>2. QED
      BY <1>1, <1>2, <1>5, <3>1 DEF Missing
  <2>3. PartInv'
    BY <1>1, <2>1, AloneFacts DEF PartInv
  <2>4. QED
    BY <1>1, <1>2, <1>5, <2>1, <2>2, <2>3, StayStep DEF Kept, Downloading
<1>6. QED
  BY <1>3, <1>4, <1>5 DEF EnsureFile

\* A step that goes on with the file's download.
LEMMA DownloadStep ==
  ASSUME Alone, CacheInv, NEW p \in Processes, repo' = repo, TargetsSame,
         pc[p] \in Downloading, pc'[p] \in Downloading,
         UNCHANGED <<todo, planned, verdict>>
  PROVE  InPlan' /\ DownloadsMissing' /\ SuccessIsPublished'
<1>1. \A f : (f \in Stored' <=> f \in Stored) /\ Reusable(f)' = Reusable(f)
  BY SameTargets
<1>2. File(p) \in Missing'
  BY <1>1 DEF CacheInv, DownloadsMissing, Missing
<1>3. QED
  BY <1>1, <1>2, StayStep

LEMMA RequestKept ==
  ASSUME Alone, CacheInv, NEW p \in Processes, Request(p)
  PROVE  Kept'
<1> DEFINE part == Part(File(p))
<1>1. /\ pc[p] = "request" /\ UNCHANGED <<repo, todo, planned, verdict>> /\ fd[p] = Closed
      /\ pc' = [pc EXCEPT ![p] = pc'[p]] /\ pc'[p] \in {"verify", "answer"}
  BY DEF Request, callVars, Goto, CacheInv, PartInv, Basic, CallOK
<1>2. InPlan' /\ DownloadsMissing' /\ SuccessIsPublished'
  BY <1>1, TargetsStep, DownloadStep DEF Downloading
<1>3. fd'[p] = Closed
  <2>1. CASE fd' = fd
    BY <1>1, <2>1
  <2>2. CASE Remove(part)
    <3>1. fd' = [q \in Processes |-> IF fd[q] = part THEN Gone ELSE fd[q]] /\ Closed # part
      BY <2>2, PlaceFacts DEF Remove, Moved
    <3>2. QED
      BY <1>1, <3>1
  <2>3. QED
    BY <2>1, <2>2 DEF Request
<1>4. pc'[p] = "answer" =>
        /\ existing'[p] \in {0, Length(part)'}
        /\ SizeKnown(File(p)) => existing'[p] = 0 \/ existing'[p] < Size(File(p))
  <2>1. CASE Goto(p, "verify")
    BY <2>1 DEF Goto, CacheInv, Basic, CallOK
  <2>2. CASE existing' = [existing EXCEPT ![p] = 0]
    BY <2>2 DEF CacheInv, Basic, DownloadOK
  <2>3. CASE /\ SizeKnown(File(p)) => Length(part) < Size(File(p))
             /\ existing' = [existing EXCEPT ![p] = Length(part)]
             /\ content' = content
    <3>1. existing'[p] = Length(part)
      BY <2>3 DEF CacheInv, Basic, DownloadOK
    <3>2. Length(part)' = Length(part)
      BY <1>1, <2>3 DEF Length, Exists, File
    <3>3. QED
      BY <2>3, <3>1, <3>2
  <2>4. QED
    BY <2>1, <2>2, <2>3 DEF Request
<1>5. File(p)' = File(p) /\ Size(File(p))' = Size(File(p)) /\ (SizeKnown(File(p))' <=> SizeKnown(File(p)))
  BY <1>1 DEF File, Size, SizeKnown
<1>6. PartInv'
  BY <1>1, <1>3, <1>4, <1>5, AloneFacts DEF PartInv
<1>7. QED
  BY <1>2, <1>6 DEF Kept

\* Another attempt, or the end of the call.
LEMMA RetryKept ==
  ASSUME Alone, CacheInv, NEW p \in Processes, repo' = repo, TargetsSame,
         pc[p] \in Downloading, fd'[p] = Closed, Retry(p) \/ Return(p, "failed")
  PROVE  Kept'
<1>1. CASE Return(p, "failed")
  BY <1>1, EndStep DEF Return, Goto, CacheInv, Basic, CallOK, Kept
<1>2. CASE Goto(p, "request") /\ UNCHANGED <<todo, planned, verdict, calm>>
  <2>1. pc'[p] = "request"
    BY <1>2 DEF Goto, CacheInv, Basic, CallOK
  <2>2. InPlan' /\ DownloadsMissing' /\ SuccessIsPublished'
    BY <1>2, <2>1, DownloadStep DEF Downloading
  <2>3. PartInv'
    BY <2>1, AloneFacts DEF PartInv
  <2>4. QED
    BY <2>2, <2>3 DEF Kept
<1>3. QED
  BY <1>1, <1>2 DEF Retry

LEMMA AnswerKept ==
  ASSUME Alone, CacheInv, NEW p \in Processes, NoContent(p) \/ RangeRejected(p)
  PROVE  Kept'
<1> DEFINE part == Part(File(p))
<1>1. pc[p] = "answer" /\ fd[p] = Closed /\ repo' = repo /\ TargetsSame
  BY TargetsStep DEF NoContent, RangeRejected, CacheInv, PartInv
<1>2. fd'[p] = Closed
  <2>1. CASE fd' = fd
    BY <1>1, <2>1
  <2>2. CASE Remove(part)
    <3>1. fd' = [q \in Processes |-> IF fd[q] = part THEN Gone ELSE fd[q]] /\ Closed # part
      BY <2>2, PlaceFacts DEF Remove, Moved
    <3>2. QED
      BY <1>1, <3>1
  <2>3. QED
    BY <2>1, <2>2 DEF NoContent, RangeRejected
<1>3. CASE Retry(p) \/ Return(p, "failed")
  BY <1>1, <1>2, <1>3, RetryKept DEF Downloading
<1>4. CASE Goto(p, "verify") /\ UNCHANGED <<todo, planned, verdict>>
  <2>1. pc'[p] = "verify"
    BY <1>4 DEF Goto, CacheInv, Basic, CallOK
  <2>2. InPlan' /\ DownloadsMissing' /\ SuccessIsPublished'
    BY <1>1, <1>4, <2>1, DownloadStep DEF Downloading
  <2>3. PartInv'
    BY <1>2, <2>1, AloneFacts DEF PartInv
  <2>4. QED
    BY <2>2, <2>3 DEF Kept
<1>5. QED
  BY <1>3, <1>4 DEF NoContent, RangeRejected, callVars

\* A 206 answer is asked for at the end of the bytes on disk, and appended there.
LEMMA AcceptedKept ==
  ASSUME Alone, CacheInv, NEW p \in Processes, Accepted(p)
  PROVE  Kept'
<1> DEFINE f == File(p)
           part == Part(f)
<1>1. /\ pc[p] = "answer" /\ UNCHANGED <<repo, todo, planned, verdict>>
      /\ pc'[p] = "copy" /\ fd'[p] = part
  BY DEF Accepted, callVars, Goto, CacheInv, Basic, CallOK, OpenOK
<1>2. InPlan' /\ DownloadsMissing' /\ SuccessIsPublished'
  BY <1>1, TargetsStep, DownloadStep DEF Downloading
<1>3. Size(f) \in Nat /\ existing[p] \in Nat /\ existing[p] \in {0, Length(part)}
  <2>1. Size(f) \in Nat
    BY <1>1, FileFacts DEF CacheInv, Working
  <2>2. QED
    BY <1>1, <2>1 DEF CacheInv, PartInv, Basic, DownloadOK
<1>4. part \in DOMAIN content' /\ Len(content'[part]) = pos'[p] /\ pos'[p] <= Size(f)
  <2>1. PICK status \in {200, 206} :
          /\ status = 206 => existing[p] \in 1..Size(f) - 1
          /\ pos' = [pos EXCEPT ![p] = IF status = 206 THEN existing[p] ELSE 0]
          /\ content' = IF Resumed(p, status) /\ Exists(part) THEN content ELSE With(part, <<>>)
    BY DEF Accepted
  <2>2. pos'[p] = IF status = 206 THEN existing[p] ELSE 0
    BY <2>1 DEF CacheInv, Basic, DownloadOK
  <2>3. CASE status = 206
    <3>1. existing[p] > 0 /\ existing[p] <= Size(f) /\ existing[p] = Length(part)
      BY <1>3, <2>1, <2>3
    <3>2. Exists(part) /\ Len(content[part]) = existing[p]
      BY <3>1 DEF Length
    <3>3. content' = content
      BY <2>1, <2>3, <3>1, <3>2 DEF Resumed
    <3>4. QED
      BY <2>2, <2>3, <3>1, <3>2, <3>3 DEF Exists
  <2>4. CASE status = 200
    <3>1. content' = With(part, <<>>)
      BY <2>1, <2>4 DEF Resumed
    <3>2. part \in DOMAIN content' /\ content'[part] = <<>>
      BY <3>1 DEF With
    <3>3. pos'[p] = 0 /\ Len(<<>>) = 0
      BY <2>2, <2>4
    <3>4. QED
      BY <1>3, <3>2, <3>3
  <2>5. QED
    BY <2>3, <2>4
<1>5. f' = f /\ part' = part /\ Size(f)' = Size(f)
  BY <1>1 DEF File, Size
<1>6. PartInv'
  BY <1>1, <1>4, <1>5, AloneFacts DEF PartInv, Exists
<1>7. QED
  BY <1>2, <1>6 DEF Kept

\* A block lands where the file ends.
LEMMA CopyKept ==
  ASSUME Alone, CacheInv, NEW p \in Processes, Copy(p)
  PROVE  Kept'
<1> DEFINE f == File(p)
           part == Part(f)
<1>1. /\ pc[p] = "copy" /\ UNCHANGED <<repo, todo, planned, verdict, pc, fd>>
      /\ pos[p] \in Nat /\ pos'[p] = pos[p] + 1 /\ pos[p] + 1 <= Size(f)
  BY DEF Copy, callVars, CacheInv, Basic, DownloadOK
<1>2. InPlan' /\ DownloadsMissing' /\ SuccessIsPublished'
  BY <1>1, TargetsStep, DownloadStep DEF Downloading
<1>3. /\ fd[p] = part /\ part \in DOMAIN content /\ Len(content[part]) = pos[p]
      /\ part # Gone
  BY <1>1, PlaceFacts DEF CacheInv, PartInv, Exists
<1>4. content[part] \in Seq(BOOLEAN)
  BY <1>3 DEF CacheInv, Basic, ContentOK
<1>5. PICK good \in BOOLEAN : content' = With(part, Put(content[part], pos[p] + 1, ~append[p], good))
  BY <1>3 DEF Copy
<1>6. part \in DOMAIN content' /\ Len(content'[part]) = pos[p] + 1
  <2> DEFINE b == content[part]
             i == pos[p] + 1
             w == ~append[p]
  <2>1. content'[part] = Put(b, i, w, good) /\ part \in DOMAIN content'
    BY <1>5 DEF With
  <2>2. b \in Seq(BOOLEAN) /\ i \in Nat \ {0} /\ w \in BOOLEAN /\ i = Len(b) + 1
    BY <1>1, <1>3, <1>4
  <2> HIDE DEF b, i, w
  <2>3. Len(Put(b, i, w, good)) = i
    BY <2>2, PutFacts
  <2>4. QED
    BY <2>1, <2>3 DEF i
<1>7. f' = f /\ part' = part /\ Size(f)' = Size(f)
  BY <1>1 DEF File, Size
<1>8. PartInv'
  BY <1>1, <1>3, <1>6, <1>7, AloneFacts DEF PartInv, Exists
<1>9. QED
  BY <1>2, <1>8 DEF Kept

LEMMA BodyKept ==
  ASSUME Alone, CacheInv, NEW p \in Processes, BodyEnds(p) \/ BodyBreaks(p)
  PROVE  Kept'
<1>1. pc[p] = "copy" /\ fd'[p] = Closed /\ repo' = repo /\ TargetsSame
  BY TargetsStep DEF BodyEnds, BodyBreaks, Close, CacheInv, Basic, OpenOK
<1>2. CASE BodyBreaks(p)
  BY <1>1, <1>2, RetryKept DEF BodyBreaks, Downloading
<1>3. CASE BodyEnds(p)
  <2>1. pc'[p] = "verify" /\ UNCHANGED <<todo, planned, verdict>>
    BY <1>3 DEF BodyEnds, callVars, Goto, CacheInv, Basic, CallOK
  <2>2. InPlan' /\ DownloadsMissing' /\ SuccessIsPublished'
    BY <1>1, <2>1, DownloadStep DEF Downloading
  <2>3. PartInv'
    BY <1>1, <2>1, AloneFacts DEF PartInv
  <2>4. QED
    BY <2>2, <2>3 DEF Kept
<1>4. QED
  BY <1>2, <1>3

LEMMA VerifyKept ==
  ASSUME Alone, CacheInv, NEW p \in Processes, VerifyPart(p)
  PROVE  Kept'
<1> DEFINE f == File(p)
           part == Part(f)
<1>1. pc[p] = "verify" /\ fd[p] = Closed /\ repo' = repo /\ TargetsSame
  BY TargetsStep DEF VerifyPart, CacheInv, PartInv
<1>2. fd'[p] = Closed
  <2>1. CASE fd' = fd
    BY <1>1, <2>1
  <2>2. CASE Remove(part)
    <3>1. fd' = [q \in Processes |-> IF fd[q] = part THEN Gone ELSE fd[q]] /\ Closed # part
      BY <2>2, PlaceFacts DEF Remove, Moved
    <3>2. QED
      BY <1>1, <3>1
  <2>3. QED
    BY <2>1, <2>2 DEF VerifyPart, Discard
<1>3. CASE Return(p, "failed")
  BY <1>1, <1>2, <1>3, RetryKept DEF Downloading
<1>4. CASE /\ Accepts(f) = "match" /\ Goto(p, "replace")
           /\ UNCHANGED <<content, todo, planned, verdict>>
  <2>1. pc'[p] = "replace"
    BY <1>4 DEF Goto, CacheInv, Basic, CallOK
  <2>2. InPlan' /\ DownloadsMissing' /\ SuccessIsPublished'
    BY <1>1, <1>4, <2>1, DownloadStep DEF Downloading
  <2>3. Exists(part) /\ content[part] = Published(f) /\ f \in repo.summed
    <3>1. f \in repo.files /\ repo \in Repos
      BY <1>1, FileInPlan DEF CacheInv, Basic, Downloading
    <3>2. QED
      BY <1>4, <3>1, VerifiedFacts DEF Accepts
  <2>4. f' = f /\ part' = part /\ Published(f)' = Published(f) /\ (Exists(part)' <=> Exists(part))
    BY <1>1, <1>4 DEF File, Published, Size, Exists
  <2>5. PartInv'
    BY <1>1, <1>2, <1>4, <2>1, <2>3, <2>4, AloneFacts DEF PartInv
  <2>6. QED
    BY <2>2, <2>5 DEF Kept
<1>5. QED
  BY <1>3, <1>4 DEF VerifyPart, callVars

\* The final file that is removed is a damaged one.
LEMMA RemoveTargetKept ==
  ASSUME Alone, CacheInv, NEW p \in Processes, RemoveTarget(p)
  PROVE  Kept'
<1> DEFINE f == File(p)
           part == Part(f)
<1>1. /\ pc[p] = "replace" /\ fd[p] = Closed /\ UNCHANGED <<repo, todo, planned, verdict>>
      /\ pc'[p] = "rename" /\ f \in Missing
  BY DEF RemoveTarget, callVars, Goto, CacheInv, PartInv, DownloadsMissing, Downloading, Basic, CallOK
<1>2. fd'[p] = Closed
  <2>1. CASE fd' = fd
    BY <1>1, <2>1
  <2>2. CASE Remove(Target(f))
    <3>1. fd' = [q \in Processes |-> IF fd[q] = Target(f) THEN Gone ELSE fd[q]] /\ Closed # Target(f)
      BY <2>2, PlaceFacts DEF Remove, Moved
    <3>2. QED
      BY <1>1, <3>1
  <2>3. QED
    BY <2>1, <2>2 DEF RemoveTarget
<1>3. /\ DOMAIN content' = DOMAIN content \ {Target(f)}
      /\ \A x \in DOMAIN content : x # Target(f) => content'[x] = content[x]
  <2>1. CASE Exists(Target(f))
    BY <2>1 DEF RemoveTarget, Remove, Without, Restrict
  <2>2. CASE ~Exists(Target(f))
    BY <2>2 DEF RemoveTarget, Exists
  <2>3. QED
    BY <2>1, <2>2
<1>4. f \in repo.files /\ repo \in Repos
  BY <1>1, FileInPlan DEF CacheInv, Basic, Downloading
<1>5. f \notin Stored
  BY <1>1, <1>4, ReusableFacts DEF Missing
<1>6. \A g \in repo.files : g \in Stored => g \in Stored'
  <2> SUFFICES ASSUME NEW g \in Stored PROVE g \in Stored'
    OBVIOUS
  <2>1. Target(g) # Target(f) /\ Target(g) \in DOMAIN content
    BY <1>5, PlaceFacts DEF Stored, Cached, Exists
  <2>2. Target(g) \in DOMAIN content' /\ content'[Target(g)] = content[Target(g)]
    BY <1>3, <2>1
  <2>3. Published(g)' = Published(g) /\ g \in repo'.summed /\ content[Target(g)] = Published(g)
    BY <1>1 DEF Published, Size, Stored, Cached
  <2>4. QED
    BY <2>2, <2>3 DEF Stored, Cached, Exists
<1>7. f \in Missing'
  <2>1. Target(f) \notin DOMAIN content'
    BY <1>3
  <2>2. QED
    BY <1>1, <1>4, <2>1 DEF Missing, Reusable, Exists
<1>8. InPlan' /\ DownloadsMissing' /\ SuccessIsPublished'
  BY <1>1, <1>6, <1>7, StayStep DEF Downloading
<1>9. part \in DOMAIN content' /\ content'[part] = Published(f) /\ f \in repo'.summed
  <2>1. part \in DOMAIN content /\ content[part] = Published(f) /\ f \in repo.summed /\ part # Target(f)
    BY <1>1, PlaceFacts DEF CacheInv, PartInv, Exists
  <2>2. QED
    BY <1>1, <1>3, <2>1
<1>10. f' = f /\ part' = part /\ Published(f)' = Published(f)
  BY <1>1 DEF File, Published, Size
<1>11. PartInv'
  BY <1>1, <1>2, <1>9, <1>10, AloneFacts DEF PartInv, Exists
<1>12. QED
  BY <1>8, <1>11 DEF Kept

\* The verified .part file becomes the final one.
LEMMA RenameStores ==
  ASSUME Alone, CacheInv, NEW p \in Processes, Rename(p), NEW f, f = File(p)
  PROVE  /\ NextFile(p) /\ repo' = repo /\ fd'[p] = Closed
         /\ f \in Stored'
         /\ \A g : g # f => TargetSame(g)
<1> DEFINE part == Part(f)
<1>1. pc[p] = "rename" /\ fd[p] = Closed /\ repo' = repo
  BY DEF Rename, CacheInv, PartInv
<1>2. part \in DOMAIN content /\ content[part] = Published(f) /\ f \in repo.summed
  BY <1>1 DEF CacheInv, PartInv, Exists
<1>3. /\ content' = [x \in (DOMAIN content \cup {Target(f)}) \ {part} |->
                       content[IF x = Target(f) THEN part ELSE x]]
      /\ fd' = [q \in Processes |-> IF fd[q] = part THEN Target(f)
                                    ELSE IF fd[q] = Target(f) THEN Gone ELSE fd[q]]
      /\ NextFile(p)
  BY <1>2 DEF Rename, Exists
<1>4. fd'[p] = Closed
  <2>1. Closed # part /\ Closed # Target(f)
    BY PlaceFacts
  <2>2. QED
    BY <1>1, <1>3, <2>1
<1>5. f \in Stored'
  <2>1. Target(f) # part
    BY PlaceFacts
  <2>2. Target(f) \in DOMAIN content' /\ content'[Target(f)] = Published(f)
    BY <1>2, <1>3, <2>1
  <2>3. Published(f)' = Published(f) /\ f \in repo'.summed
    BY <1>1, <1>2 DEF Published, Size
  <2>4. QED
    BY <2>2, <2>3 DEF Stored, Cached, Exists
<1>6. ASSUME NEW g, g # f PROVE TargetSame(g)
  <2>1. Target(g) # Target(f) /\ Target(g) # part
    BY <1>6, PlaceFacts
  <2>2. QED
    BY <1>3, <2>1 DEF TargetSame
<1>7. QED
  BY <1>1, <1>3, <1>4, <1>5, <1>6

LEMMA RenameKept ==
  ASSUME Alone, CacheInv, NEW p \in Processes, Rename(p)
  PROVE  Kept'
<1>1. PICK f : f = File(p)
  OBVIOUS
<1>2. /\ pc[p] = "rename" /\ NextFile(p) /\ repo' = repo /\ fd'[p] = Closed
      /\ f \in Stored'
      /\ \A g : g # f => TargetSame(g)
  BY <1>1, RenameStores DEF Rename
<1>3. \A g \in repo.files : g \in Stored => g \in Stored'
  <2> SUFFICES ASSUME NEW g \in Stored, g # f PROVE g \in Stored'
    BY <1>2
  <2>1. Target(g) \in DOMAIN content /\ content[Target(g)] = Published(g) /\ g \in repo.summed
    BY DEF Stored, Cached, Exists
  <2>2. Target(g) \in DOMAIN content' /\ content'[Target(g)] = content[Target(g)]
    BY <1>2, <2>1 DEF TargetSame
  <2>3. Published(g)' = Published(g)
    BY <1>2 DEF Published, Size
  <2>4. QED
    BY <1>2, <2>1, <2>2, <2>3 DEF Stored, Cached, Exists
<1>4. QED
  BY <1>1, <1>2, <1>3, NextFileStep DEF Kept, Downloading

LEMMA DieKept ==
  ASSUME Alone, CacheInv, NEW p \in Processes, Die(p)
  PROVE  Kept'
<1>1. pc'[p] = "idle" /\ verdict'[p] = "none" /\ fd'[p] = Closed
  BY DEF Die, Goto, Close, CacheInv, Basic, CallOK, OpenOK
<1>2. QED
  BY <1>1, EndStep DEF Kept

\* A stalled process has its call where it was, and nothing more to do with it.
LEMMA StallKept ==
  ASSUME Alone, CacheInv, NEW p \in Processes, Stall(p)
  PROVE  Kept'
<1>1. /\ UNCHANGED <<repo, content, todo, planned, verdict>>
      /\ pc'[p] = "stalled" /\ pc[p] # "idle"
      /\ \A q \in Processes : q = p
  BY DEF Alone, Stall, Goto, callVars, CacheInv, Basic, CallOK
<1>2. /\ Wanted' = Wanted
      /\ Fetchable' <=> Fetchable
      /\ \A f : Cached(f)' <=> Cached(f)
  BY <1>1, SameRepo DEF Cached, Exists, Published, Size
<1>3. InPlan' /\ DownloadsMissing' /\ PartInv'
  BY <1>1 DEF CacheInv, InPlan, DownloadsMissing, PartInv, Downloading
<1>4. SuccessIsPublished'
  BY <1>1, <1>2 DEF CacheInv, SuccessIsPublished
<1>5. QED
  BY <1>3, <1>4 DEF Kept

LEMMA OtherKept ==
  ASSUME CacheInv, Recover \/ UNCHANGED vars
  PROVE  Kept'
<1>1. UNCHANGED <<repo, content, pc, todo, planned, attempt, existing, fd, append, pos, verdict, calm>>
  BY DEF Recover, vars, callVars, downloadVars
<1>2. /\ Planned' = Planned /\ Wanted' = Wanted /\ Selected' = Selected /\ Stored' = Stored
      /\ Listed(Planned)' <=> Listed(Planned)
      /\ Fetchable' <=> Fetchable
      /\ \A f : Cached(f)' <=> Cached(f)
  BY <1>1, SameRepo DEF Stored, Cached, Exists, Published, Size
<1>3. InPlan'
  BY <1>1, <1>2 DEF CacheInv, InPlan, OnPlan, OnIndex, DoneUpTo
<1>4. DownloadsMissing'
  <2>1. Missing' = Missing
    BY <1>1 DEF Missing, Reusable, Verified, Exists, SizeKnown, Size, Published
  <2>2. QED
    BY <1>1, <2>1 DEF CacheInv, DownloadsMissing, File
<1>5. PartInv'
  BY <1>1 DEF CacheInv, PartInv, File, Exists, Length, SizeKnown, Size, Published
<1>6. SuccessIsPublished'
  BY <1>1, <1>2 DEF CacheInv, SuccessIsPublished
<1>7. QED
  BY <1>3, <1>4, <1>5, <1>6 DEF Kept

LEMMA InitCache == Init => CacheInv
<1> SUFFICES ASSUME Init PROVE CacheInv
  OBVIOUS
<1>1. Basic
  BY InitBasic
<1>2. \A p \in Processes : pc[p] = "idle" /\ verdict[p] = "none" /\ fd[p] = Closed
  BY DEF Init
<1>3. QED
  BY <1>1, <1>2 DEF CacheInv, InPlan, DownloadsMissing, PartInv, SuccessIsPublished, Downloading

LEMMA CacheStep == Alone /\ CacheInv /\ [Next]_vars => CacheInv'
<1> SUFFICES ASSUME Alone, CacheInv, [Next]_vars PROVE CacheInv'
  OBVIOUS
<1>1. Basic'
  BY BasicStep DEF CacheInv
<1>2. Kept'
  BY CallKept, LookupKept, ReadIndexKept, EnsureKept, RequestKept, AnswerKept, AcceptedKept, CopyKept,
     BodyKept, VerifyKept, RemoveTargetKept, RenameKept, StallKept, DieKept, OtherKept DEF Next, Run
<1>3. QED
  BY <1>1, <1>2 DEF CacheInv, Kept

\* For any revision, any damage in the cache and any number of attempts: what the
\* single process of a cache directory knows of its call, of the .part file and of
\* the files it has passed is true.
THEOREM CacheCorrect == ASSUME Alone PROVE Spec => []CacheInv
<1>1. CacheInv /\ [Next]_vars => CacheInv'
  BY Alone, CacheStep
<1>2. QED
  BY InitCache, <1>1, PTL DEF Spec

\* A call of fetch that succeeds has left every file it was asked for in the cache,
\* with the published content.
THEOREM SuccessCorrect == ASSUME Alone PROVE Spec => []SuccessIsPublished
<1>1. CacheInv => SuccessIsPublished
  BY DEF CacheInv
<1>2. Spec => []CacheInv
  BY Alone, CacheCorrect
<1>3. QED
  BY <1>1, <1>2, PTL

\* A resumed download appends exactly where the bytes on disk end.
THEOREM ResumeCorrect == ASSUME Alone PROVE Spec => []ResumesAtTheEnd
<1>1. CacheInv => ResumesAtTheEnd
  <2> SUFFICES ASSUME CacheInv, NEW p \in Processes, pc[p] = "copy"
               PROVE  Exists(fd[p]) /\ Len(content[fd[p]]) = pos[p]
    BY DEF ResumesAtTheEnd
  <2>1. QED
    BY DEF CacheInv, PartInv
<1>2. Spec => []CacheInv
  BY Alone, CacheCorrect
<1>3. QED
  BY <1>1, <1>2, PTL

\* No step of fetch gives a file its final name with anything but the content whose
\* checksum the Hub publishes.
THEOREM StoreCorrect == ASSUME Alone PROVE Spec => OnlyVerifiedStored
<1> DEFINE Good == \A f \in repo.files :
                     \/ ~Exists(Target(f))'
                     \/ Exists(Target(f)) /\ content'[Target(f)] = content[Target(f)]
                     \/ Cached(f)' /\ f \in repo.summed
<1>1. CacheInv /\ [Next]_vars => Good
  <2> SUFFICES ASSUME CacheInv, [Next]_vars, NEW f \in repo.files
               PROVE  \/ ~Exists(Target(f))'
                      \/ Exists(Target(f)) /\ content'[Target(f)] = content[Target(f)]
                      \/ Cached(f)' /\ f \in repo.summed
    OBVIOUS
  <2>1. CASE TargetSame(f)
    BY <2>1 DEF TargetSame, Exists
  <2>2. ASSUME NEW p \in Processes, RemoveTarget(p)
        PROVE  ~Exists(Target(f))' \/ TargetSame(f)
    <3>1. PICK g : g = File(p)
      OBVIOUS
    <3>2. content' = content \/ content' = Without(Target(g))
      BY <2>2, <3>1 DEF RemoveTarget, Remove
    <3>3. CASE content' = content
      BY <3>3 DEF TargetSame
    <3>4. CASE content' = Without(Target(g)) /\ f = g
      BY <3>4 DEF Without, Restrict, Exists
    <3>5. CASE content' = Without(Target(g)) /\ f # g
      <4>1. Target(f) # Target(g)
        BY <3>5, PlaceFacts
      <4>2. QED
        BY <3>5, <4>1 DEF Without, Restrict, TargetSame
    <3>6. QED
      BY <3>2, <3>3, <3>4, <3>5
  <2>3. ASSUME NEW p \in Processes, Rename(p)
        PROVE  (Cached(f)' /\ f \in repo.summed) \/ TargetSame(f)
    <3>1. PICK g : g = File(p)
      OBVIOUS
    <3>2. repo' = repo /\ g \in Stored' /\ (f # g => TargetSame(f))
      BY <2>3, <3>1, Alone, RenameStores
    <3>3. QED
      BY <3>2 DEF Stored
  <2>4. CASE \/ \E p \in Processes :
                  \/ Call(p) \/ Lookup(p) \/ ReadIndex(p) \/ EnsureFile(p) \/ Request(p) \/ NoContent(p)
                  \/ RangeRejected(p) \/ Accepted(p) \/ Copy(p) \/ BodyEnds(p) \/ BodyBreaks(p)
                  \/ VerifyPart(p) \/ Stall(p) \/ Die(p)
             \/ Recover \/ UNCHANGED vars
    <3>1. content' = content \/ TargetsSame
      BY <2>4, Alone, TargetsStep DEF Recover, vars
    <3>2. QED
      BY <2>1, <3>1 DEF TargetsSame, TargetSame
  <2>5. QED
    BY <2>1, <2>2, <2>3, <2>4 DEF Next, Run
<1>2. Spec => []CacheInv
  BY Alone, CacheCorrect
<1>3. QED
  BY <1>1, <1>2, PTL DEF Spec, OnlyVerifiedStored

-----------------------------------------------------------------------------
(***************************************************************************)
(* What earlier attempts and calls left behind.                            *)
(***************************************************************************)

PartSame(f) ==
  /\ Part(f) \in DOMAIN content' <=> Part(f) \in DOMAIN content
  /\ Part(f) \in DOMAIN content => content'[Part(f)] = content[Part(f)]

LEMMA HarmSame ==
  ASSUME repo' = repo, NEW f, PartSame(f)
  PROVE  Harmful(f)' <=> Harmful(f)
  BY DEF PartSame, Harmful, Exists, Size

LEMMA NoHarmLeft ==
  ASSUME NEW f, Part(f) \notin DOMAIN content' \/ content'[Part(f)] = <<>>
  PROVE  ~Harmful(f)'
<1>1. Len(<<>>) = 0 /\ 1..0 = {}
  OBVIOUS
<1>2. CASE Part(f) \notin DOMAIN content'
  BY <1>2 DEF Harmful, Exists
<1>3. CASE content'[Part(f)] = <<>>
  <2>1. 1..Len(content'[Part(f)]) = {}
    BY <1>1, <1>3
  <2>2. QED
    BY <2>1 DEF Harmful
<1>4. QED
  BY <1>2, <1>3

\* A process touches the .part file of its own file only, and only a copied block
\* does not leave it as it was, empty or gone.
LEMMA PartsStep ==
  ASSUME Alone, CacheInv, NEW p \in Processes, Call(p) \/ Run(p) \/ Die(p), NEW f, f = File(p)
  PROVE  /\ repo' = repo
         /\ \A g : g # f => PartSame(g)
         /\ ~Copy(p) => \/ PartSame(f)
                        \/ Part(f) \notin DOMAIN content'
                        \/ content'[Part(f)] = <<>>
<1>1. repo' = repo
  BY DEF Call, Run, Lookup, ReadIndex, EnsureFile, Request, NoContent, RangeRejected, Accepted, Copy,
         BodyEnds, BodyBreaks, VerifyPart, RemoveTarget, Rename, Die
<1> DEFINE Goal == /\ \A g : g # f => PartSame(g)
                   /\ ~Copy(p) => \/ PartSame(f)
                                  \/ Part(f) \notin DOMAIN content'
                                  \/ content'[Part(f)] = <<>>
<1>2. CASE content' = content
  BY <1>1, <1>2 DEF PartSame
<1>3. CASE content' = Without(Part(f))
  <2>1. /\ DOMAIN content' = DOMAIN content \ {Part(f)}
        /\ \A x \in DOMAIN content : x # Part(f) => content'[x] = content[x]
    BY <1>3, WithoutFacts
  <2>2. \A g : g # f => PartSame(g)
    BY <2>1, PlaceFacts DEF PartSame
  <2>3. QED
    BY <1>1, <2>1, <2>2
<1>4. ASSUME NEW b, content' = With(Part(f), b), b = <<>> \/ Copy(p) PROVE Goal
  <2>1. /\ DOMAIN content' = DOMAIN content \cup {Part(f)} /\ content'[Part(f)] = b
        /\ \A x \in DOMAIN content : x # Part(f) => content'[x] = content[x]
    BY <1>4 DEF With
  <2>2. \A g : g # f => PartSame(g)
    BY <2>1, PlaceFacts DEF PartSame
  <2>3. QED
    BY <1>4, <2>1, <2>2
<1>5. CASE content' = Without(Target(f))
  BY <1>1, <1>5, PlaceFacts DEF PartSame, Without, Restrict
<1>6. CASE content' = [x \in (DOMAIN content \cup {Target(f)}) \ {Part(f)} |->
                         content[IF x = Target(f) THEN Part(f) ELSE x]]
  <2>1. /\ DOMAIN content' = (DOMAIN content \cup {Target(f)}) \ {Part(f)}
        /\ \A x \in DOMAIN content' : x # Target(f) => content'[x] = content[x]
    BY <1>6
  <2>2. \A g : g # f => PartSame(g)
    BY <2>1, PlaceFacts DEF PartSame
  <2>3. QED
    BY <1>1, <2>1, <2>2
<1>7. CASE Copy(p)
  <2>1. fd[p] = Part(f)
    BY <1>7 DEF Copy, CacheInv, PartInv
  <2>2. content' = content \/ \E b : content' = With(Part(f), b)
    BY <1>7, <2>1 DEF Copy
  <2>3. QED
    BY <1>1, <1>2, <1>4, <1>7, <2>2
<1>8. CASE \/ Call(p) \/ Lookup(p) \/ ReadIndex(p) \/ EnsureFile(p) \/ NoContent(p)
           \/ BodyEnds(p) \/ BodyBreaks(p) \/ Die(p)
  <2>1. content' = content
    BY <1>8 DEF Call, Lookup, ReadIndex, EnsureFile, NoContent, BodyEnds, BodyBreaks, Die
  <2>2. QED
    BY <1>1, <1>2, <2>1
<1>9. CASE Request(p) \/ RangeRejected(p) \/ VerifyPart(p) \/ RemoveTarget(p)
  <2>1. content' = content \/ content' = Without(Part(f)) \/ content' = Without(Target(f))
    BY <1>9 DEF Request, RangeRejected, VerifyPart, RemoveTarget, Remove, Discard
  <2>2. QED
    BY <1>1, <1>2, <1>3, <1>5, <2>1
<1>10. CASE Accepted(p)
  <2>1. content' = content \/ content' = With(Part(f), <<>>)
    BY <1>10 DEF Accepted
  <2>2. QED
    BY <1>1, <1>2, <1>4, <2>1
<1>11. CASE Rename(p)
  <2>1. \/ content' = content
        \/ content' = [x \in (DOMAIN content \cup {Target(f)}) \ {Part(f)} |->
                         content[IF x = Target(f) THEN Part(f) ELSE x]]
    BY <1>11 DEF Rename
  <2>2. QED
    BY <1>1, <1>2, <1>6, <2>1
<1>12. QED
  BY <1>7, <1>8, <1>9, <1>10, <1>11 DEF Run

\* What is stored stays, and a file is stored by renaming its .part file.
LEMMA StoredStep ==
  ASSUME Alone, CacheInv, NEW p \in Processes, Call(p) \/ Run(p) \/ Die(p), NEW f, f = File(p)
  PROVE  /\ \A g : g \in Stored => g \in Stored'
         /\ \A g : g \in Stored' => g \in Stored \/ (g = f /\ Part(f) \notin DOMAIN content')
<1>1. ASSUME NEW g, repo' = repo, TargetSame(g) PROVE g \in Stored' <=> g \in Stored
  <2>1. Published(g)' = Published(g)
    BY <1>1 DEF Published, Size
  <2>2. QED
    BY <1>1, <2>1 DEF Stored, Cached, Exists, TargetSame
<1>2. CASE TargetsSame
  <2>1. repo' = repo
    BY PartsStep
  <2>2. QED
    BY <1>1, <1>2, <2>1 DEF TargetsSame
<1>3. CASE RemoveTarget(p)
  <2>1. pc[p] = "replace" /\ repo' = repo /\ (content' = content \/ content' = Without(Target(f)))
    BY <1>3 DEF RemoveTarget, Remove
  <2>2. f \notin Stored
    <3>1. f \in Missing /\ repo \in Repos
      BY <2>1 DEF CacheInv, DownloadsMissing, Downloading, Basic
    <3>2. QED
      BY <3>1, ReusableFacts DEF Missing
  <2>3. CASE content' = content
    BY <1>2, <2>3 DEF TargetsSame, TargetSame
  <2>4. CASE content' = Without(Target(f))
    <3>1. \A g : g # f => TargetSame(g)
      BY <2>4, PlaceFacts DEF TargetSame, Without, Restrict
    <3>2. f \notin Stored'
      BY <2>4 DEF Stored, Cached, Exists, Without, Restrict
    <3>3. QED
      BY <1>1, <2>1, <2>2, <3>1, <3>2
  <2>5. QED
    BY <2>1, <2>3, <2>4
<1>4. CASE Rename(p)
  <2>1. repo' = repo /\ f \in Stored' /\ \A g : g # f => TargetSame(g)
    BY <1>4, RenameStores
  <2>2. Part(f) \notin DOMAIN content'
    <3>1. pc[p] = "rename"
      BY <1>4 DEF Rename
    <3>2. Exists(Part(f))
      BY <3>1 DEF CacheInv, PartInv
    <3>3. content' = [x \in (DOMAIN content \cup {Target(f)}) \ {Part(f)} |->
                       content[IF x = Target(f) THEN Part(f) ELSE x]]
      BY <1>4, <3>2 DEF Rename
    <3>4. QED
      BY <3>3
  <2>3. QED
    BY <1>1, <2>1, <2>2
<1>5. QED
  BY <1>2, <1>3, <1>4, TargetsStep DEF Run

LEMMA HarmStep ==
  ASSUME Alone, CacheInv, HarmIsFirst, NEW p \in Processes, Call(p) \/ Run(p) \/ Die(p)
  PROVE  HarmIsFirst'
<1>1. PICK f : f = File(p)
  OBVIOUS
<1>2. /\ repo' = repo
      /\ \A g : g # f => PartSame(g)
      /\ ~Copy(p) => \/ PartSame(f)
                     \/ Part(f) \notin DOMAIN content'
                     \/ content'[Part(f)] = <<>>
  BY <1>1, PartsStep
<1>3. /\ \A g : g \in Stored => g \in Stored'
      /\ \A g : g \in Stored' => g \in Stored \/ (g = f /\ Part(f) \notin DOMAIN content')
  BY <1>1, StoredStep
<1>4. Planned' = Planned /\ Wanted' = Wanted
  BY <1>2, SameRepo
<1>5. ASSUME NEW n, DoneUpTo(n) PROVE DoneUpTo(n)'
  BY <1>3, <1>4, <1>5 DEF DoneUpTo
<1>6. ASSUME NEW g \in Wanted, Harmful(g)'
      PROVE  /\ g \notin Stored
             /\ \E j \in 1..Len(Planned) : Planned[j] = g /\ DoneUpTo(j - 1)
  <2>1. CASE Harmful(g)
    BY <2>1 DEF HarmIsFirst
  <2>2. CASE ~Harmful(g)
    <3>1. g = f /\ Copy(p)
      <4>1. PartSame(g) => Harmful(g)
        BY <1>2, <1>6, HarmSame
      <4>2. CASE g # f
        BY <1>2, <2>2, <4>1, <4>2
      <4>3. CASE g = f /\ ~Copy(p)
        <5>1. Part(g) \notin DOMAIN content' \/ content'[Part(g)] = <<>>
          BY <1>2, <2>2, <4>1, <4>3
        <5>2. QED
          BY <1>6, <5>1, NoHarmLeft
      <4>4. QED
        BY <4>2, <4>3
    <3>2. pc[p] \in Downloading
      BY <3>1 DEF Copy, Downloading
    <3>3. PICK k \in 0..(Len(Planned) - 1) : f = Planned[k + 1] /\ DoneUpTo(k)
      BY <1>1, <3>2, FileInPlan
    <3>4. Len(Planned) \in Nat /\ repo \in Repos
      BY PlanFacts DEF CacheInv, Basic
    <3>5. k + 1 \in 1..Len(Planned) /\ (k + 1) - 1 = k
      BY <3>4
    <3>6. \E j \in 1..Len(Planned) : Planned[j] = g /\ DoneUpTo(j - 1)
      BY <3>1, <3>3, <3>5
    <3>7. f \notin Stored
      <4>1. f \in Missing
        BY <1>1, <3>2 DEF CacheInv, DownloadsMissing
      <4>2. QED
        BY <3>4, <4>1, ReusableFacts DEF Missing
    <3>8. QED
      BY <3>1, <3>6, <3>7
  <2>3. QED
    BY <2>1, <2>2
<1>7. ASSUME NEW g \in Wanted, Harmful(g)' PROVE g \notin Stored'
  <2>1. g \notin Stored
    BY <1>6, <1>7
  <2>2. Part(g) \in DOMAIN content'
    BY <1>7 DEF Harmful, Exists
  <2>3. QED
    BY <1>3, <2>1, <2>2
<1>8. SUFFICES ASSUME NEW g \in Wanted, Harmful(g)'
               PROVE  /\ g \notin Stored'
                      /\ \E j \in 1..Len(Planned) : Planned[j] = g /\ DoneUpTo(j - 1)'
  BY <1>4 DEF HarmIsFirst
<1>9. PICK j \in 1..Len(Planned) : Planned[j] = g /\ DoneUpTo(j - 1)
  BY <1>6, <1>8
<1>10. DoneUpTo(j - 1)'
  BY <1>5, <1>9
<1>11. QED
  BY <1>7, <1>8, <1>9, <1>10

\* There is at most one .part file to fear, and a process that downloads is at it.
LEMMA HarmIsHere ==
  ASSUME Alone, CacheInv, HarmIsFirst, NEW p \in Processes, pc[p] \in Downloading,
         NEW g \in Wanted, Harmful(g)
  PROVE  g = File(p)
<1>1. PICK k \in 0..(Len(Planned) - 1) : File(p) = Planned[k + 1] /\ DoneUpTo(k)
  BY FileInPlan
<1>2. PICK j \in 1..Len(Planned) : Planned[j] = g /\ DoneUpTo(j - 1)
  BY DEF HarmIsFirst
<1>3. g \notin Stored /\ File(p) \notin Stored
  <2>1. File(p) \in Missing /\ repo \in Repos
    BY DEF CacheInv, DownloadsMissing, Basic
  <2>2. QED
    BY <2>1, ReusableFacts DEF Missing, HarmIsFirst
<1>4. Len(Planned) \in Nat
  BY PlanFacts DEF CacheInv, Basic
<1>5. ~(k + 1 < j)
  <2>1. k + 1 < j => k + 1 \in 1..(j - 1)
    BY <1>4
  <2>2. QED
    BY <1>1, <1>2, <1>3, <2>1 DEF DoneUpTo
<1>6. ~(j < k + 1)
  <2>1. j < k + 1 => j \in 1..k
    BY <1>4
  <2>2. QED
    BY <1>1, <1>2, <1>3, <2>1 DEF DoneUpTo
<1>7. j = k + 1
  BY <1>4, <1>5, <1>6
<1>8. QED
  BY <1>1, <1>2, <1>7

\* While the Hub behaves no block goes wrong, so no harm is done.
LEMMA NoHarmStep ==
  ASSUME Alone, CacheInv, NEW p \in Processes, Call(p) \/ Run(p), healthy, NoHarm
  PROVE  NoHarm'
<1>1. PICK f : f = File(p)
  OBVIOUS
<1>2. /\ repo' = repo
      /\ \A g : g # f => PartSame(g)
      /\ ~Copy(p) => \/ PartSame(f)
                     \/ Part(f) \notin DOMAIN content'
                     \/ content'[Part(f)] = <<>>
  BY <1>1, PartsStep
<1>3. Wanted' = Wanted /\ \A g : PartSame(g) => (Harmful(g)' <=> Harmful(g))
  BY <1>2, SameRepo, HarmSame
<1>4. CASE ~Copy(p)
  <2>1. \A g \in Wanted : ~Harmful(g)'
    BY <1>2, <1>3, <1>4, NoHarmLeft DEF NoHarm
  <2>2. QED
    BY <1>3, <2>1 DEF NoHarm
<1>5. CASE Copy(p)
  <2> DEFINE part == Part(f)
             b == content[part]
             i == pos[p] + 1
             w == ~append[p]
  <2>1. /\ pc[p] = "copy" /\ fd[p] = part /\ part \in DOMAIN content /\ Len(b) = pos[p]
        /\ pos[p] + 1 <= Size(f) /\ part # Gone
    BY <1>1, <1>5, PlaceFacts DEF Copy, CacheInv, PartInv, Exists
  <2>2. b \in Seq(BOOLEAN) /\ i \in Nat \ {0} /\ w \in BOOLEAN /\ i = Len(b) + 1
    BY <2>1 DEF CacheInv, Basic, ContentOK, DownloadOK
  <2>3. content' = With(part, Put(b, i, w, TRUE))
    BY <1>5, <2>1 DEF Copy
  <2>4. f \in Wanted /\ Size(f) \in Nat
    BY <1>1, <2>1, FileInPlan, FileFacts DEF Downloading, CacheInv, Working
  <2>5. \A j \in 1..Len(b) : b[j]
    <3>1. ~Harmful(f)
      BY <2>4 DEF NoHarm
    <3>2. Len(b) <= Size(f)
      BY <2>1, <2>2, <2>4
    <3>3. QED
      BY <2>1, <3>1, <3>2 DEF Harmful, Exists
  <2>6. content'[part] = Put(b, i, w, TRUE)
    BY <2>3 DEF With
  <2> HIDE DEF b, i, w
  <2>7. /\ Len(Put(b, i, w, TRUE)) = i
        /\ Put(b, i, w, TRUE)[i]
        /\ \A j \in 1..Len(b) : Put(b, i, w, TRUE)[j] <=> b[j]
    <3>1. PICK good \in BOOLEAN : good = TRUE
      OBVIOUS
    <3>2. /\ Len(Put(b, i, w, good)) = i
          /\ Put(b, i, w, good)[i] <=> good
          /\ \A j \in 1..Len(b) : Put(b, i, w, good)[j] <=> b[j]
      BY <2>2, PutFacts
    <3>3. QED
      BY <3>1, <3>2
  <2>8. \A j \in 1..Len(content'[part]) : content'[part][j]
    <3>1. Len(b) \in Nat
      BY <2>2
    <3>2. \A j \in 1..i : j = i \/ j \in 1..Len(b)
      BY <2>2, <3>1
    <3>3. QED
      BY <2>5, <2>6, <2>7, <3>2
  <2>9. ~Harmful(f)'
    BY <2>8 DEF Harmful
  <2>10. \A g \in Wanted : ~Harmful(g)'
    BY <1>2, <1>3, <2>9 DEF NoHarm
  <2>11. QED
    BY <1>3, <2>10 DEF NoHarm
<1>6. QED
  BY <1>4, <1>5

\* What a call that began while the Hub behaves can rely on.
Calm(p) == CalmAt(p) /\ HealInv /\ healthy /\ Fetchable /\ calm[p] \in 1..3

\* Within the call only the requests and the verification have something to show.
LEMMA CalmOn ==
  ASSUME Alone, NEW p \in Processes, Calm(p), Run(p), calm' = calm, pc[p] # "idle",
         pc'[p] \notin {"idle", "request", "answer", "verify"}
  PROVE  CalmAt(p)'
<1>1. calm[p] >= 2 => NoHarm'
  BY NoHarmStep DEF Calm, CalmAt, HealInv
<1>2. QED
  BY <1>1 DEF CalmAt

LEMMA CalmLookup ==
  ASSUME Alone, NEW p \in Processes, Calm(p), Lookup(p)
  PROVE  CalmAt(p)'
<1>1. repo \in Repos /\ Wanted \subseteq repo.files /\ Selected # <<>>
  BY DEF Calm, HealInv, CacheInv, Basic, Fetchable
<1>2. Listed(Planned)
  BY <1>1 DEF Wanted, Listed
<1>3. pc[p] = "lookup" /\ pc'[p] = "ensure" /\ calm' = calm
  BY <1>1, <1>2 DEF Calm, Lookup, Ensuring, Goto, HealInv, CacheInv, Basic, CallOK
<1>4. QED
  BY <1>3, CalmOn DEF Run

LEMMA CalmReadIndex ==
  ASSUME Alone, NEW p \in Processes, Calm(p), ReadIndex(p), calm'[p] >= 1
  PROVE  CalmAt(p)'
<1>1. repo \in Repos /\ Wanted \subseteq repo.files /\ Selected # <<>> /\ pc[p] = "plan"
      /\ (Single \in repo.files \/ repo.shards # <<>>)
  BY DEF Calm, HealInv, CacheInv, Basic, Fetchable, ReadIndex
<1>2. Listed(Planned)
  BY <1>1 DEF Wanted, Listed
<1>3. ASSUME ~planned[p] PROVE Cached(Index) /\ repo.shards # <<>>
  <2>1. Selected = <<Index>> /\ Index \in Stored
    <3>1. OnIndex(p) /\ todo[p] = <<>>
      BY <1>1, <1>3 DEF Calm, HealInv, CacheInv, InPlan
    <3>2. <<Index>> # <<>>
      OBVIOUS
    <3>3. QED
      BY <3>1, <3>2 DEF OnIndex
  <2>2. Single \notin repo.files
    BY <2>1, HubAssumption DEF Selected
  <2>3. QED
    BY <1>1, <2>1, <2>2 DEF Stored
<1>4. ~(planned[p] /\ Return(p, "ok"))
  BY DEF Return, Calm, HealInv, CacheInv, Basic, CallOK
<1>5. pc'[p] = "ensure" /\ calm' = calm
  BY <1>2, <1>3, <1>4 DEF ReadIndex, Ensuring, Goto, Calm, HealInv, CacheInv, Basic, CallOK
<1>6. QED
  BY <1>1, <1>5, CalmOn DEF Run

LEMMA CalmEnsure ==
  ASSUME Alone, NEW p \in Processes, Calm(p), EnsureFile(p)
  PROVE  CalmAt(p)'
<1>1. pc[p] = "ensure" /\ repo \in Repos /\ Wanted \subseteq repo.summed
  BY DEF EnsureFile, Calm, HealInv, CacheInv, Basic, Fetchable
<1>2. File(p) \in Wanted /\ File(p) \in repo.files
  BY <1>1, FileInPlan DEF Calm, HealInv
<1>3. Reusable(File(p)) # "error"
  BY <1>1, <1>2, VerifiedFacts DEF Reusable
<1>4. CASE NextFile(p)
  <2>1. pc'[p] \in {"plan", "ensure"} /\ calm' = calm
    BY <1>4 DEF NextFile, Goto, Calm, HealInv, CacheInv, Basic, CallOK
  <2>2. QED
    BY <1>1, <2>1, CalmOn DEF Run
<1>5. CASE Goto(p, "request") /\ attempt' = [attempt EXCEPT ![p] = 1] /\ calm' = calm
  <2>1. pc'[p] = "request" /\ attempt'[p] = 1
    BY <1>5 DEF Goto, Calm, HealInv, CacheInv, Basic, CallOK
  <2>2. calm[p] >= 2 => NoHarm'
    BY NoHarmStep DEF Calm, CalmAt, HealInv, Run
  <2>3. QED
    BY <1>5, <2>1, <2>2 DEF CalmAt
<1>6. QED
  BY <1>3, <1>4, <1>5 DEF EnsureFile

LEMMA CalmRequest ==
  ASSUME Alone, NoEmptyFiles, NEW p \in Processes, Calm(p), Request(p)
  PROVE  CalmAt(p)'
<1> DEFINE part == Part(File(p))
<1>1. /\ pc[p] = "request" /\ calm' = calm /\ todo' = todo /\ attempt' = attempt /\ repo' = repo
      /\ calm[p] >= 2 => NoHarm'
  BY NoHarmStep DEF Request, callVars, Calm, CalmAt, HealInv, Run
<1>2. part' = part /\ Size(File(p))' = Size(File(p)) /\ Size(File(p)) > 0
  <2>1. File(p) \in repo.files /\ repo \in Repos
    BY <1>1, FileInPlan DEF Calm, HealInv, CacheInv, Basic, Downloading
  <2>2. QED
    BY <1>1, <2>1 DEF NoEmptyFiles, File, Size
<1>3. CASE Length(part) = Size(File(p)) /\ Goto(p, "verify") /\ content' = content
  <2>1. pc'[p] = "verify"
    BY <1>3 DEF Goto, Calm, HealInv, CacheInv, Basic, CallOK
  <2>2. part \in DOMAIN content' /\ Len(content'[part]) = Size(File(p))
    BY <1>2, <1>3 DEF Length, Exists
  <2>3. QED
    BY <1>1, <1>2, <2>1, <2>2 DEF CalmAt, Exists
<1>4. CASE Goto(p, "answer") /\ (content' = content \/ content' = Without(part))
  <2>1. pc'[p] = "answer"
    BY <1>4 DEF Goto, Calm, HealInv, CacheInv, Basic, CallOK
  <2>2. part \in DOMAIN content' => part \in DOMAIN content
    BY <1>4, WithoutFacts
  <2>3. part \in DOMAIN content => attempt[p] = 1
    BY <1>1 DEF Calm, CalmAt, Exists
  <2>4. QED
    BY <1>1, <1>2, <2>1, <2>2, <2>3 DEF CalmAt, Exists
<1>5. QED
  BY <1>3, <1>4 DEF Request, Remove

\* A rejected range is answered by starting over, and not at the last attempt.
LEMMA CalmAnswer ==
  ASSUME Alone, NEW p \in Processes, Calm(p), NoContent(p) \/ RangeRejected(p)
  PROVE  CalmAt(p)'
<1> DEFINE part == Part(File(p))
<1>1. RangeRejected(p)
  BY DEF NoContent, Calm
<1>2. pc[p] = "answer" /\ existing[p] > 0 /\ existing[p] >= Size(File(p)) /\ existing[p] \in Nat
      /\ existing[p] \in {0, Length(part)}
      /\ (SizeKnown(File(p)) => existing[p] = 0 \/ existing[p] < Size(File(p)))
      /\ Size(File(p)) \in Nat
  <2>1. pc[p] = "answer"
    BY <1>1 DEF RangeRejected
  <2>2. Size(File(p)) \in Nat
    BY <2>1, FileFacts DEF Calm, HealInv, CacheInv, Working
  <2>3. QED
    BY <1>1, <2>1, <2>2 DEF RangeRejected, Calm, HealInv, CacheInv, PartInv, Basic, DownloadOK
<1>3. ~(SizeKnown(File(p)) /\ existing[p] = Size(File(p)))
  BY <1>2
<1>4. Remove(part) /\ Retry(p)
  BY <1>1, <1>3 DEF RangeRejected
<1>5. attempt[p] = 1
  <2>1. Exists(part)
    BY <1>2 DEF Length
  <2>2. QED
    BY <1>2, <2>1 DEF Calm, CalmAt
<1>6. pc'[p] = "request" /\ calm' = calm /\ todo' = todo
  BY <1>4, <1>5, HubAssumption DEF Retry, LastAttempt, Goto, Calm, HealInv, CacheInv, Basic, CallOK
<1>7. part' = part /\ part \notin DOMAIN content'
  BY <1>4, <1>6, WithoutFacts DEF Remove, File
<1>8. calm[p] >= 2 => NoHarm'
  BY <1>1, NoHarmStep DEF Calm, CalmAt, HealInv, Run
<1>9. QED
  BY <1>6, <1>7, <1>8 DEF CalmAt, Exists

LEMMA CalmBody ==
  ASSUME Alone, NEW p \in Processes, Calm(p), Accepted(p) \/ Copy(p) \/ BodyEnds(p) \/ BodyBreaks(p)
  PROVE  CalmAt(p)'
<1> DEFINE part == Part(File(p))
<1>1. CASE Accepted(p) \/ Copy(p)
  <2>1. CASE Accepted(p)
    <3>1. pc[p] = "answer" /\ Goto(p, "copy") /\ calm' = calm
      BY <2>1 DEF Accepted
    <3>2. pc'[p] = "copy"
      BY <3>1 DEF Goto, Calm, HealInv, CacheInv, Basic, CallOK
    <3>3. QED
      BY <2>1, <3>1, <3>2, CalmOn DEF Run
  <2>2. CASE Copy(p)
    <3>1. pc[p] = "copy" /\ pc' = pc /\ calm' = calm
      BY <2>2 DEF Copy
    <3>2. QED
      BY <2>2, <3>1, CalmOn DEF Run
  <2>3. QED
    BY <1>1, <2>1, <2>2
<1>2. CASE BodyEnds(p)
  <2>1. /\ pc[p] = "copy" /\ pc'[p] = "verify" /\ UNCHANGED <<repo, content, todo, calm>>
        /\ pos[p] = Size(File(p))
    BY <1>2 DEF BodyEnds, callVars, Goto, Calm, HealInv, CacheInv, Basic, CallOK
  <2>2. part \in DOMAIN content /\ Len(content[part]) = Size(File(p))
    BY <2>1 DEF Calm, HealInv, CacheInv, PartInv, Exists
  <2>3. part' = part /\ Size(File(p))' = Size(File(p))
    BY <2>1 DEF File, Size
  <2>4. calm[p] >= 2 => NoHarm'
    BY <1>2, NoHarmStep DEF Calm, CalmAt, HealInv, Run
  <2>5. QED
    BY <2>1, <2>2, <2>3, <2>4 DEF CalmAt, Exists
<1>3. QED
  BY <1>1, <1>2 DEF BodyBreaks, Calm

\* What fails verification was there before, is the only harm and is discarded.
LEMMA CalmVerify ==
  ASSUME Alone, NEW p \in Processes, Calm(p), VerifyPart(p)
  PROVE  CalmAt(p)'
<1> DEFINE part == Part(File(p))
<1>1. /\ pc[p] = "verify" /\ repo' = repo /\ repo \in Repos /\ Wanted \subseteq repo.summed
      /\ part \in DOMAIN content /\ Len(content[part]) = Size(File(p))
  BY DEF VerifyPart, Calm, CalmAt, HealInv, CacheInv, Basic, Fetchable, Exists
<1>2. File(p) \in Wanted /\ File(p) \in repo.files
  BY <1>1, FileInPlan DEF Calm, HealInv, Downloading
<1>3. Accepts(File(p)) # "error"
  BY <1>1, <1>2, VerifiedFacts DEF Accepts, Exists
<1>4. CASE Goto(p, "replace") /\ calm' = calm
  <2>1. pc'[p] = "replace"
    BY <1>4 DEF Goto, Calm, HealInv, CacheInv, Basic, CallOK
  <2>2. QED
    BY <1>1, <1>4, <2>1, CalmOn DEF Run
<1>5. CASE Accepts(File(p)) = "mismatch" /\ Discard(File(p)) /\ Return(p, "failed")
  <2>1. Harmful(File(p))
    <3>1. content[part] # Published(File(p))
      BY <1>1, <1>5, <1>2 DEF Accepts, Verified, Exists
    <3>2. content[part] \in Seq(BOOLEAN) /\ Size(File(p)) \in Nat
      BY <1>1, <1>2, HubAssumption DEF Calm, HealInv, CacheInv, Basic, ContentOK, Size
    <3>3. ASSUME \A i \in 1..Size(File(p)) : content[part][i] PROVE FALSE
      <4> DEFINE b == content[part]
                 n == Size(File(p))
      <4>1. b = [i \in 1..n |-> b[i]] /\ \A i \in 1..n : b[i] \in BOOLEAN
        BY <1>1, <3>2
      <4>2. \A i \in 1..n : b[i] = TRUE
        BY <3>3, <4>1
      <4>3. b = [i \in 1..n |-> TRUE]
        BY <4>1, <4>2
      <4>4. QED
        BY <3>1, <4>3 DEF Published
    <3>4. QED
      BY <1>1, <3>2, <3>3 DEF Harmful, Exists
  <2>2. calm[p] = 1
    BY <1>2, <2>1 DEF Calm, CalmAt, NoHarm
  <2>3. pc'[p] = "idle" /\ calm'[p] = calm[p]
    BY <1>5 DEF Return, Goto, Calm, HealInv, CacheInv, Basic, CallOK
  <2>4. NoHarm'
    <3>1. PICK f : f = File(p)
      OBVIOUS
    <3>2. Part(f) \notin DOMAIN content'
      BY <1>5, <3>1, WithoutFacts DEF Discard, Remove
    <3>3. \A g : g # f => PartSame(g)
      BY <3>1, PartsStep DEF Run, Calm, HealInv
    <3>4. ASSUME NEW g \in Wanted PROVE ~Harmful(g)'
      <4>1. CASE g = f
        BY <3>2, <4>1, NoHarmLeft
      <4>2. CASE g # f
        <5>1. ~Harmful(g)
          BY <1>1, <3>1, <4>2, HarmIsHere DEF Calm, HealInv, Downloading
        <5>2. QED
          BY <1>1, <3>3, <4>2, <5>1, HarmSame
      <4>3. QED
        BY <4>1, <4>2
    <3>5. QED
      BY <1>1, <3>4, SameRepo DEF NoHarm
  <2>5. QED
    BY <2>2, <2>3, <2>4 DEF CalmAt
<1>6. QED
  BY <1>3, <1>4, <1>5 DEF VerifyPart

LEMMA CalmStore ==
  ASSUME Alone, NEW p \in Processes, Calm(p), RemoveTarget(p) \/ Rename(p)
  PROVE  CalmAt(p)'
<1>1. CASE RemoveTarget(p)
  <2>1. pc[p] = "replace" /\ pc'[p] = "rename" /\ calm' = calm
    BY <1>1 DEF RemoveTarget, Goto, Calm, HealInv, CacheInv, Basic, CallOK
  <2>2. QED
    BY <1>1, <2>1, CalmOn DEF Run
<1>2. CASE Rename(p)
  <2>1. NextFile(p) /\ pc[p] = "rename"
    BY <1>2, RenameStores DEF Rename, Calm, HealInv
  <2>2. pc'[p] \in {"plan", "ensure"} /\ calm' = calm
    BY <2>1 DEF NextFile, Goto, Calm, HealInv, CacheInv, Basic, CallOK
  <2>3. QED
    BY <1>2, <2>1, <2>2, CalmOn DEF Run
<1>3. QED
  BY <1>1, <1>2

\* Within a call its count of calm calls stays, or goes back to none.
LEMMA CountStep ==
  ASSUME CacheInv, NEW p \in Processes, Run(p) \/ Die(p), calm'[p] >= 1
  PROVE  calm[p] \in 1..3 /\ healthy' = healthy
<1>1. calm[p] \in 0..3 /\ healthy' = healthy
  BY DEF CacheInv, Basic, CallOK, Run, Lookup, ReadIndex, EnsureFile, Request, NoContent, RangeRejected,
         Accepted, Copy, BodyEnds, BodyBreaks, VerifyPart, RemoveTarget, Rename, Die
<1>2. \/ calm' = calm
      \/ \E how \in {"ok", "failed"} : calm' = [calm EXCEPT ![p] = IF how = "ok" THEN 0 ELSE calm[p]]
      \/ calm' = [calm EXCEPT ![p] = 0]
  <2>1. CASE Die(p)
    BY <2>1 DEF Die
  <2>2. CASE Run(p)
    BY <2>2 DEF Run, Lookup, ReadIndex, EnsureFile, Request, NoContent, RangeRejected, Accepted, Copy,
                BodyEnds, BodyBreaks, VerifyPart, RemoveTarget, Rename, Return, Retry, Ensuring, NextFile
  <2>3. QED
    BY <2>1, <2>2
<1>3. calm'[p] = calm[p] \/ calm'[p] = 0
  BY <1>2 DEF CacheInv, Basic, CallOK
<1>4. QED
  BY <1>1, <1>3

LEMMA CallCalm ==
  ASSUME Alone, HealInv, NEW p \in Processes, Call(p), calm'[p] >= 1, Fetchable
  PROVE  CalmAt(p)'
<1>1. /\ pc[p] = "idle" /\ pc'[p] = "lookup" /\ healthy
      /\ calm'[p] >= 2 => calm[p] >= 1
  <2>1. calm[p] \in 0..3 /\ pc[p] = "idle" /\ pc'[p] = "lookup"
    BY DEF Call, Goto, HealInv, CacheInv, Basic, CallOK
  <2>2. calm'[p] = IF ~healthy THEN 0 ELSE IF calm[p] = 3 THEN 3 ELSE calm[p] + 1
    BY DEF Call, HealInv, CacheInv, Basic, CallOK
  <2>3. QED
    BY <2>1, <2>2
<1>2. calm'[p] >= 2 => NoHarm
  BY <1>1 DEF HealInv, CalmInv, CalmAt
<1>3. calm'[p] >= 2 => NoHarm'
  BY <1>1, <1>2, NoHarmStep DEF HealInv
<1>4. QED
  BY <1>1, <1>3 DEF CalmAt

LEMMA CalmStep ==
  ASSUME Alone, NoEmptyFiles, HealInv, NEW p \in Processes, Call(p) \/ Run(p) \/ Die(p)
  PROVE  CalmInv'
<1>1. repo' = repo /\ (Fetchable' <=> Fetchable)
  <2>1. PICK f : f = File(p)
    OBVIOUS
  <2>2. repo' = repo
    BY <2>1, PartsStep DEF HealInv
  <2>3. QED
    BY <2>2, SameRepo
<1>2. ASSUME calm'[p] >= 1 PROVE healthy'
  <2>1. CASE Call(p)
    BY <1>2, <2>1 DEF Call, HealInv, CacheInv, Basic, CallOK
  <2>2. CASE Run(p) \/ Die(p)
    <3>1. calm[p] \in 1..3 /\ healthy' = healthy
      BY <1>2, <2>2, CountStep DEF HealInv
    <3>2. QED
      BY <3>1 DEF HealInv, CalmInv
  <2>3. QED
    BY <2>1, <2>2
<1>3. ASSUME calm'[p] >= 1, Fetchable PROVE CalmAt(p)'
  <2>1. CASE Call(p)
    BY <1>3, <2>1, CallCalm
  <2>2. CASE Die(p)
    BY <1>3, <2>2 DEF Die, HealInv, CacheInv, Basic, CallOK
  <2>3. CASE Run(p)
    <3>1. calm[p] \in 1..3
      BY <1>3, <2>3, CountStep DEF HealInv
    <3>2. Calm(p)
      BY <1>3, <3>1 DEF Calm, HealInv, CalmInv
    <3>3. QED
      BY <1>3, <2>3, <3>2, CalmLookup, CalmReadIndex, CalmEnsure, CalmRequest, CalmAnswer, CalmBody,
         CalmVerify, CalmStore DEF Run
  <2>4. QED
    BY <2>1, <2>2, <2>3
<1>4. QED
  BY <1>1, <1>2, <1>3, AloneFacts DEF CalmInv

LEMMA OtherHeal ==
  ASSUME HealInv, Recover \/ UNCHANGED vars
  PROVE  HarmIsFirst' /\ CalmInv'
<1>1. UNCHANGED <<repo, content, pc, todo, attempt, verdict, calm>> /\ (healthy => healthy')
  BY DEF Recover, vars, callVars, downloadVars
<1>2. /\ Planned' = Planned /\ Wanted' = Wanted /\ Stored' = Stored
      /\ Fetchable' <=> Fetchable
      /\ \A f : Harmful(f)' <=> Harmful(f)
  BY <1>1, SameRepo DEF Stored, Cached, Exists, Published, Size, Harmful
<1>3. HarmIsFirst'
  BY <1>2 DEF HealInv, HarmIsFirst, DoneUpTo
<1>4. ASSUME NEW p \in Processes, CalmAt(p) PROVE CalmAt(p)'
  <2>1. NoHarm' <=> NoHarm
    BY <1>2 DEF NoHarm
  <2>2. QED
    BY <1>1, <1>4, <2>1 DEF CalmAt, File, Exists, Size
<1>5. CalmInv'
  BY <1>1, <1>2, <1>4 DEF HealInv, CalmInv
<1>6. QED
  BY <1>3, <1>5

\* Only a call begun before the Hub behaves can stall.
LEMMA StallHeal ==
  ASSUME HealInv, NEW p \in Processes, Stall(p)
  PROVE  HarmIsFirst' /\ CalmInv'
<1>1. UNCHANGED <<repo, content, calm>> /\ ~healthy
  BY DEF Stall
<1>2. /\ Planned' = Planned /\ Wanted' = Wanted /\ Stored' = Stored
      /\ \A f : Harmful(f)' <=> Harmful(f)
  BY <1>1, SameRepo DEF Stored, Cached, Exists, Published, Size, Harmful
<1>3. HarmIsFirst'
  BY <1>2 DEF HealInv, HarmIsFirst, DoneUpTo
<1>4. CalmInv'
  BY <1>1 DEF HealInv, CalmInv
<1>5. QED
  BY <1>3, <1>4

LEMMA InitHeal == Init => HealInv
<1> SUFFICES ASSUME Init PROVE HealInv
  OBVIOUS
<1>1. CacheInv /\ repo \in Repos
  BY InitCache DEF CacheInv, Basic
<1>2. \A g : ~Harmful(g)
  <2>1. PICK f \in repo.files :
          content \in {<<>>, Only(Target(f), <<>>), Only(Target(f), [i \in 1..Size(f) |-> FALSE]),
                       Only(Part(f), [i \in 1..Size(f) + 1 |-> i # Size(f) + 1])}
    BY DEF Init
  <2> SUFFICES ASSUME NEW g, Harmful(g) PROVE FALSE
    OBVIOUS
  <2>2. Part(g) \in DOMAIN content
    BY DEF Harmful, Exists
  <2> DEFINE long == [i \in 1..Size(f) + 1 |-> i # Size(f) + 1]
  <2>3. content = Only(Part(f), long)
    <3>1. content # <<>>
      BY <2>2
    <3>2. \A b : content # Only(Target(f), b)
      BY <2>2, PlaceFacts DEF Only
    <3>3. QED
      BY <2>1, <3>1, <3>2
  <2>4. f = g /\ content[Part(g)] = long
    BY <2>2, <2>3, PlaceFacts DEF Only
  <2>5. Size(f) \in Nat
    BY <1>1, HubAssumption DEF Size
  <2>6. Len(long) = Size(f) + 1
    <3>1. long \in [1..Size(f) + 1 -> BOOLEAN]
      OBVIOUS
    <3>2. Size(f) + 1 \in Nat
      BY <2>5
    <3>3. QED
      BY <3>1, <3>2, BlocksSeq
  <2> HIDE DEF long
  <2>7. QED
    BY <2>4, <2>5, <2>6 DEF Harmful
<1>3. HarmIsFirst
  BY <1>2 DEF HarmIsFirst
<1>4. CalmInv
  BY DEF Init, CalmInv
<1>5. QED
  BY <1>1, <1>3, <1>4 DEF HealInv

LEMMA HealStep == Alone /\ NoEmptyFiles /\ HealInv /\ [Next]_vars => HealInv'
<1> SUFFICES ASSUME Alone, NoEmptyFiles, HealInv, [Next]_vars PROVE HealInv'
  OBVIOUS
<1>1. CacheInv'
  BY CacheStep DEF HealInv
<1>2. CASE \E p \in Processes : Call(p) \/ Run(p) \/ Die(p)
  BY <1>1, <1>2, HarmStep, CalmStep DEF HealInv
<1>3. CASE \E p \in Processes : Stall(p)
  BY <1>1, <1>3, StallHeal DEF HealInv
<1>4. CASE Recover \/ UNCHANGED vars
  BY <1>1, <1>4, OtherHeal DEF HealInv
<1>5. QED
  BY <1>2, <1>3, <1>4 DEF Next

\* Whatever earlier attempts and calls left behind: a resume goes on where it ends,
\* and of the calls begun while the Hub behaves at most one fails.
THEOREM HealCorrect == ASSUME Alone, NoEmptyFiles PROVE Spec => []HealsAtOnce
<1>1. HealInv => HealsAtOnce
  <2> SUFFICES ASSUME HealInv PROVE ResumesAtTheEnd /\ OneFailureAtMost
    BY DEF HealsAtOnce
  <2>1. ResumesAtTheEnd
    BY DEF HealInv, CacheInv, PartInv, ResumesAtTheEnd
  <2>2. ASSUME NEW p \in Processes, Fetchable, pc[p] = "idle", verdict[p] = "failed"
        PROVE  calm[p] <= 1
    <3>1. calm[p] \in 0..3
      BY DEF HealInv, CacheInv, Basic, CallOK
    <3>2. calm[p] >= 1 => CalmAt(p)
      BY <2>2 DEF HealInv, CalmInv
    <3>3. ~(calm[p] >= 2)
      BY <2>2, <3>1, <3>2 DEF CalmAt
    <3>4. QED
      BY <3>1, <3>3
  <2>3. QED
    BY <2>1, <2>2 DEF OneFailureAtMost
<1>2. HealInv /\ [Next]_vars => HealInv'
  BY Alone, NoEmptyFiles, HealStep
<1>3. QED
  BY InitHeal, <1>1, <1>2, PTL DEF Spec

-----------------------------------------------------------------------------
(* Commands *)

Early == {"arguments", "interpreter", "resolve", "prepare"}
Drops == {"drop checkpoint", "drop report"}

\* Only a calibration has files, from its script to the end of its run.
CalibrationFiles ==
  /\ phase \in Early \cup {"script", "write", "check", "done", "killed"} \cup Drops
  /\ scratch \subseteq {"checkpoint", "report"}
  /\ phase \in Early => scratch = {}
  /\ phase \in {"script", "write", "check"} /\ ~Calibrating => scratch = {}

\* Behind the first removal only a checkpoint that could not be removed is left.
CheckpointTried == phase \in {"drop report", "done"} => scratch \subseteq stuck \cup {"report"}

CommandInv == CalibrationFiles /\ CheckpointTried /\ ScratchIsRemoved

LEMMA CommandInitInv == CommandInit => CommandInv
BY DEF CommandInit, CommandInv, CalibrationFiles, CheckpointTried, ScratchIsRemoved, Early, Drops

\* Where a command returns while its calibration is alive, the files are dropped;
\* where it returns elsewhere, there are none.
LEMMA EndsClean ==
  ASSUME CommandInv, NEW r, Ends(r), phase \in Early \cup {"script", "write", "check"}
  PROVE  /\ scratch' = scratch /\ stuck' = stuck
         /\ \/ phase' = "drop checkpoint"
            \/ phase' = "done" /\ scratch = {}
BY DEF CommandInv, CalibrationFiles, Ends, Holds, Early

LEMMA CommandStep == CommandInv /\ [CommandNext]_commandVars => CommandInv'
<1> SUFFICES ASSUME CommandInv, [CommandNext]_commandVars PROVE CommandInv'
  OBVIOUS
<1>1. Calibrating' <=> Calibrating
  BY DEF Calibrating, Given, CommandNext, commandVars, CheckArguments, CheckInterpreter, Resolve, Prepare,
         ScriptWrites, ScriptEnds, Write, CheckOutput, DropCheckpoint, DropReport, Appear, Kill
<1> USE DEF CommandInv, CalibrationFiles, CheckpointTried, ScratchIsRemoved, Drops
<1>2. ASSUME NEW r, Ends(r), phase \in Early \cup {"script", "write", "check"}
       PROVE  CommandInv'
  <2>1. /\ scratch' = scratch /\ stuck' = stuck
        /\ \/ phase' = "drop checkpoint"
           \/ phase' = "done" /\ scratch = {}
    BY <1>2, EndsClean
  <2>2. phase' \notin Early \cup {"script", "write", "check", "drop report"}
    BY <2>1 DEF Early
  <2>3. QED
    BY <2>1, <2>2
<1>3. CASE CheckArguments \/ CheckInterpreter \/ Resolve \/ Prepare
  <2>1. phase \in Early /\ scratch = {}
    BY <1>3 DEF CheckArguments, CheckInterpreter, Resolve, Prepare, Early
  <2>2. CASE \E r : Ends(r)
    BY <1>2, <2>1, <2>2
  <2>3. CASE \E s \in Early \cup {"script", "write"} : GoesTo(s) /\ (s = "write" => ~Calibrating)
    BY <1>1, <2>1, <2>3 DEF GoesTo, Early
  <2>4. QED
    BY <1>3, <2>2, <2>3 DEF CheckArguments, CheckInterpreter, Resolve, Prepare, Early
<1>4. CASE ScriptWrites
  BY <1>1, <1>4 DEF ScriptWrites, Early
<1>5. CASE ScriptEnds
  <2>0. phase \in Early \cup {"script", "write", "check"}
    BY <1>5 DEF ScriptEnds
  <2>1. CASE \E r : Ends(r)
    BY <1>2, <2>0, <2>1
  <2>2. CASE scratch = {"checkpoint", "report"} /\ GoesTo("write") /\ phase = "script"
    BY <1>1, <2>2 DEF GoesTo, Early
  <2>3. QED
    BY <1>5, <2>1, <2>2 DEF ScriptEnds
<1>6. CASE Write \/ CheckOutput
  <2>0. phase \in Early \cup {"script", "write", "check"}
    BY <1>6 DEF Write, CheckOutput
  <2>1. CASE \E r : Ends(r)
    BY <1>2, <2>0, <2>1
  <2>2. CASE GoesTo("check") /\ phase = "write"
    BY <1>1, <2>2 DEF GoesTo, Early
  <2>3. QED
    BY <1>6, <2>1, <2>2 DEF Write, CheckOutput
<1>7. CASE DropCheckpoint
  BY <1>1, <1>7 DEF DropCheckpoint, Removes, Early
<1>8. CASE DropReport
  BY <1>1, <1>8 DEF DropReport, Removes, Early
<1>9. CASE Appear \/ Kill \/ UNCHANGED commandVars
  BY <1>1, <1>9 DEF Appear, Kill, commandVars, Early
<1>10. QED
  BY <1>3, <1>4, <1>5, <1>6, <1>7, <1>8, <1>9 DEF CommandNext

THEOREM CommandCorrect == CommandSpec => []CommandInv
  BY CommandInitInv, CommandStep, PTL DEF CommandSpec

\* Whatever the command line, wherever the run ends and whichever removals fail,
\* of the calibration's files only those are left whose own removal failed, and
\* both are there while they are read (ADR 0037:22).
THEOREM ScratchRemoved == CommandSpec => []ScratchIsRemoved
<1>1. CommandInv => ScratchIsRemoved
  BY DEF CommandInv
<1>2. QED
  BY <1>1, CommandCorrect, PTL
=============================================================================
