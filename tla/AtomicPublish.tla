--------------------------- MODULE AtomicPublish ---------------------------
(***************************************************************************)
(* What publishing an artifact under a name promises.  A call puts a whole *)
(* artifact where there was nothing and succeeds, or fails and changes     *)
(* nothing, with two exceptions: a replacer may put its artifact over what *)
(* is there, and what a drafter writes is seen while it is incomplete.     *)
(* Others may create or remove the entry.                                  *)
(***************************************************************************)
CONSTANTS
  Writers,    \* calls that publish under the name
  Replacers,  \* those that do not mind what is there
  Drafters,   \* those that write into the entry itself
  ArtifactOf, \* ArtifactOf[w]: the entry that is w's artifact
  DraftOf,    \* DraftOf[w]: the entry while w writes it
  Nothing,    \* there is no such entry
  Foreign     \* entries the writers did not make

VARIABLES
  artifact,   \* what the name refers to: nothing, a writer's, a draft, or another's
  verdict     \* verdict[w]: what w's call has come to

publishVars == <<artifact, verdict>>

Init ==
  /\ artifact \in Foreign \cup {Nothing}
  /\ verdict = [w \in Writers |-> "pending"]

Succeed(w) ==
  /\ verdict[w] = "pending"
  /\ verdict' = [verdict EXCEPT ![w] = "ok"]

Publish(w) ==
  /\ w \notin Drafters
  /\ artifact = Nothing \/ w \in Replacers
  /\ artifact' = ArtifactOf[w]
  /\ Succeed(w)

Begin(w) ==
  /\ w \in Drafters
  /\ verdict[w] = "pending"
  /\ artifact = Nothing
  /\ artifact' = DraftOf[w]
  /\ UNCHANGED verdict

\* The draft is complete, unless somebody has removed it meanwhile.
Finish(w) ==
  /\ w \in Drafters
  /\ artifact' = IF artifact = DraftOf[w] THEN ArtifactOf[w] ELSE artifact
  /\ Succeed(w)

Fail(w) ==
  /\ verdict[w] = "pending"
  /\ verdict' = [verdict EXCEPT ![w] = "error"]
  /\ UNCHANGED artifact

\* Calls are cut off, and made again by a new process; with the power the
\* entry may go as well.
Restart ==
  /\ verdict' \in [Writers -> {"pending", "ok", "error"}]
  /\ \A w \in Writers : verdict'[w] \in {verdict[w], "pending"}
  /\ artifact' \in {artifact, Nothing}

\* Also what a drafter does that has failed: it removes the entry.
Others ==
  /\ \/ artifact = Nothing /\ artifact' \in Foreign
     \/ artifact' = Nothing
  /\ UNCHANGED verdict

Next ==
  \/ \E w \in Writers : Publish(w) \/ Begin(w) \/ Finish(w) \/ Fail(w)
  \/ Restart \/ Others

Spec == Init /\ [][Next]_publishVars
=============================================================================
