-------------------------------- MODULE Deploys --------------------------------
(***************************************************************************)
(* Deploys that wait for a human: the pending_deploys table                 *)
(* (integrations/deploy_db.py), DeploymentSkill.execute_approve and         *)
(* execute_reject, and the Kubernetes deployment they all act on, as kubectl *)
(* shows it: the live template, the one before it and whether a rollout is   *)
(* in progress.  Slack and the dashboard run each click in an executor       *)
(* thread, the CLI in a process of its own: operators interleave at every    *)
(* read, write and kubectl call.                                             *)
(***************************************************************************)
EXTENDS Integers, FiniteSets

CONSTANTS
    Operator,      \* threads and processes that carry out clicks
    MaxDeploys,    \* bound: rows ever created
    Image,         \* images pushed, and Base
    Base,          \* the image live at first
    MaxCrashes     \* bound: operators that die or raise half-way

Deploy  == 1..MaxDeploys
NoRow   == 0
NoImage == "none"

ASSUME DeploysAssumption ==
    /\ MaxDeploys \in Nat \ {0}
    /\ Base \in Image
    /\ NoImage \notin Image
    /\ MaxCrashes \in Nat
    /\ IsFiniteSet(Operator)

VARIABLES
    status,    \* [Deploy -> the status column], "absent" before save_pending()
    image,     \* [Deploy -> new_image]
    pc,        \* [Operator -> what it does next]
    on,        \* [Operator -> the row it works on]
    live,      \* the image of the current template
    prev,      \* the image of the revision before it
    rollout,   \* of the current template: done, or in progress
    sets,      \* [Deploy -> calls of set_image()]
    crashes    \* crashes so far

table   == <<status, image>>
cluster == <<live, prev, rollout>>
vars    == <<table, pc, on, cluster, sets, crashes>>

\* Where an operator acts for a deploy whose image it has set.
Watching == {"watch", "undo", "succeed"}

\* The types of the columns, the operators' progress and the cluster.
TypeOK ==
    /\ status \in [Deploy -> {"absent", "pending", "approved", "rejected", "deployed", "failed"}]
    /\ image \in [Deploy -> Image]
    /\ pc \in [Operator -> {"idle", "gate", "approve", "apply", "fail", "reject"} \cup Watching]
    /\ on \in [Operator -> Deploy \cup {NoRow}]
    /\ \A o \in Operator : pc[o] # "idle" => on[o] \in Deploy
    /\ live \in Image
    /\ prev \in Image \cup {NoImage}
    /\ rollout \in {"done", "progressing"}
    /\ sets \in [Deploy -> Nat]
    /\ crashes \in Nat

Init ==
    /\ status = [d \in Deploy |-> "absent"]
    /\ image = [d \in Deploy |-> Base]
    /\ pc = [o \in Operator |-> "idle"]
    /\ on = [o \in Operator |-> NoRow]
    /\ live = Base
    /\ prev = NoImage
    /\ rollout = "done"
    /\ sets = [d \in Deploy |-> 0]
    /\ crashes = 0

Goto(o, label) == pc' = [pc EXCEPT ![o] = label]

Release(o) == Goto(o, "idle") /\ on' = [on EXCEPT ![o] = NoRow]

Write(d, value) == status' = [status EXCEPT ![d] = value]

-----------------------------------------------------------------------------
(* Kubernetes, as set_image, rollout_undo and rollout status use it.         *)

\* A template equal to the live one starts nothing.
SetImage(img) ==
    \/ /\ img # live
       /\ live' = img
       /\ prev' = live
       /\ rollout' = "progressing"
    \/ /\ img = live
       /\ UNCHANGED cluster

\* Undo makes the revision before the live one the newest.
Undo ==
    /\ prev # NoImage
    /\ live' = prev
    /\ prev' = live
    /\ rollout' = "progressing"

RolloutEnds ==
    /\ rollout = "progressing"
    /\ rollout' = "done"
    /\ UNCHANGED <<table, pc, on, live, prev, sets, crashes>>

\* rollout status --timeout=2s exits with an error while the rollout goes on.
StatusSucceeds == rollout = "done"
StatusSaysDone == rollout = "done"

-----------------------------------------------------------------------------
(* analyze_webhook_deploy(): a new row and its Slack message.                *)

Arrive(d, img) ==
    /\ status[d] = "absent"
    /\ \A e \in Deploy : e < d => status[e] # "absent"
    /\ Write(d, "pending")
    /\ image' = [image EXCEPT ![d] = img]
    /\ UNCHANGED <<pc, on, cluster, sets, crashes>>

-----------------------------------------------------------------------------
(* execute_approve() and execute_reject().                                   *)

\* Mutant: a row that is already decided is not refused.
ClickableAlways(d) == status[d] # "absent"

Clickable(d) == status[d] = "pending"

Click(o, d, choice) ==
    /\ pc[o] = "idle"
    /\ Clickable(d)
    /\ Goto(o, choice)
    /\ on' = [on EXCEPT ![o] = d]
    /\ UNCHANGED <<table, cluster, sets, crashes>>

Reject(o) ==
    /\ pc[o] = "reject"
    /\ Write(on[o], "rejected")
    /\ Release(o)
    /\ UNCHANGED <<image, cluster, sets, crashes>>

\* Check 6 of the health gate.
InProgressBlocks == StatusSucceeds /\ ~ StatusSaysDone

\* The SLO gate and the other five checks may block or not.
Gate(o) ==
    /\ pc[o] = "gate"
    /\ \/ Goto(o, "fail")
       \/ ~ InProgressBlocks /\ Goto(o, "approve")
    /\ UNCHANGED <<table, on, cluster, sets, crashes>>

\* Mutant: the row is left pending while the deploy is carried out.
ApproveUnwritten(o) ==
    /\ pc[o] = "approve"
    /\ Goto(o, "apply")
    /\ UNCHANGED <<table, on, cluster, sets, crashes>>

Approve(o) ==
    /\ pc[o] = "approve"
    /\ Write(on[o], "approved")
    /\ Goto(o, "apply")
    /\ UNCHANGED <<image, on, cluster, sets, crashes>>

\* Mutant: the result of set_image() is not looked at.
AfterSetBlind(ok) == "watch"

AfterSet(ok) == IF ok THEN "watch" ELSE "fail"

\* A call that fails may have taken effect: kubectl timed out.
Apply(o) ==
    /\ pc[o] = "apply"
    /\ sets' = [sets EXCEPT ![on[o]] = @ + 1]
    /\ \/ SetImage(image[on[o]]) /\ \E ok \in BOOLEAN : Goto(o, AfterSet(ok))
       \/ UNCHANGED cluster /\ Goto(o, AfterSet(FALSE))
    /\ UNCHANGED <<table, on, crashes>>

\* wait_for_rollout(), whose result is ignored, and the samples of the watcher.
Watch(o) ==
    /\ pc[o] = "watch"
    /\ \E next \in {"succeed", "fail", "undo"} : Goto(o, next)
    /\ UNCHANGED <<table, on, cluster, sets, crashes>>

\* Mutant: success = final_ready == final_total, whether rolled back or not.
AfterUndoReady == "succeed"

AfterUndo == "fail"

\* rollout_undo(), whose result is ignored.
RollBack(o) ==
    /\ pc[o] = "undo"
    /\ Undo \/ UNCHANGED cluster
    /\ Goto(o, AfterUndo)
    /\ UNCHANGED <<table, on, sets, crashes>>

\* Mutant: the final status is not written.
EndUnwritten(o) ==
    /\ pc[o] \in {"succeed", "fail"}
    /\ Release(o)
    /\ UNCHANGED <<table, cluster, sets, crashes>>

\* "deployed" after a clean watch, "failed" everywhere else.
End(o) ==
    /\ pc[o] \in {"succeed", "fail"}
    /\ Write(on[o], IF pc[o] = "succeed" THEN "deployed" ELSE "failed")
    /\ Release(o)
    /\ UNCHANGED <<image, cluster, sets, crashes>>

\* The process dies, or a write raises: nothing resumes the deploy.
Die(o) ==
    /\ pc[o] # "idle"
    /\ crashes < MaxCrashes
    /\ crashes' = crashes + 1
    /\ Release(o)
    /\ UNCHANGED <<table, cluster, sets>>

-----------------------------------------------------------------------------

Carry(o) ==
    Reject(o) \/ Gate(o) \/ Approve(o) \/ Apply(o) \/ Watch(o) \/ RollBack(o) \/ End(o)

Next ==
    \/ \E d \in Deploy, img \in Image : Arrive(d, img)
    \/ \E o \in Operator, d \in Deploy, choice \in {"gate", "reject"} : Click(o, d, choice)
    \/ \E o \in Operator : Carry(o) \/ Die(o)
    \/ RolloutEnds

Spec == Init /\ [][Next]_vars

\* Every kubectl call, gate and watch has a timeout, so a click is carried out.
FairSpec == Spec /\ \A o \in Operator : WF_vars(Carry(o))

-----------------------------------------------------------------------------
(* Properties.                                                               *)

\* One click on Approve sets the image once, for each operator that is between
\* reading the row and writing to it, whatever else is clicked.
AppliedBounded == \A d \in Deploy : sets[d] <= Cardinality(Operator)

\* The cluster runs, and a rollback returns to, nothing but the first image and
\* images whose deploy somebody has decided.
Decided(img) ==
    \/ img = Base
    \/ \E d \in Deploy :
          image[d] = img /\ sets[d] > 0 /\ status[d] \notin {"absent", "pending"}

LiveIsDecided == Decided(live) /\ (prev # NoImage => Decided(prev))

\* A deploy is recorded as deployed only while the cluster runs its image: not
\* after a rollback, a failed set_image or another deploy.
DeployedIsLive ==
    [][\A d \in Deploy :
          status'[d] = "deployed" /\ status[d] # "deployed" => live = image[d]]_vars

\* The abstract view of a row.
StageOf(d) ==
    CASE status[d] = "absent"                    -> "new"
      [] status[d] = "pending"                   -> "open"
      [] status[d] = "approved" /\ sets[d] = 0   -> "taken"
      [] status[d] = "approved" /\ sets[d] > 0   -> "started"
      [] status[d] = "deployed"                  -> "succeeded"
      [] status[d] = "failed" /\ sets[d] > 0     -> "failed"
      [] OTHER                                   -> "refused"

Table == INSTANCE DecisionTable WITH
    Request <- Deploy, Disputable <- FALSE, stage <- [d \in Deploy |-> StageOf(d)]

\* With one operator the rows keep the promise of a decision table: a deploy is
\* applied once, never after a rejection or a gate that blocked it, and a rejected,
\* failed or deployed row keeps its status.
DecisionSpec == Table!DSpec

\* "Rollout already in progress -- cannot deploy concurrently."
NeverConcurrent ==
    [][\A d \in Deploy : sets'[d] > sets[d] => rollout = "done"]_vars

\* As long as no operator dies, an approved deploy gets an outcome.
ApprovedEnds ==
    \A d \in Deploy :
        status[d] = "approved" ~> status[d] \in {"deployed", "failed"} \/ crashes > 0
=============================================================================
