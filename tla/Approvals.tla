------------------------------ MODULE Approvals ------------------------------
(***************************************************************************)
(* Fixes that wait for a human: the pending_actions table                   *)
(* (core/approvals.py), the proposers that fill it (fix_registry.propose,   *)
(* the healer, `agent approvals test`) and the processes that decide its    *)
(* rows (the Slack button in webhook.py, the dashboard's                    *)
(* fix_registry.decide).  Every call into approvals.py is one transaction   *)
(* and one step.  A decider is one event loop: from get() to the first      *)
(* await, inside execute(), its own clicks do not interleave, but other     *)
(* processes and the proposers' threads do.                                 *)
(***************************************************************************)
EXTENDS Integers, FiniteSets

CONSTANTS
    Proposer,        \* threads that propose
    SlackDecider,    \* the process behind /slack/actions
    DashDecider,     \* the dashboard process
    Key,             \* kind and params of a fix, as dedupe compares them
    DirectKey,       \* the keys of callers that use approvals.create() directly
    MaxActions,      \* bound: rows ever created
    TTL,             \* DEFAULT_TTL_MINUTES, in ticks
    RemoteLimit,     \* MAX_REMOTE_PENDING
    SendOutcome,     \* what posting to Slack can do
    MaxCrashes       \* bound: process or thread deaths

Action   == 1..MaxActions        \* in the order of creation
NoAction == 0
Decider  == SlackDecider \cup DashDecider

ASSUME ApprovalsAssumption ==
    /\ MaxActions \in Nat \ {0}
    /\ TTL \in Nat
    /\ RemoteLimit \in Nat
    /\ DirectKey \subseteq Key
    /\ SendOutcome \subseteq {"delivered", "undelivered", "unknown"}
    /\ MaxCrashes \in Nat
    /\ NoAction \notin Key
    /\ IsFiniteSet(Proposer) /\ Proposer # {}
    /\ IsFiniteSet(Decider)

VARIABLES
    status,    \* [Action -> the status column], "absent" before create()
    key,       \* [Action -> kind and params_json]
    via,       \* [Action -> who created it]
    left,      \* [Action -> ticks until expires_at]; -1: it has passed
    posted,    \* the actions whose Slack message reached the channel
    pc,        \* [Proposer -> next step]
    want,      \* [Proposer -> the key it proposes]
    mode,      \* [Proposer -> remote, local or direct]
    mine,      \* [Proposer -> the row it created]
    verdict,   \* [Decider -> what it is about to write, or "none"]
    on,        \* [Decider -> the row of that verdict]
    running,   \* [Decider -> the rows whose fix it is executing]
    runs,      \* [Action -> calls of execute() so far]
    crashes    \* deaths so far

table     == <<status, key, via, left>>
proposing == <<pc, want, mode, mine>>
deciding  == <<verdict, on, running>>
vars      == <<table, posted, proposing, deciding, runs, crashes>>

Status == {"absent", "pending", "approved", "rejected", "expired", "applied", "failed"}
Mode   == {"remote", "local", "direct"}

\* The types of the columns and of the local variables of both sides.
TypeOK ==
    /\ status \in [Action -> Status]
    /\ key \in [Action -> Key \cup {NoAction}]
    /\ via \in [Action -> Mode]
    /\ left \in [Action -> Int]
    /\ posted \subseteq Action
    /\ pc \in [Proposer -> {"idle", "prune", "list", "create", "send", "giveup"}]
    /\ want \in [Proposer -> Key \cup {NoAction}]
    /\ mode \in [Proposer -> Mode]
    /\ mine \in [Proposer -> Action \cup {NoAction}]
    /\ \A p \in Proposer : pc[p] \in {"send", "giveup"} => mine[p] \in Action
    /\ verdict \in [Decider -> {"none", "expire", "reject", "approve"}]
    /\ on \in [Decider -> Action \cup {NoAction}]
    /\ \A d \in Decider : verdict[d] # "none" => on[d] \in Action
    /\ running \in [Decider -> SUBSET Action]
    /\ runs \in [Action -> Nat]
    /\ crashes \in Nat

Init ==
    /\ status = [a \in Action |-> "absent"]
    /\ key = [a \in Action |-> NoAction]
    /\ via = [a \in Action |-> "local"]
    /\ left = [a \in Action |-> 0]
    /\ posted = {}
    /\ pc = [p \in Proposer |-> "idle"]
    /\ want = [p \in Proposer |-> NoAction]
    /\ mode = [p \in Proposer |-> "local"]
    /\ mine = [p \in Proposer |-> NoAction]
    /\ verdict = [d \in Decider |-> "none"]
    /\ on = [d \in Decider |-> NoAction]
    /\ running = [d \in Decider |-> {}]
    /\ runs = [a \in Action |-> 0]
    /\ crashes = 0

Pending == {a \in Action : status[a] = "pending"}
RemotePending == {a \in Pending : via[a] = "remote"}
Created == {a \in Action : status[a] # "absent"}

-----------------------------------------------------------------------------
(* Expiry.  is_expired() uses now >= expires_at, expire_stale() <.           *)

\* Mutant: the sweep looks at the wrong status.
IsStaleWrong(a) == status[a] = "approved" /\ left[a] < 0

IsExpired(a) == left[a] <= 0
IsStale(a)   == status[a] = "pending" /\ left[a] < 0

Swept == [a \in Action |-> IF IsStale(a) THEN "expired" ELSE status[a]]

\* The dashboard, approval_status, the CLI and the daily summary all sweep.
ExpireStale ==
    /\ status' = Swept
    /\ UNCHANGED <<key, via, left, posted, proposing, deciding, runs, crashes>>

Tick ==
    /\ left' = [a \in Action |->
          IF a \in Created /\ left[a] >= 0 THEN left[a] - 1 ELSE left[a]]
    /\ UNCHANGED <<status, key, via, posted, proposing, deciding, runs, crashes>>

-----------------------------------------------------------------------------
(* Proposing: the callers of fix_registry.propose() first sweep and list,    *)
(* the direct callers only create and send.                                  *)

Begin(p, k, m) ==
    /\ pc[p] = "idle"
    /\ Created # Action
    /\ m = "direct" => k \in DirectKey
    /\ pc' = [pc EXCEPT ![p] = IF m = "direct" THEN "create" ELSE "prune"]
    /\ want' = [want EXCEPT ![p] = k]
    /\ mode' = [mode EXCEPT ![p] = m]
    /\ UNCHANGED <<table, posted, mine, deciding, runs, crashes>>

Done(p) ==
    /\ pc' = [pc EXCEPT ![p] = "idle"]
    /\ want' = [want EXCEPT ![p] = NoAction]
    /\ mode' = [mode EXCEPT ![p] = "local"]
    /\ mine' = [mine EXCEPT ![p] = NoAction]

Prune(p) ==
    /\ pc[p] = "prune"
    /\ status' = Swept
    /\ pc' = [pc EXCEPT ![p] = "list"]
    /\ UNCHANGED <<key, via, left, posted, want, mode, mine, deciding, runs, crashes>>

\* Mutant: the dedupe loop compares nothing.
DuplicateNever(p) == FALSE

Duplicate(p) == \E a \in Pending : key[a] = want[p]

\* Mutant: the limit is off by one.
OverLimitLate(p) == mode[p] = "remote" /\ Cardinality(Pending) > RemoteLimit

OverLimit(p) == mode[p] = "remote" /\ Cardinality(Pending) >= RemoteLimit

List(p) ==
    /\ pc[p] = "list"
    /\ \/ /\ Duplicate(p) \/ OverLimit(p)
          /\ Done(p)
       \/ /\ ~ Duplicate(p) /\ ~ OverLimit(p)
          /\ pc' = [pc EXCEPT ![p] = "create"]
          /\ UNCHANGED <<want, mode, mine>>
    /\ UNCHANGED <<table, posted, deciding, runs, crashes>>

Create(p, a) ==
    /\ pc[p] = "create"
    /\ a \notin Created
    /\ \A b \in Action : b < a => b \in Created
    /\ status' = [status EXCEPT ![a] = "pending"]
    /\ key' = [key EXCEPT ![a] = want[p]]
    /\ via' = [via EXCEPT ![a] = mode[p]]
    /\ left' = [left EXCEPT ![a] = TTL]
    /\ mine' = [mine EXCEPT ![p] = a]
    /\ pc' = [pc EXCEPT ![p] = "send"]
    /\ UNCHANGED <<posted, want, mode, deciding, runs, crashes>>

\* "unknown": the post reaches Slack but the caller sees an error or a timeout.
\* A direct caller that fails to send leaves its row pending.
Send(p, outcome) ==
    /\ pc[p] = "send"
    /\ posted' = IF outcome = "undelivered" THEN posted ELSE posted \cup {mine[p]}
    /\ \/ /\ outcome # "delivered" /\ mode[p] # "direct"
          /\ pc' = [pc EXCEPT ![p] = "giveup"]
          /\ UNCHANGED <<want, mode, mine>>
       \/ /\ outcome = "delivered" \/ mode[p] = "direct"
          /\ Done(p)
    /\ UNCHANGED <<table, deciding, runs, crashes>>

\* approvals.decide(action.id, "failed", "system"), whatever the row holds now.
GiveUp(p) ==
    /\ pc[p] = "giveup"
    /\ status' = [status EXCEPT ![mine[p]] = "failed"]
    /\ Done(p)
    /\ UNCHANGED <<key, via, left, posted, deciding, runs, crashes>>

-----------------------------------------------------------------------------
(* Deciding.                                                                 *)

\* Mutant: a click on a row that is already decided is not refused.
StillPendingSkipped(a) == status[a] # "absent"

StillPending(a) == status[a] = "pending"

\* get() and the checks after it.  A refused click changes nothing.
Click(d, a, choice) ==
    /\ verdict[d] = "none"
    /\ d \in SlackDecider => a \in posted
    /\ StillPending(a)
    /\ verdict' = [verdict EXCEPT ![d] = IF IsExpired(a) THEN "expire" ELSE choice]
    /\ on' = [on EXCEPT ![d] = a]
    /\ UNCHANGED <<table, posted, proposing, running, runs, crashes>>

\* Mutant: the pending verdict survives the write.
SettleHalf(d) ==
    /\ on' = [on EXCEPT ![d] = NoAction]
    /\ UNCHANGED verdict

Settle(d) ==
    /\ verdict' = [verdict EXCEPT ![d] = "none"]
    /\ on' = [on EXCEPT ![d] = NoAction]

Refuse(d) ==
    /\ verdict[d] \in {"expire", "reject"}
    /\ status' = [status EXCEPT ![on[d]] =
          IF verdict[d] = "expire" THEN "expired" ELSE "rejected"]
    /\ Settle(d)
    /\ UNCHANGED <<key, via, left, posted, proposing, running, runs, crashes>>

\* decide(..., "approved"), then execute() up to its first await.
Approve(d) ==
    /\ verdict[d] = "approve"
    /\ status' = [status EXCEPT ![on[d]] = "approved"]
    /\ runs' = [runs EXCEPT ![on[d]] = @ + 1]
    /\ running' = [running EXCEPT ![d] = @ \cup {on[d]}]
    /\ Settle(d)
    /\ UNCHANGED <<key, via, left, posted, proposing, crashes>>

\* Mutant: the outcome is not recorded.
FinishSilent(d, a, outcome) ==
    /\ a \in running[d]
    /\ running' = [running EXCEPT ![d] = @ \ {a}]
    /\ UNCHANGED <<table, posted, proposing, verdict, on, runs, crashes>>

\* execute() returns or raises: the final status.
Finish(d, a, outcome) ==
    /\ a \in running[d]
    /\ status' = [status EXCEPT ![a] = outcome]
    /\ running' = [running EXCEPT ![d] = @ \ {a}]
    /\ UNCHANGED <<key, via, left, posted, proposing, verdict, on, runs, crashes>>

-----------------------------------------------------------------------------
(* Crashes: nothing resumes a proposal or an approved fix after a restart.   *)

ProposerDies(p) ==
    /\ pc[p] # "idle"
    /\ crashes < MaxCrashes
    /\ crashes' = crashes + 1
    /\ Done(p)
    /\ UNCHANGED <<table, posted, deciding, runs>>

DeciderDies(d) ==
    /\ verdict[d] # "none" \/ running[d] # {}
    /\ crashes < MaxCrashes
    /\ crashes' = crashes + 1
    /\ running' = [running EXCEPT ![d] = {}]
    /\ Settle(d)
    /\ UNCHANGED <<table, posted, proposing, runs>>

-----------------------------------------------------------------------------

Propose(p) ==
    \/ Prune(p) \/ List(p) \/ \E a \in Action : Create(p, a)
    \/ \E outcome \in SendOutcome : Send(p, outcome)
    \/ GiveUp(p)

Carry(d) ==
    \/ Refuse(d) \/ Approve(d)
    \/ \E a \in Action, outcome \in {"applied", "failed"} : Finish(d, a, outcome)

Next ==
    \/ \E p \in Proposer, k \in Key, m \in Mode : Begin(p, k, m)
    \/ \E p \in Proposer : Propose(p) \/ ProposerDies(p)
    \/ \E d \in Decider, a \in Action, choice \in {"approve", "reject"} :
          Click(d, a, choice)
    \/ \E d \in Decider : Carry(d) \/ DeciderDies(d)
    \/ ExpireStale
    \/ Tick

Spec == Init /\ [][Next]_vars

\* Nobody has to click or propose; a decision that was clicked is carried out,
\* every fix returns or raises, and the daily summary sweeps the table.
Fairness ==
    /\ \A d \in Decider : WF_vars(Carry(d))
    /\ WF_vars(Tick)
    /\ WF_vars(ExpireStale)

FairSpec == Spec /\ Fairness

-----------------------------------------------------------------------------
(* Properties.                                                               *)

\* "refuse anything that isn't still pending or has expired ... run the fix":
\* the row is still pending when its fix starts.
RunsOnlyPending ==
    [][\A a \in Action : runs'[a] > runs[a] => status[a] = "pending"]_vars

\* One approval, one execution, for each process that decides: no sequence of
\* clicks, late Slack errors, sweeps and crashes runs a fix more often than there
\* are processes between get() and decide().
RunsBounded == \A a \in Action : runs[a] <= Cardinality(Decider)

\* "an identical pending proposal is returned rather than sent again": by the time
\* a thread has listed the rows, only the other proposing threads can add twins.
Twins(k) == {a \in Pending : key[a] = k /\ via[a] # "direct"}

TwinsBounded == \A k \in Key : Cardinality(Twins(k)) <= Cardinality(Proposer)

\* "at most 5 remote proposals can be waiting at once", and one more for each
\* further thread that proposes at the same time.
RemoteBounded ==
    Cardinality(RemotePending) <= RemoteLimit + Cardinality(Proposer) - 1

\* The abstract view of a row: what was decided about it, not what the column says.
TakenUp(a) == \E d \in Decider : verdict[d] = "approve" /\ on[d] = a

Recorded(a) ==
    CASE status[a] = "absent"                -> "new"
      [] status[a] = "pending"               -> "open"
      [] status[a] = "approved"              -> "started"
      [] status[a] = "applied"               -> "succeeded"
      [] status[a] = "failed" /\ runs[a] > 0 -> "failed"
      [] OTHER                               -> "refused"

StageOf(a) == IF TakenUp(a) THEN "taken" ELSE Recorded(a)

\* A post that reports an error has not arrived, and only Slack's button decides.
DefiniteSlack == "unknown" \notin SendOutcome /\ DashDecider = {}

Table == INSTANCE DecisionTable WITH
    Request <- Action, Disputable <- ~ DefiniteSlack,
    stage <- [a \in Action |-> StageOf(a)]

\* With one deciding process the rows keep the promise of a decision table: a fix
\* runs once, never after it was refused or has expired, and, if Slack's answers
\* are definite, its recorded outcome is never overwritten.
DecisionSpec == Table!DSpec

\* Nothing waits for ever: a proposal is decided or expires.
PendingEnds ==
    \A a \in Action : status[a] = "pending" ~> status[a] # "pending"

\* As long as no decider dies, an approved fix gets an outcome.
ApprovedEnds ==
    \A a \in Action :
        status[a] = "approved" ~> status[a] \in {"applied", "failed"} \/ crashes > 0
=============================================================================
