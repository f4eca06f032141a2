-------------------------------- MODULE Chat --------------------------------
(***************************************************************************)
(* The dashboard assistant, dashboard/chat.py: one session id, the session *)
(* objects made for it, and the browser requests that send a message or    *)
(* decide on a paused action.                                              *)
(*                                                                         *)
(* A request is a coroutine; it holds the lock of its session object from  *)
(* the first step after waiting to its end, and the browser may go away at *)
(* any await or yield.  Tools that only read are not told apart: a turn    *)
(* that asks for no changing tool asks for some of those.                  *)
(***************************************************************************)
EXTENDS Integers

CONSTANTS
    Client,      \* browser tabs, each with one request at a time
    MaxSessions, \* bound: session objects made for the id
    MaxTools     \* bound: uses of a changing tool the model asks for

ASSUME ChatAssumption == MaxSessions \in Nat /\ MaxTools \in Nat

VARIABLES
    current, \* the object in _SESSIONS, or NoSession
    made,    \* session objects made so far
    sess,    \* sess[o]: a _Session with its _Pending
    req,     \* req[c]: the request of a tab
    ahead,   \* ahead[c]: who waits for the same lock and came before c
    named,   \* tool uses asked for so far
    ran,     \* history: how often a confirmed tool use was carried out
    told,    \* history: tool uses the model was told changed nothing
    cut      \* history: tool uses whose call was running when the tab closed

chatVars == <<current, made, sess, req, ahead, named, ran, told, cut>>

Session   == 1..MaxSessions
NoSession == 0
Tool      == 1..MaxTools

(* tail: what ends the messages; uses: the tool uses of that turn; broken: *)
(* a turn's tool uses and the results after it do not match.               *)
Session0 == [tail |-> "user", uses |-> {}, broken |-> FALSE, pending |-> FALSE,
             decisions |-> [t \in Tool |-> "none"], results |-> {}]
Idle == [at |-> "idle", obj |-> NoSession, tool |-> 0, approve |-> FALSE, todo |-> {}]

(* The stages at which a request holds the lock of its object.             *)
Inside == {"moving", "model", "reading", "apply", "run"}

Conversation ==
    [tail : {"user", "text", "tools"}, uses : SUBSET Tool, broken : BOOLEAN,
     pending : BOOLEAN, decisions : [Tool -> {"none", "undecided", "yes", "no"}],
     results : SUBSET Tool]

Request ==
    [at : {"idle", "sendWait", "decideWait"} \cup Inside, obj : Session \cup {NoSession},
     tool : Tool \cup {0}, approve : BOOLEAN, todo : SUBSET Tool]

ChatTypeOK ==
    /\ current \in Session \cup {NoSession}
    /\ made \in 0..MaxSessions
    /\ sess \in [Session -> Conversation]
    /\ req \in [Client -> Request]
    /\ ahead \in [Client -> SUBSET Client]
    /\ named \in 0..MaxTools
    /\ ran \in [Tool -> Nat]
    /\ told \in SUBSET Tool
    /\ cut \in SUBSET Tool

ChatInit ==
    /\ current = NoSession /\ made = 0
    /\ sess = [o \in Session |-> Session0]
    /\ req = [c \in Client |-> Idle]
    /\ ahead = [c \in Client |-> {}]
    /\ named = 0
    /\ ran = [t \in Tool |-> 0]
    /\ told = {} /\ cut = {}

Locked(o) == \E c \in Client : req[c].at \in Inside /\ req[c].obj = o

(* asyncio.Lock hands itself on in the order of arrival.                   *)
Waiting(o) == {c \in Client : req[c].at \in {"sendWait", "decideWait"} /\ req[c].obj = o}
Queue(c, o) == ahead' = [ahead EXCEPT ![c] = Waiting(o)]
Leave(c)    == ahead' = [d \in Client |-> ahead[d] \ {c}]

\* Mutant: a lock that hands itself on in any order.
AnyTurn(c) == ~ Locked(req[c].obj) /\ Leave(c)

Turn(c)     == ahead[c] = {} /\ ~ Locked(req[c].obj) /\ Leave(c)

Undecided(s) == {t \in Tool : s.decisions[t] = "undecided"}

(* _append_user(): a user message after the tail, with or without results  *)
(* for the tool uses of that tail.                                         *)
Appended(s, answers) ==
    [s EXCEPT !.tail = "user", !.uses = {}, !.broken = @ \/ answers # (s.tail = "tools")]

\* Mutant: what was pending stays pending.
ClosedNot(s) == [s EXCEPT !.results = {}]

(* _close_pending()                                                        *)
Closed(s) == [s EXCEPT !.pending = FALSE, !.results = {},
                       !.decisions = [t \in Tool |-> "none"]]

-----------------------------------------------------------------------------
(* send()                                                                  *)

Send(c) ==
    /\ req[c].at = "idle"
    /\ \/ current # NoSession /\ UNCHANGED <<current, made>>
       \/ /\ current = NoSession /\ made < MaxSessions
          /\ made' = made + 1 /\ current' = made + 1
    /\ req' = [req EXCEPT ![c] = [Idle EXCEPT !.at = "sendWait", !.obj = current']]
    /\ Queue(c, current')
    /\ UNCHANGED <<sess, named, ran, told, cut>>

(* With the lock: _repair() answers tool uses that a cut stream left, what *)
(* is pending is abandoned.  The tab is told of abandoned actions before   *)
(* the message is appended, and may be gone by then ("moving").            *)
SendStart(c) ==
    LET o == req[c].obj
        s == sess[o]
        Go(stage) == req' = [req EXCEPT ![c].at = stage]
    IN
    /\ req[c].at = "sendWait" /\ Turn(c)
    /\ \/ /\ s.pending /\ Undecided(s) # {}
          /\ sess' = [sess EXCEPT ![o] = Closed(s)]
          /\ req' = [req EXCEPT ![c].at = "moving", ![c].todo = s.uses \ s.results]
          /\ UNCHANGED told
       \/ /\ s.pending /\ Undecided(s) = {}
          /\ sess' = [sess EXCEPT ![o] = Appended(Closed(s), TRUE)]
          /\ told' = told \cup (s.uses \ s.results)
          /\ Go("model")
       \/ /\ ~ s.pending /\ s.tail = "tools"
          /\ sess' = [sess EXCEPT ![o] = Appended(s, TRUE)]
          /\ told' = told \cup s.uses
          /\ Go("model")
       \/ /\ ~ s.pending /\ s.tail # "tools"
          /\ sess' = [sess EXCEPT ![o] = Appended(s, FALSE)]
          /\ UNCHANGED told
          /\ Go("model")
    /\ UNCHANGED <<current, made, named, ran, cut>>

SendMoves(c) ==
    LET o == req[c].obj IN
    /\ req[c].at = "moving"
    /\ sess' = [sess EXCEPT ![o] = Appended(@, TRUE)]
    /\ told' = told \cup req[c].todo
    /\ req' = [req EXCEPT ![c].at = "model", ![c].todo = {}]
    /\ UNCHANGED <<ahead, current, made, named, ran, cut>>

-----------------------------------------------------------------------------
(* _loop()                                                                 *)

(* The model answers, or cannot be reached.                                *)
Answer(c) ==
    LET o == req[c].obj IN
    /\ req[c].at = "model"
    /\ \/ sess' = [sess EXCEPT ![o].tail = "text"]
       \/ UNCHANGED sess
    /\ req' = [req EXCEPT ![c] = Idle]
    /\ UNCHANGED <<ahead, current, made, named, ran, told, cut>>

(* It asks for tools; out of tokens, the turn ends with the tool uses in   *)
(* it and none of them is run.                                             *)
Ask(c) ==
    LET o == req[c].obj IN
    /\ req[c].at = "model"
    /\ \E n \in named..MaxTools :
        /\ named' = n
        /\ sess' = [sess EXCEPT ![o].tail = "tools", ![o].uses = (named + 1)..n]
    /\ \/ req' = [req EXCEPT ![c].at = "reading"]
       \/ req' = [req EXCEPT ![c] = Idle]
    /\ UNCHANGED <<ahead, current, made, ran, told, cut>>

(* The reading tools have run.  With changing ones the turn pauses;        *)
(* otherwise the model goes on, for at most MAX_STEPS rounds.              *)
ReadingDone(c) ==
    LET o == req[c].obj
        s == sess[o]
    IN
    /\ req[c].at = "reading"
    /\ \/ /\ s.uses # {}
          /\ sess' = [sess EXCEPT ![o].pending = TRUE, ![o].results = {},
                        ![o].decisions = [t \in Tool |-> IF t \in s.uses THEN "undecided"
                                                                         ELSE "none"]]
          /\ req' = [req EXCEPT ![c] = Idle]
       \/ /\ s.uses = {}
          /\ sess' = [sess EXCEPT ![o] = Appended(s, TRUE)]
          /\ \/ req' = [req EXCEPT ![c].at = "model"]
             \/ req' = [req EXCEPT ![c] = Idle]
    /\ UNCHANGED <<ahead, current, made, named, ran, told, cut>>

-----------------------------------------------------------------------------
(* decide()                                                                *)

(* A click is checked against the session before the lock is asked for ... *)
Decide(c, t) ==
    /\ req[c].at = "idle" /\ current # NoSession
    /\ sess[current].pending /\ sess[current].decisions[t] # "none"
    /\ \E approve \in BOOLEAN :
        req' = [req EXCEPT ![c] = [Idle EXCEPT !.at = "decideWait", !.obj = current,
                                               !.tool = t, !.approve = approve]]
    /\ Queue(c, current)
    /\ UNCHANGED <<current, made, sess, named, ran, told, cut>>

\* Mutant: a click on what is decided already is entered as well.
DecidableAgain(s, t) == s.pending

Decidable(s, t) == s.pending /\ s.decisions[t] \in {"none", "undecided"}

(* ... and again with it.  What is pending then may be another turn: the   *)
(* click is entered there although none of its actions has that id.        *)
DecideStart(c) ==
    LET o == req[c].obj
        t == req[c].tool
        s == [sess[o] EXCEPT !.decisions[t] = IF req[c].approve THEN "yes" ELSE "no"]
    IN
    /\ req[c].at = "decideWait" /\ Turn(c)
    /\ IF Decidable(sess[o], t)
       THEN /\ sess' = [sess EXCEPT ![o] = s]
            /\ req' = [req EXCEPT ![c] =
                          IF Undecided(s) # {} THEN Idle
                          ELSE [Idle EXCEPT !.at = "apply", !.obj = o, !.todo = s.uses]]
       ELSE /\ UNCHANGED sess
            /\ req' = [req EXCEPT ![c] = Idle]
    /\ UNCHANGED <<current, made, named, ran, told, cut>>

First(todo, t) == t \in todo /\ \A u \in todo : t <= u

(* The actions are carried out in order; a cancelled one is passed over.   *)
Apply(c) ==
    LET o == req[c].obj IN
    /\ req[c].at = "apply"
    /\ \E t \in req[c].todo :
        /\ First(req[c].todo, t)
        /\ \/ /\ sess[o].decisions[t] = "yes"
              /\ ran' = [ran EXCEPT ![t] = @ + 1]
              /\ req' = [req EXCEPT ![c].at = "run"]
           \/ /\ sess[o].decisions[t] # "yes"
              /\ req' = [req EXCEPT ![c].todo = @ \ {t}]
              /\ UNCHANGED ran
    /\ UNCHANGED <<ahead, current, made, sess, named, told, cut>>

\* Mutant: the result of a confirmed tool is not kept.
RunEndsLost(c) ==
    /\ req[c].at = "run"
    /\ \E t \in req[c].todo :
        /\ First(req[c].todo, t)
        /\ req' = [req EXCEPT ![c].at = "apply", ![c].todo = @ \ {t}]
    /\ UNCHANGED <<ahead, current, made, sess, named, ran, told, cut>>

(* The tool returns, fails or times out: there is a result.                *)
RunEnds(c) ==
    LET o == req[c].obj IN
    /\ req[c].at = "run"
    /\ \E t \in req[c].todo :
        /\ First(req[c].todo, t)
        /\ sess' = [sess EXCEPT ![o].results = @ \cup {t}]
        /\ req' = [req EXCEPT ![c].at = "apply", ![c].todo = @ \ {t}]
    /\ UNCHANGED <<ahead, current, made, named, ran, told, cut>>

Applied(c) ==
    LET o == req[c].obj
        s == sess[o]
    IN
    /\ req[c].at = "apply" /\ req[c].todo = {}
    /\ sess' = [sess EXCEPT ![o] = Appended(Closed(s), TRUE)]
    /\ told' = told \cup (s.uses \ s.results)
    /\ req' = [req EXCEPT ![c].at = "model"]
    /\ UNCHANGED <<ahead, current, made, named, ran, cut>>

-----------------------------------------------------------------------------
(* The tab is closed: the coroutine is cancelled where it stands.          *)
Disconnect(c) ==
    /\ req[c].at # "idle"
    /\ cut' = IF req[c].at = "run"
              THEN cut \cup {t \in req[c].todo : First(req[c].todo, t)}
              ELSE cut
    /\ req' = [req EXCEPT ![c] = Idle]
    /\ Leave(c)
    /\ UNCHANGED <<current, made, sess, named, ran, told>>

(* clear(), or eviction by MAX_SESSIONS newer ones; who has the object     *)
(* goes on with it.  Under the bound, only if another one can follow.      *)
Drop ==
    /\ current # NoSession /\ made < MaxSessions
    /\ current' = NoSession
    /\ UNCHANGED <<ahead, made, sess, req, named, ran, told, cut>>

ChatStep(c) ==
    \/ Send(c) \/ SendStart(c) \/ SendMoves(c)
    \/ Answer(c) \/ Ask(c) \/ ReadingDone(c)
    \/ \E t \in Tool : Decide(c, t)
    \/ DecideStart(c) \/ Apply(c) \/ RunEnds(c) \/ Applied(c)
    \/ Disconnect(c)

ChatNext == Drop \/ \E c \in Client : ChatStep(c)

ChatSpec == ChatInit /\ [][ChatNext]_chatVars

-----------------------------------------------------------------------------
(* Properties.                                                             *)

(* A confirmed action is carried out at most once, however many tabs click *)
(* and wherever streams are cut (chat.py:373).                             *)
ConfirmedRunsOnce == \A t \in Tool : ran[t] <= 1

(* When the model is told that an action changed nothing, it was not       *)
(* carried out before and is not afterwards; the one exception is an       *)
(* action whose tab was closed during its run (chat.py:355, :391).         *)
NothingChangedIsTrue == \A t \in told \ cut : ran[t] = 0

(* The history never has a turn with unanswered tool uses before another   *)
(* message, nor results without tool uses: the API would reject every      *)
(* later message of the session (chat.py:207).                             *)
CallsAreAnswered == \A o \in Session : ~ sess[o].broken

(* What a tool use is to the person at the tab: hers to decide while its   *)
(* turn reads or is pending, carried out once she said yes.                *)
Answered(t, answer) ==
    \E o \in Session :
        sess[o].pending /\ t \in sess[o].uses /\ sess[o].decisions[t] = answer
Reading(t)  == \E c \in Client : req[c].at = "reading" /\ t \in sess[req[c].obj].uses
Carrying(t) == \E c \in Client : req[c].at = "run" /\ First(req[c].todo, t)

StageOf(t) ==
    IF ran[t] > 0 /\ Carrying(t)       THEN "started"
    ELSE IF ran[t] > 0 /\ t \in cut    THEN "failed"
    ELSE IF ran[t] > 0                 THEN "succeeded"
    ELSE IF t > named                  THEN "new"
    ELSE IF Answered(t, "yes")         THEN "taken"
    ELSE IF Answered(t, "undecided") \/ Reading(t) THEN "open"
    ELSE "refused"

Table == INSTANCE DecisionTable WITH
    Request <- Tool, Disputable <- FALSE, stage <- [t \in Tool |-> StageOf(t)]

(* The tool uses are a decision table, for any number of tabs: what was     *)
(* cancelled, abandoned by a later message or lost with its tab is never     *)
(* carried out, not even by a click that was waiting for the lock, and what  *)
(* is carried out was confirmed and ends once (chat.py:343, :373).           *)
DecisionSpec == Table!DSpec

=============================================================================
