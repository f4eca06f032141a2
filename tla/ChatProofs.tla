----------------------------- MODULE ChatProofs -----------------------------
(***************************************************************************)
(* Theorems about Chat, for any number of tabs, sessions and tool uses.    *)
(***************************************************************************)
EXTENDS Chat, TLAPS

\* What a request and a session can become, field by field.
LEMMA RequestUpdate ==
  ASSUME NEW r \in Request
  PROVE  /\ \A at \in {"idle", "sendWait", "decideWait"} \cup Inside :
              /\ [r EXCEPT !.at = at] \in Request
              /\ \A T \in SUBSET Tool : [r EXCEPT !.at = at, !.todo = T] \in Request
         /\ \A T \in SUBSET Tool : [r EXCEPT !.todo = T] \in Request
BY DEF Request

\* The requests that a tab begins, and a decision that is complete, are typed.
LEMMA IdleUpdate ==
  /\ Idle \in Request
  /\ \A o \in Session : [Idle EXCEPT !.at = "sendWait", !.obj = o] \in Request
  /\ \A o \in Session, t \in Tool, b \in BOOLEAN :
       [Idle EXCEPT !.at = "decideWait", !.obj = o, !.tool = t, !.approve = b] \in Request
  /\ \A o \in Session, T \in SUBSET Tool :
       [Idle EXCEPT !.at = "apply", !.obj = o, !.todo = T] \in Request
BY DEF Idle, Request, Inside

\* What the helpers and the steps write into a session is a session.
LEMMA SessionUpdate ==
  ASSUME NEW s \in Conversation
  PROVE  /\ Closed(s) \in Conversation
         /\ \A b \in BOOLEAN : Appended(s, b) \in Conversation
         /\ [s EXCEPT !.tail = "text"] \in Conversation
         /\ \A U \in SUBSET Tool :
              /\ [s EXCEPT !.tail = "tools", !.uses = U] \in Conversation
              /\ [s EXCEPT !.results = U] \in Conversation
         /\ \A f \in [Tool -> {"none", "undecided", "yes", "no"}] :
              /\ [s EXCEPT !.pending = TRUE, !.results = {}, !.decisions = f] \in Conversation
              /\ [s EXCEPT !.decisions = f] \in Conversation
<1>1. Closed(s) \in Conversation
  BY DEF Closed, Conversation
<1>2. ASSUME NEW b \in BOOLEAN PROVE Appended(s, b) \in Conversation
  <2>1. (s.broken \/ b # (s.tail = "tools")) \in BOOLEAN
    BY Zenon
  <2> DEFINE x == (s.broken \/ b # (s.tail = "tools"))
  <2>2. Appended(s, b) = [s EXCEPT !.tail = "user", !.uses = {}, !.broken = x]
    BY DEF Appended
  <2>3. x \in BOOLEAN
    BY <2>1
  <2> HIDE DEF x
  <2> QED
    BY <2>2, <2>3 DEF Conversation
<1> QED
  BY <1>1, <1>2 DEF Conversation

\* The queue of a lock holds tabs only.
LEMMA AheadTyped ==
  ASSUME ChatTypeOK, NEW c \in Client
  PROVE  /\ Leave(c) => ahead' \in [Client -> SUBSET Client]
         /\ \A o \in Session : Queue(c, o) => ahead' \in [Client -> SUBSET Client]
<1>1. \A o : Waiting(o) \in SUBSET Client
  BY DEF Waiting
<1> QED
  BY <1>1 DEF Leave, Queue, ChatTypeOK

\* A request that has begun is for a session object.
HasObject == \A c \in Client : req[c].at # "idle" => req[c].obj \in Session

\* A tab's request and one session object have changed.
Changed(c, r, o, s) ==
    /\ r \in Request /\ (r.at # "idle" => r.obj \in Session)
    /\ req' = [req EXCEPT ![c] = r]
    /\ s \in Conversation
    /\ sess' = [sess EXCEPT ![o] = s]

\* A step that replaces one request and one session by typed ones keeps the types.
LEMMA ChangedIsTyped ==
  ASSUME ChatTypeOK, HasObject, NEW c \in Client, NEW r, NEW o, NEW s, Changed(c, r, o, s)
  PROVE  req' \in [Client -> Request] /\ sess' \in [Session -> Conversation] /\ HasObject'
BY DEF ChatTypeOK, HasObject, Changed

\* Sessions and requests keep their types in every step of a tab.
LEMMA StepIsTyped ==
  ASSUME ChatTypeOK, HasObject, NEW c \in Client, ChatStep(c)
  PROVE  req' \in [Client -> Request] /\ sess' \in [Session -> Conversation] /\ HasObject'
<1> USE ChatAssumption
<1> DEFINE Goal == /\ req' \in [Client -> Request]
                   /\ sess' \in [Session -> Conversation] /\ HasObject'
           o == req[c].obj
           s == sess[o]
           Same == sess' = [sess EXCEPT ![o] = s]
<1> SUFFICES Goal
  OBVIOUS
<1>0. req[c] \in Request /\ (req[c].at # "idle" => o \in Session /\ s \in Conversation)
  BY DEF ChatTypeOK, HasObject
<1>a. UNCHANGED sess => Same
  BY DEF ChatTypeOK
<1>b. ASSUME NEW r, NEW z, Changed(c, r, o, z) PROVE Goal
  BY <1>b, ChangedIsTyped
<1>c. ASSUME NEW r \in Request, r.at # "idle" => r.obj \in Session,
             req' = [req EXCEPT ![c] = r], UNCHANGED sess
      PROVE  Goal
  BY <1>c DEF ChatTypeOK, HasObject
<1>d. Idle \in Request /\ Idle.at = "idle"
  BY IdleUpdate DEF Idle
<1>e. /\ \A at : [req[c] EXCEPT !.at = at].obj = o
      /\ \A at, T : [req[c] EXCEPT !.at = at, !.todo = T].obj = o
      /\ \A T : /\ [req[c] EXCEPT !.todo = T].obj = o
                /\ [req[c] EXCEPT !.todo = T].at = req[c].at
  BY <1>0 DEF Request
<1>1. CASE Send(c)
  <2>1. current' \in Session
    BY <1>1 DEF Send, ChatTypeOK, Session, NoSession
  <2>2. [Idle EXCEPT !.at = "sendWait", !.obj = current'].obj \in Session
    BY <2>1 DEF Idle
  <2> QED
    BY <1>1, <1>c, <2>1, <2>2, IdleUpdate DEF Send
<1>2. CASE SendStart(c)
  <2>1. s.uses \ s.results \in SUBSET Tool
    BY <1>0, <1>2 DEF SendStart, Conversation
  <2>2. PICK z \in {Closed(s), Appended(Closed(s), TRUE), Appended(s, TRUE), Appended(s, FALSE)} :
          sess' = [sess EXCEPT ![o] = z]
    BY <1>2 DEF SendStart
  <2>3. z \in Conversation
    <3>1. Closed(s) \in Conversation /\ Appended(s, TRUE) \in Conversation
            /\ Appended(s, FALSE) \in Conversation
      BY <1>0, <1>2, SessionUpdate DEF SendStart
    <3> QED
      BY <3>1, SessionUpdate
  <2>4. PICK r \in {[req[c] EXCEPT !.at = "moving", !.todo = s.uses \ s.results],
                    [req[c] EXCEPT !.at = "model"]} :
          req' = [req EXCEPT ![c] = r]
    BY <1>2 DEF SendStart
  <2>5. r \in Request /\ r.obj = o
    <3>1. [req[c] EXCEPT !.at = "moving", !.todo = s.uses \ s.results] \in Request
      BY <1>0, <2>1, RequestUpdate DEF Inside
    <3>2. [req[c] EXCEPT !.at = "model"] \in Request
      BY <1>0, RequestUpdate DEF Inside
    <3>3. /\ [req[c] EXCEPT !.at = "moving", !.todo = s.uses \ s.results].obj = o
          /\ [req[c] EXCEPT !.at = "model"].obj = o
      BY <1>e
    <3> QED
      BY <2>4, <3>1, <3>2, <3>3, Zenon
  <2> QED
    BY <1>0, <1>2, <1>b, <2>2, <2>3, <2>4, <2>5 DEF SendStart, Changed
<1>3. CASE SendMoves(c)
  <2>1. Appended(s, TRUE) \in Conversation
    BY <1>0, <1>3, SessionUpdate DEF SendMoves
  <2>2. [req[c] EXCEPT !.at = "model", !.todo = {}] \in Request
    BY <1>0, RequestUpdate DEF Inside
  <2> QED
    BY <1>0, <1>3, <1>b, <1>e, <2>1, <2>2 DEF SendMoves, Changed, Inside
<1>4. CASE Answer(c)
  <2>1. [s EXCEPT !.tail = "text"] \in Conversation
    BY <1>0, <1>4, SessionUpdate DEF Answer
  <2> QED
    BY <1>4, <1>b, <1>c, <1>d, <2>1 DEF Answer, Changed
<1>5. CASE Ask(c)
  <2>1. PICK n \in named..MaxTools :
          sess' = [sess EXCEPT ![o] = [s EXCEPT !.tail = "tools", !.uses = (named + 1)..n]]
    <3>1. PICK n \in named..MaxTools :
            sess' = [sess EXCEPT ![o].tail = "tools", ![o].uses = (named + 1)..n]
      BY <1>5 DEF Ask
    <3>2. sess' = [sess EXCEPT ![o] = [s EXCEPT !.tail = "tools", !.uses = (named + 1)..n]]
      BY <3>1
    <3> QED
      BY <3>2, Zenon
  <2>2. (named + 1)..n \in SUBSET Tool
    <3>1. named \in Nat /\ MaxTools \in Nat
      BY ChatAssumption DEF ChatTypeOK
    <3> QED
      BY <2>1, <3>1 DEF Tool
  <2>3. [s EXCEPT !.tail = "tools", !.uses = (named + 1)..n] \in Conversation
    BY <1>0, <1>5, <2>2, SessionUpdate DEF Ask
  <2>4. PICK r \in {[req[c] EXCEPT !.at = "reading"], Idle} : req' = [req EXCEPT ![c] = r]
    BY <1>5 DEF Ask
  <2>5. r \in Request /\ (r.at # "idle" => r.obj = o)
    <3>1. [req[c] EXCEPT !.at = "reading"] \in Request
      BY <1>0, RequestUpdate DEF Inside
    <3>2. [req[c] EXCEPT !.at = "reading"].obj = o
      BY <1>e
    <3> QED
      BY <1>d, <2>4, <3>1, <3>2
  <2> QED
    BY <1>0, <1>5, <1>b, <2>1, <2>3, <2>4, <2>5 DEF Ask, Changed
<1>6. CASE ReadingDone(c)
  <2>1. [t \in Tool |-> IF t \in s.uses THEN "undecided" ELSE "none"]
          \in [Tool -> {"none", "undecided", "yes", "no"}]
    OBVIOUS
  <2>2. PICK z \in {Appended(s, TRUE),
                    [s EXCEPT !.pending = TRUE, !.results = {},
                       !.decisions = [t \in Tool |-> IF t \in s.uses THEN "undecided"
                                                                     ELSE "none"]]} :
          sess' = [sess EXCEPT ![o] = z]
    BY <1>6 DEF ReadingDone
  <2>3. z \in Conversation
    <3>1. s \in Conversation
      BY <1>0, <1>6 DEF ReadingDone
    <3>2. Appended(s, TRUE) \in Conversation
      BY <3>1, SessionUpdate
    <3>3. [s EXCEPT !.pending = TRUE, !.results = {},
             !.decisions = [t \in Tool |-> IF t \in s.uses THEN "undecided" ELSE "none"]]
            \in Conversation
      BY <2>1, <3>1, SessionUpdate
    <3> QED
      BY <2>2, <3>2, <3>3
  <2>4. PICK r \in {[req[c] EXCEPT !.at = "model"], Idle} : req' = [req EXCEPT ![c] = r]
    BY <1>6 DEF ReadingDone
  <2>5. r \in Request /\ (r.at # "idle" => r.obj = o)
    <3>1. [req[c] EXCEPT !.at = "model"] \in Request
      BY <1>0, RequestUpdate DEF Inside
    <3> QED
      BY <1>d, <1>e, <2>4, <3>1
  <2> QED
    BY <1>0, <1>6, <1>b, <2>2, <2>3, <2>4, <2>5 DEF ReadingDone, Changed
<1>7. ASSUME NEW t \in Tool, Decide(c, t) PROVE Goal
  <2>1. PICK b \in BOOLEAN : req' = [req EXCEPT ![c] =
          [Idle EXCEPT !.at = "decideWait", !.obj = current, !.tool = t, !.approve = b]]
    BY <1>7 DEF Decide
  <2>2. current \in Session
    BY <1>7 DEF Decide, ChatTypeOK
  <2>3. [Idle EXCEPT !.at = "decideWait", !.obj = current, !.tool = t, !.approve = b].obj = current
    BY DEF Idle
  <2> QED
    BY <1>7, <1>c, <2>1, <2>2, <2>3, IdleUpdate DEF Decide
<1>8. CASE DecideStart(c)
  <2> DEFINE t == req[c].tool
             v == IF req[c].approve THEN "yes" ELSE "no"
             z == [s EXCEPT !.decisions[t] = v]
  <2>1. s \in Conversation /\ o \in Session
    BY <1>0, <1>8 DEF DecideStart
  <2>2. s.decisions \in [Tool -> {"none", "undecided", "yes", "no"}] /\ s.uses \in SUBSET Tool
    BY <2>1 DEF Conversation
  <2>3. [s.decisions EXCEPT ![t] = v] \in [Tool -> {"none", "undecided", "yes", "no"}]
    BY <2>2
  <2>4. z = [s EXCEPT !.decisions = [s.decisions EXCEPT ![t] = v]]
    BY <2>1
  <2>5. z \in Conversation
    BY <2>1, <2>3, <2>4, SessionUpdate
  <2>6. z.uses = s.uses
    BY <2>1 DEF Conversation
  <2>7. [Idle EXCEPT !.at = "apply", !.obj = o, !.todo = s.uses] \in Request
    BY <2>1, <2>2, IdleUpdate
  <2>8. [Idle EXCEPT !.at = "apply", !.obj = o, !.todo = s.uses].obj = o
    BY DEF Idle
  <2>9. PICK r \in {[Idle EXCEPT !.at = "apply", !.obj = o, !.todo = z.uses], Idle} :
          req' = [req EXCEPT ![c] = r]
    BY <1>8 DEF DecideStart
  <2>10. r \in Request /\ (r.at # "idle" => r.obj \in Session)
    BY <1>d, <2>1, <2>6, <2>7, <2>8, <2>9
  <2>11. UNCHANGED sess \/ sess' = [sess EXCEPT ![o] = z]
    BY <1>8 DEF DecideStart
  <2> HIDE DEF z, t, v
  <2> QED
    BY <1>b, <1>c, <2>5, <2>9, <2>10, <2>11 DEF Changed
<1>9. CASE Apply(c)
  <2>1. PICK r \in {[req[c] EXCEPT !.at = "run"]} \cup
                   {[req[c] EXCEPT !.todo = @ \ {t}] : t \in Tool} : req' = [req EXCEPT ![c] = r]
    BY <1>0, <1>9 DEF Apply, Request
  <2>2. \A t \in Tool : req[c].todo \ {t} \in SUBSET Tool
    BY <1>0 DEF Request
  <2>3. r \in Request /\ r.obj = o
    <3>1. [req[c] EXCEPT !.at = "run"] \in Request
      BY <1>0, RequestUpdate DEF Inside
    <3>2. \A t \in Tool : [req[c] EXCEPT !.todo = req[c].todo \ {t}] \in Request
      BY <1>0, <2>2, RequestUpdate
    <3> QED
      BY <1>e, <2>1, <3>1, <3>2
  <2> QED
    BY <1>0, <1>9, <1>c, <2>1, <2>3 DEF Apply
<1>10. CASE RunEnds(c)
  <2>1. PICK t \in req[c].todo :
          /\ sess' = [sess EXCEPT ![o].results = @ \cup {t}]
          /\ req' = [req EXCEPT ![c].at = "apply", ![c].todo = @ \ {t}]
    BY <1>10 DEF RunEnds
  <2>2. s.results \cup {t} \in SUBSET Tool /\ req[c].todo \ {t} \in SUBSET Tool
    BY <1>0, <1>10 DEF RunEnds, Conversation, Request
  <2>3. [s EXCEPT !.results = s.results \cup {t}] \in Conversation
    BY <1>0, <1>10, <2>2, SessionUpdate DEF RunEnds
  <2>4. [req[c] EXCEPT !.at = "apply", !.todo = req[c].todo \ {t}] \in Request
    BY <1>0, <2>2, RequestUpdate DEF Inside
  <2>5. [req[c] EXCEPT !.at = "apply", !.todo = req[c].todo \ {t}].obj = o
    BY <1>e, <2>2 DEF Inside
  <2>6. /\ sess' = [sess EXCEPT ![o] = [s EXCEPT !.results = s.results \cup {t}]]
        /\ req' = [req EXCEPT ![c] = [req[c] EXCEPT !.at = "apply", !.todo = req[c].todo \ {t}]]
    BY <2>1
  <2> QED
    BY <1>0, <1>10, <1>b, <2>3, <2>4, <2>5, <2>6 DEF RunEnds, Changed
<1>11. CASE Applied(c)
  <2>1. Appended(Closed(s), TRUE) \in Conversation
    <3>1. Closed(s) \in Conversation
      BY <1>0, <1>11, SessionUpdate DEF Applied
    <3> QED
      BY <3>1, SessionUpdate
  <2>2. [req[c] EXCEPT !.at = "model"] \in Request
    BY <1>0, RequestUpdate DEF Inside
  <2> QED
    BY <1>0, <1>11, <1>b, <1>e, <2>1, <2>2 DEF Applied, Changed, Inside
<1>12. CASE Disconnect(c)
  BY <1>12, <1>c, <1>d DEF Disconnect
<1> HIDE DEF Goal
<1> QED
  BY <1>1, <1>2, <1>3, <1>4, <1>5, <1>6, <1>7, <1>8, <1>9, <1>10, <1>11, <1>12 DEF ChatStep

\* The queue, the counters and the histories do too.
LEMMA RestIsTyped ==
  ASSUME ChatTypeOK, HasObject, NEW c \in Client, ChatStep(c)
  PROVE  /\ current' \in Session \cup {NoSession} /\ made' \in 0..MaxSessions
         /\ ahead' \in [Client -> SUBSET Client]
         /\ named' \in 0..MaxTools /\ ran' \in [Tool -> Nat]
         /\ told' \in SUBSET Tool /\ cut' \in SUBSET Tool
<1> USE ChatAssumption
<1>0. /\ req[c].todo \in SUBSET Tool
      /\ req[c].at # "idle" => sess[req[c].obj].uses \in SUBSET Tool
  BY DEF ChatTypeOK, HasObject, Request, Conversation
<1>1. /\ current' \in Session \cup {NoSession} /\ made' \in 0..MaxSessions
  <2>1. CASE Send(c)
    BY <2>1 DEF Send, ChatTypeOK, Session, NoSession
  <2>2. CASE UNCHANGED <<current, made>>
    BY <2>2 DEF ChatTypeOK
  <2> QED
    BY <2>1, <2>2 DEF ChatStep, SendStart, SendMoves, Answer, Ask, ReadingDone, Decide,
                      DecideStart, Apply, RunEnds, Applied, Disconnect
<1>2. ahead' \in [Client -> SUBSET Client]
  <2>1. UNCHANGED ahead \/ Leave(c) \/ \E o \in Session : Queue(c, o)
    <3>1. CASE Send(c)
      BY <3>1 DEF Send, ChatTypeOK, Session, NoSession
    <3>2. ASSUME NEW t \in Tool, Decide(c, t)
          PROVE  \E o \in Session : Queue(c, o)
      BY <3>2 DEF Decide, ChatTypeOK
    <3> QED
      BY <3>1, <3>2 DEF ChatStep, SendStart, SendMoves, Answer, Ask, ReadingDone, Turn,
                        DecideStart, Apply, RunEnds, Applied, Disconnect
  <2>2. UNCHANGED ahead => ahead' \in [Client -> SUBSET Client]
    BY DEF ChatTypeOK
  <2>3. Leave(c) => ahead' \in [Client -> SUBSET Client]
    BY AheadTyped
  <2>4. ASSUME NEW o \in Session, Queue(c, o) PROVE ahead' \in [Client -> SUBSET Client]
    BY <2>4, AheadTyped
  <2> QED
    BY <2>1, <2>2, <2>3, <2>4
<1>3. named' \in 0..MaxTools
  <2>1. CASE Ask(c)
    BY <2>1 DEF Ask, ChatTypeOK
  <2>2. CASE UNCHANGED named
    BY <2>2 DEF ChatTypeOK
  <2> QED
    BY <2>1, <2>2 DEF ChatStep, Send, SendStart, SendMoves, Answer, ReadingDone, Decide,
                      DecideStart, Apply, RunEnds, Applied, Disconnect
<1>4. ran' \in [Tool -> Nat]
  <2>1. CASE Apply(c)
    BY <2>1 DEF Apply, ChatTypeOK
  <2>2. CASE UNCHANGED ran
    BY <2>2 DEF ChatTypeOK
  <2> QED
    BY <2>1, <2>2 DEF ChatStep, Send, SendStart, SendMoves, Answer, Ask, ReadingDone, Decide,
                      DecideStart, RunEnds, Applied, Disconnect
<1>5. told' \in SUBSET Tool
  <2>1. \/ UNCHANGED told
        \/ told' = told \cup req[c].todo
        \/ req[c].at # "idle" /\ told' = told \cup sess[req[c].obj].uses
        \/ req[c].at # "idle" /\ told' = told \cup (sess[req[c].obj].uses \ sess[req[c].obj].results)
    BY DEF ChatStep, Send, SendStart, SendMoves, Answer, Ask, ReadingDone, Decide,
           DecideStart, Apply, RunEnds, Applied, Disconnect
  <2> QED
    BY <1>0, <2>1 DEF ChatTypeOK
<1>6. cut' \in SUBSET Tool
  <2>1. UNCHANGED cut \/ cut' = cut \cup {t \in req[c].todo : First(req[c].todo, t)}
    BY DEF ChatStep, Send, SendStart, SendMoves, Answer, Ask, ReadingDone, Decide,
           DecideStart, Apply, RunEnds, Applied, Disconnect
  <2> QED
    BY <1>0, <2>1 DEF ChatTypeOK
<1> QED
  BY <1>1, <1>2, <1>3, <1>4, <1>5, <1>6

\* Every step keeps the types, and a session for each request at work.
LEMMA TypeStep ==
  ASSUME ChatTypeOK, HasObject, [ChatNext]_chatVars
  PROVE  ChatTypeOK' /\ HasObject'
<1>1. CASE Drop
  BY <1>1, ChatAssumption DEF Drop, ChatTypeOK, HasObject, Session, NoSession
<1>2. ASSUME NEW c \in Client, ChatStep(c) PROVE ChatTypeOK' /\ HasObject'
  <2>1. /\ req' \in [Client -> Request] /\ sess' \in [Session -> Conversation] /\ HasObject'
    BY <1>2, StepIsTyped
  <2>2. /\ current' \in Session \cup {NoSession} /\ made' \in 0..MaxSessions
        /\ ahead' \in [Client -> SUBSET Client]
        /\ named' \in 0..MaxTools /\ ran' \in [Tool -> Nat]
        /\ told' \in SUBSET Tool /\ cut' \in SUBSET Tool
    BY <1>2, RestIsTyped
  <2> QED
    BY <2>1, <2>2, Zenon DEF ChatTypeOK
<1>3. CASE UNCHANGED chatVars
  BY <1>3 DEF chatVars, ChatTypeOK, HasObject
<1> QED
  BY <1>1, <1>2, <1>3 DEF ChatNext

\* The initial states are typed.
LEMMA TypeInit == ChatInit => ChatTypeOK /\ HasObject
<1> SUFFICES ASSUME ChatInit PROVE ChatTypeOK /\ HasObject
  OBVIOUS
<1>1. sess \in [Session -> Conversation]
  <2>1. Session0 \in Conversation
    BY DEF Session0, Conversation
  <2> QED
    BY <2>1 DEF ChatInit
<1>2. req \in [Client -> Request] /\ HasObject
  BY IdleUpdate DEF ChatInit, HasObject, Idle
<1>3. /\ ran \in [Tool -> Nat] /\ ahead \in [Client -> SUBSET Client]
      /\ current \in Session \cup {NoSession} /\ told \in SUBSET Tool /\ cut \in SUBSET Tool
      /\ made \in 0..MaxSessions /\ named \in 0..MaxTools
  BY ChatAssumption DEF ChatInit, NoSession
<1> QED
  BY <1>1, <1>2, <1>3, Zenon DEF ChatTypeOK

\* Sessions, requests, the queue and the histories keep the types of ChatTypeOK.
THEOREM ChatTypeCorrect == ChatSpec => []ChatTypeOK
<1>1. ChatInit => ChatTypeOK /\ HasObject
  BY TypeInit
<1>2. ChatTypeOK /\ HasObject /\ [ChatNext]_chatVars => ChatTypeOK' /\ HasObject'
  BY TypeStep
<1> QED
  BY <1>1, <1>2, PTL DEF ChatSpec

-----------------------------------------------------------------------------
(* The history is never one that the API would reject.                     *)

\* A lock has one holder.
LockInv ==
    \A c, d \in Client :
        req[c].at \in Inside /\ req[d].at \in Inside /\ req[c].obj = req[d].obj => c = d

\* What is pending are the tool uses at the end of the messages.
Sound(s) == ~ s.broken /\ (s.pending => s.tail = "tools")

\* What the stage of the holder says of the session.
Fits(r, s) ==
    /\ r.at \in {"moving", "reading", "apply", "run"} => s.tail = "tools"
    /\ r.at \in {"moving", "model", "reading"} => ~ s.pending
    /\ r.at \in {"apply", "run"} => s.pending /\ Undecided(s) = {}

TailInv ==
    /\ \A o \in Session : Sound(sess[o])
    /\ \A c \in Client : Fits(req[c], sess[req[c].obj])

\* What _append_user() and _close_pending() change of a session, and what not.
LEMMA ConversationFields ==
  ASSUME NEW s \in Conversation, NEW b \in BOOLEAN
  PROVE  /\ Appended(s, b).tail = "user" /\ Appended(s, b).uses = {}
         /\ Appended(s, b).pending = s.pending
         /\ ~ s.broken /\ b = (s.tail = "tools") => ~ Appended(s, b).broken
         /\ Closed(s).tail = s.tail /\ Closed(s).uses = s.uses
         /\ Closed(s).broken = s.broken /\ ~ Closed(s).pending
BY DEF Appended, Closed, Conversation

\* A step may change a session under its lock, and may take a free lock.
LEMMA HolderOnly ==
  ASSUME ChatTypeOK, HasObject, LockInv, TailInv,
         NEW c \in Client, NEW r, NEW o \in Session, NEW s, Changed(c, r, o, s),
         Sound(s), Fits(r, s),
         r.at # "idle" => r.obj = o,
         r.at \in Inside \/ s # sess[o] =>
            (req[c].at \in Inside /\ req[c].obj = o) \/ ~ Locked(o)
  PROVE  LockInv' /\ TailInv'
<1>1. /\ req'[c] = r /\ sess'[o] = s
      /\ \A d \in Client : d # c => req'[d] = req[d]
      /\ \A p \in Session : p # o => sess'[p] = sess[p]
  BY DEF ChatTypeOK, Changed
<1>2. LockInv'
  BY <1>1 DEF LockInv, Locked, Inside
<1>3. \A p \in Session : Sound(sess'[p])
  BY <1>1 DEF TailInv
<1>4. ASSUME NEW d \in Client PROVE Fits(req'[d], sess'[req'[d].obj])
  <2>1. CASE d = c
    BY <1>1, <2>1 DEF Fits
  <2>2. CASE d # c /\ req[d].at \notin Inside
    BY <1>1, <2>2 DEF Fits, Inside
  <2>3. CASE d # c /\ req[d].at \in Inside /\ req[d].obj # o
    BY <1>1, <2>3 DEF TailInv, HasObject, Inside
  <2>4. CASE d # c /\ req[d].at \in Inside /\ req[d].obj = o
    <3>1. s = sess[o]
      BY <2>4 DEF LockInv, Locked
    <3> QED
      BY <1>1, <2>4, <3>1 DEF TailInv
  <2> QED
    BY <2>1, <2>2, <2>3, <2>4
<1> QED
  BY <1>1, <1>2, <1>3, <1>4, Zenon DEF TailInv

\* Every step of a tab keeps one holder per lock and the end of each history sound.
LEMMA TailStep ==
  ASSUME ChatTypeOK, HasObject, LockInv, TailInv, NEW c \in Client, ChatStep(c)
  PROVE  LockInv' /\ TailInv'
<1> DEFINE Goal == LockInv' /\ TailInv'
           o == req[c].obj
           s == sess[o]
<1> SUFFICES Goal
  OBVIOUS
<1>0. req' \in [Client -> Request] /\ sess' \in [Session -> Conversation] /\ HasObject'
  BY StepIsTyped
<1>a. ASSUME NEW r, NEW p \in Session, NEW z,
             req' = [req EXCEPT ![c] = r], sess' = [sess EXCEPT ![p] = z],
             Sound(z), Fits(r, z), r.at # "idle" => r.obj = p,
             r.at \in Inside \/ z # sess[p] =>
                (req[c].at \in Inside /\ req[c].obj = p) \/ ~ Locked(p)
      PROVE  Goal
  <2>1. req'[c] = r /\ sess'[p] = z
    BY <1>a DEF ChatTypeOK
  <2>2. Changed(c, r, p, z)
    BY <1>0, <1>a, <2>1 DEF Changed, HasObject
  <2> QED
    BY <1>a, <2>2, HolderOnly
<1>b. ASSUME NEW r, req' = [req EXCEPT ![c] = r], UNCHANGED sess,
             r.at \in {"idle", "sendWait", "decideWait"}
      PROVE  Goal
  <2>1. LockInv'
    BY <1>b DEF LockInv, Inside, ChatTypeOK
  <2>2. TailInv'
    BY <1>b DEF TailInv, Fits, ChatTypeOK
  <2> QED
    BY <2>1, <2>2
<1>c. Idle.at = "idle"
  BY DEF Idle
<1>d. req[c].at # "idle" => o \in Session /\ s \in Conversation /\ Sound(s)
  BY DEF ChatTypeOK, HasObject, TailInv
<1>e. ASSUME NEW z \in Conversation, NEW b \in BOOLEAN, ~ z.pending, ~ z.broken,
             b = (z.tail = "tools")
      PROVE  Sound(Appended(z, b)) /\ ~ Appended(z, b).pending /\ Appended(z, b).tail = "user"
  BY <1>e, ConversationFields DEF Sound
<1>f. /\ \A at : [req[c] EXCEPT !.at = at].obj = o /\ [req[c] EXCEPT !.at = at].at = at
      /\ \A at, T : /\ [req[c] EXCEPT !.at = at, !.todo = T].obj = o
                    /\ [req[c] EXCEPT !.at = at, !.todo = T].at = at
      /\ \A T : /\ [req[c] EXCEPT !.todo = T].obj = o
                /\ [req[c] EXCEPT !.todo = T].at = req[c].at
  BY DEF ChatTypeOK, Request
<1>g. Fits(req[c], s)
  BY DEF TailInv
<1> HIDE DEF Goal
<1>1. CASE Send(c) \/ (\E t \in Tool : Decide(c, t)) \/ Disconnect(c)
  <2>1. CASE Send(c)
    <3>1. [Idle EXCEPT !.at = "sendWait", !.obj = current'].at = "sendWait"
      BY DEF Idle
    <3> QED
      BY <2>1, <1>b, <3>1 DEF Send
  <2>2. ASSUME NEW t \in Tool, Decide(c, t) PROVE Goal
    <3>1. \A b : [Idle EXCEPT !.at = "decideWait", !.obj = current, !.tool = t,
                              !.approve = b].at = "decideWait"
      BY DEF Idle
    <3> QED
      BY <2>2, <1>b, <3>1 DEF Decide
  <2>3. CASE Disconnect(c)
    BY <2>3, <1>b, <1>c DEF Disconnect
  <2> QED
    BY <1>1, <2>1, <2>2, <2>3
<1>2. CASE SendStart(c)
  <2>0. o \in Session /\ s \in Conversation /\ Sound(s) /\ ~ Locked(o)
    BY <1>2, <1>d DEF SendStart, Turn
  <2>1. Closed(s) \in Conversation /\ ~ Closed(s).pending /\ Closed(s).tail = s.tail
          /\ ~ Closed(s).broken
    BY <2>0, SessionUpdate, ConversationFields DEF Sound
  <2>2. PICK r : /\ req' = [req EXCEPT ![c] = r] /\ r.obj = o
                 /\ \/ /\ r.at = "moving" /\ s.pending
                       /\ sess' = [sess EXCEPT ![o] = Closed(s)]
                    \/ /\ r.at = "model" /\ s.pending
                       /\ sess' = [sess EXCEPT ![o] = Appended(Closed(s), TRUE)]
                    \/ /\ r.at = "model" /\ ~ s.pending /\ s.tail = "tools"
                       /\ sess' = [sess EXCEPT ![o] = Appended(s, TRUE)]
                    \/ /\ r.at = "model" /\ ~ s.pending /\ s.tail # "tools"
                       /\ sess' = [sess EXCEPT ![o] = Appended(s, FALSE)]
    <3> DEFINE moving == [req[c] EXCEPT !.at = "moving", !.todo = s.uses \ s.results]
               model  == [req[c] EXCEPT !.at = "model"]
    <3>1. moving.at = "moving" /\ moving.obj = o /\ model.at = "model" /\ model.obj = o
      BY <1>f
    <3>2. \/ /\ req' = [req EXCEPT ![c] = moving] /\ s.pending
             /\ sess' = [sess EXCEPT ![o] = Closed(s)]
          \/ /\ req' = [req EXCEPT ![c] = model]
             /\ \/ s.pending /\ sess' = [sess EXCEPT ![o] = Appended(Closed(s), TRUE)]
                \/ /\ ~ s.pending /\ s.tail = "tools"
                   /\ sess' = [sess EXCEPT ![o] = Appended(s, TRUE)]
                \/ /\ ~ s.pending /\ s.tail # "tools"
                   /\ sess' = [sess EXCEPT ![o] = Appended(s, FALSE)]
      BY <1>2 DEF SendStart
    <3> HIDE DEF moving, model
    <3> QED
      BY <3>1, <3>2
  <2>3. PICK z : /\ sess' = [sess EXCEPT ![o] = z] /\ Sound(z) /\ ~ z.pending
                 /\ r.at = "moving" => z.tail = "tools"
    BY <2>0, <2>1, <2>2, <1>e DEF Sound
  <2>4. Fits(r, z)
    BY <2>2, <2>3 DEF Fits
  <2> QED
    BY <1>a, <2>0, <2>2, <2>3, <2>4
<1>3. CASE SendMoves(c)
  <2> DEFINE z == Appended(s, TRUE)
             r == [req[c] EXCEPT !.at = "model", !.todo = {}]
  <2>1. Sound(z) /\ ~ z.pending
    BY <1>3, <1>d, <1>e, <1>g DEF SendMoves, Fits, Sound
  <2>2. r.at = "model" /\ r.obj = o
    BY <1>f
  <2>3. Fits(r, z)
    BY <2>1, <2>2 DEF Fits
  <2>4. req' = [req EXCEPT ![c] = r] /\ sess' = [sess EXCEPT ![o] = z]
    BY <1>3 DEF SendMoves
  <2> HIDE DEF r, z
  <2> QED
    BY <1>3, <1>a, <1>d, <2>1, <2>2, <2>3, <2>4 DEF SendMoves, Inside
<1>4. CASE Answer(c)
  <2>1. Sound([s EXCEPT !.tail = "text"])
    BY <1>4, <1>d, <1>g DEF Answer, Fits, Sound, Conversation
  <2>2. Fits(Idle, [s EXCEPT !.tail = "text"])
    BY <1>c DEF Fits
  <2> QED
    BY <1>4, <1>a, <1>b, <1>c, <1>d, <2>1, <2>2 DEF Answer, Inside
<1>5. CASE Ask(c)
  <2>0. PICK U : sess' = [sess EXCEPT ![o] = [s EXCEPT !.tail = "tools", !.uses = U]]
    BY <1>5 DEF Ask
  <2>1. PICK r \in {[req[c] EXCEPT !.at = "reading"], Idle} : req' = [req EXCEPT ![c] = r]
    BY <1>5 DEF Ask
  <2> DEFINE z == [s EXCEPT !.tail = "tools", !.uses = U]
  <2>2. Sound(z) /\ z.tail = "tools" /\ ~ z.pending
    BY <1>5, <1>d, <1>g DEF Ask, Fits, Sound, Conversation
  <2>3. r.at \in {"reading", "idle"} /\ (r.at # "idle" => r.obj = o)
    BY <1>c, <1>f, <2>1
  <2>4. Fits(r, z)
    BY <2>2, <2>3 DEF Fits
  <2> QED
    BY <1>5, <1>a, <1>d, <2>0, <2>1, <2>2, <2>3, <2>4 DEF Ask, Inside
<1>6. CASE ReadingDone(c)
  <2>1. PICK r \in {[req[c] EXCEPT !.at = "model"], Idle}, f \in [Tool -> {"none", "undecided"}] :
          /\ req' = [req EXCEPT ![c] = r]
          /\ \/ sess' = [sess EXCEPT ![o] = Appended(s, TRUE)]
             \/ /\ r = Idle
                /\ sess' = [sess EXCEPT ![o] =
                              [s EXCEPT !.pending = TRUE, !.results = {}, !.decisions = f]]
    <3> DEFINE g == [t \in Tool |-> IF t \in s.uses THEN "undecided" ELSE "none"]
    <3>1. g \in [Tool -> {"none", "undecided"}]
      OBVIOUS
    <3>2. \/ /\ req' = [req EXCEPT ![c] = Idle]
             /\ sess' = [sess EXCEPT ![o] =
                           [s EXCEPT !.pending = TRUE, !.results = {}, !.decisions = g]]
          \/ /\ sess' = [sess EXCEPT ![o] = Appended(s, TRUE)]
             /\ \/ req' = [req EXCEPT ![c] = [req[c] EXCEPT !.at = "model"]]
                \/ req' = [req EXCEPT ![c] = Idle]
      BY <1>6, ZenonT(40) DEF ReadingDone, ChatTypeOK
    <3> HIDE DEF g, o, s
    <3> QED
      BY <3>1, <3>2
  <2>2. r.at \in {"model", "idle"} /\ (r.at # "idle" => r.obj = o)
    BY <1>c, <1>f, <2>1
  <2>3. PICK z : sess' = [sess EXCEPT ![o] = z] /\ Sound(z) /\ (~ z.pending \/ r.at = "idle")
    <3>1. Sound(Appended(s, TRUE)) /\ ~ Appended(s, TRUE).pending
      BY <1>6, <1>d, <1>e, <1>g DEF ReadingDone, Fits, Sound
    <3>2. Sound([s EXCEPT !.pending = TRUE, !.results = {}, !.decisions = f])
      BY <1>6, <1>d, <1>g DEF ReadingDone, Fits, Sound, Conversation
    <3> QED
      BY <1>c, <2>1, <3>1, <3>2
  <2>4. Fits(r, z)
    BY <2>2, <2>3 DEF Fits
  <2> QED
    BY <1>6, <1>a, <1>d, <2>1, <2>2, <2>3, <2>4 DEF ReadingDone, Inside
<1>7. CASE DecideStart(c)
  <2>0. o \in Session /\ s \in Conversation /\ Sound(s) /\ ~ Locked(o)
    BY <1>7, <1>d DEF DecideStart, Turn
  <2> DEFINE z == [s EXCEPT !.decisions[req[c].tool] = IF req[c].approve THEN "yes" ELSE "no"]
             r == [Idle EXCEPT !.at = "apply", !.obj = o, !.todo = z.uses]
  <2>1. CASE UNCHANGED sess /\ req' = [req EXCEPT ![c] = Idle]
    BY <1>b, <1>c, <2>1
  <2>2. CASE s.pending /\ sess' = [sess EXCEPT ![o] = z]
    <3>1. Sound(z) /\ z.pending /\ z.tail = "tools"
      BY <2>0, <2>2 DEF Sound, Conversation
    <3>2. CASE req' = [req EXCEPT ![c] = Idle]
      <4>1. Fits(Idle, z)
        BY <1>c DEF Fits
      <4> HIDE DEF z
      <4> QED
        BY <1>a, <1>c, <2>0, <2>2, <3>1, <3>2, <4>1
    <3>3. CASE Undecided(z) = {} /\ req' = [req EXCEPT ![c] = r]
      <4>1. r.at = "apply" /\ r.obj = o
        BY DEF Idle
      <4>2. Fits(r, z)
        BY <3>1, <3>3, <4>1 DEF Fits
      <4> HIDE DEF z, r
      <4> QED
        BY <1>a, <2>0, <2>2, <3>1, <3>3, <4>1, <4>2
    <3> QED
      BY <1>7, <2>0, <2>2, <3>2, <3>3 DEF DecideStart
  <2> QED
    BY <1>7, <2>1, <2>2 DEF DecideStart, Decidable
<1>8. CASE Apply(c)
  <2>1. PICK r : /\ req' = [req EXCEPT ![c] = r] /\ r.obj = o
                 /\ r.at \in {"apply", "run"}
    <3>1. ASSUME req' = [req EXCEPT ![c].at = "run"]
          PROVE  \E r : /\ req' = [req EXCEPT ![c] = r] /\ r.obj = o
                        /\ r.at \in {"apply", "run"}
      <4> DEFINE r == [req[c] EXCEPT !.at = "run"]
      <4>1. req' = [req EXCEPT ![c] = r]
        BY <3>1
      <4>2. r.obj = o /\ r.at = "run"
        BY <1>f
      <4> HIDE DEF r
      <4> QED
        BY <4>1, <4>2
    <3>2. ASSUME NEW t, req' = [req EXCEPT ![c].todo = @ \ {t}]
          PROVE  \E r : /\ req' = [req EXCEPT ![c] = r] /\ r.obj = o
                        /\ r.at \in {"apply", "run"}
      <4> DEFINE r == [req[c] EXCEPT !.todo = req[c].todo \ {t}]
      <4>1. req' = [req EXCEPT ![c] = r]
        BY <3>2
      <4>2. r.obj = o /\ r.at = "apply"
        BY <1>8, <1>f DEF Apply
      <4> HIDE DEF r
      <4> QED
        BY <4>1, <4>2
    <3>3. req' = [req EXCEPT ![c].at = "run"] \/ \E t : req' = [req EXCEPT ![c].todo = @ \ {t}]
      BY <1>8 DEF Apply
    <3> QED
      BY <3>1, <3>2, <3>3
  <2>2. Fits(r, s) /\ sess' = [sess EXCEPT ![o] = s]
    BY <1>8, <1>g, <2>1 DEF Apply, Fits, ChatTypeOK
  <2> QED
    BY <1>8, <1>a, <1>d, <2>1, <2>2 DEF Apply, Inside
<1>9. CASE RunEnds(c)
  <2>1. PICK t : /\ sess' = [sess EXCEPT ![o] = [s EXCEPT !.results = s.results \cup {t}]]
                 /\ req' = [req EXCEPT ![c] =
                              [req[c] EXCEPT !.at = "apply", !.todo = req[c].todo \ {t}]]
    <3>1. PICK t : /\ sess' = [sess EXCEPT ![o].results = @ \cup {t}]
                   /\ req' = [req EXCEPT ![c].at = "apply", ![c].todo = @ \ {t}]
      BY <1>9 DEF RunEnds
    <3>2. /\ sess' = [sess EXCEPT ![o] = [s EXCEPT !.results = s.results \cup {t}]]
          /\ req' = [req EXCEPT ![c] = [req[c] EXCEPT !.at = "apply", !.todo = req[c].todo \ {t}]]
      BY <3>1
    <3> QED
      BY <3>2, Zenon
  <2> DEFINE z == [s EXCEPT !.results = s.results \cup {t}]
             r == [req[c] EXCEPT !.at = "apply", !.todo = req[c].todo \ {t}]
  <2>2. /\ z.tail = s.tail /\ z.pending = s.pending /\ z.broken = s.broken
        /\ z.decisions = s.decisions
    BY <1>9, <1>d DEF RunEnds, Conversation
  <2>3. Sound(z) /\ Fits(r, z)
    BY <1>9, <1>d, <1>f, <1>g, <2>2 DEF RunEnds, Sound, Fits, Undecided
  <2>4. r.at = "apply" /\ r.obj = o
    BY <1>f
  <2> HIDE DEF r, z
  <2> QED
    BY <1>9, <1>a, <1>d, <2>1, <2>3, <2>4 DEF RunEnds, Inside, r, z
<1>10. CASE Applied(c)
  <2>1. Closed(s) \in Conversation /\ ~ Closed(s).pending /\ Closed(s).tail = "tools"
          /\ ~ Closed(s).broken
    BY <1>10, <1>d, <1>g, SessionUpdate, ConversationFields DEF Applied, Sound, Fits
  <2>2. Sound(Appended(Closed(s), TRUE)) /\ ~ Appended(Closed(s), TRUE).pending
    BY <1>e, <2>1
  <2>3. Fits([req[c] EXCEPT !.at = "model"], Appended(Closed(s), TRUE))
    BY <1>f, <2>2 DEF Fits
  <2> QED
    BY <1>10, <1>a, <1>d, <1>f, <2>2, <2>3 DEF Applied, Inside
<1> QED
  BY <1>1, <1>2, <1>3, <1>4, <1>5, <1>6, <1>7, <1>8, <1>9, <1>10 DEF ChatStep, Goal

\* The history never has tool uses without results before another message.
THEOREM HistoryIsAccepted == ChatSpec => []CallsAreAnswered
<1> DEFINE Inv == ChatTypeOK /\ HasObject /\ LockInv /\ TailInv
<1>1. ChatInit => Inv
  BY TypeInit DEF ChatInit, LockInv, TailInv, Sound, Fits, Session0, Idle, Inside
<1>2. Inv /\ [ChatNext]_chatVars => Inv'
  <2> SUFFICES ASSUME Inv, [ChatNext]_chatVars PROVE LockInv' /\ TailInv'
    BY TypeStep
  <2>1. CASE UNCHANGED <<sess, req>>
    BY <2>1 DEF LockInv, TailInv
  <2>2. ASSUME NEW c \in Client, ChatStep(c) PROVE LockInv' /\ TailInv'
    BY <2>2, TailStep
  <2> QED
    BY <2>1, <2>2 DEF ChatNext, Drop, chatVars
<1>3. Inv => CallsAreAnswered
  BY DEF TailInv, Sound, CallsAreAnswered
<1> QED
  BY <1>1, <1>2, <1>3, PTL DEF ChatSpec

-----------------------------------------------------------------------------
(* Confirmed actions run once, and what the model is told is true.         *)

\* Tool uses have names of their own; what was told is in no turn any more.
NameInv ==
    /\ \A o \in Session, t \in Tool :
        /\ t \in sess[o].uses => t <= named /\ t \notin told
        /\ sess[o].decisions[t] # "none" => t <= named
        /\ sess[o].pending => /\ sess[o].decisions[t] = "undecided" => t \in sess[o].uses
                              /\ t \in sess[o].uses => sess[o].decisions[t] # "none"
    /\ \A o, p \in Session : sess[o].uses \cap sess[p].uses # {} => o = p
    /\ \A t \in Tool : t > named => ran[t] = 0 /\ t \notin told
    /\ \A c \in Client : req[c].at = "decideWait" => req[c].tool \in Tool /\ req[c].tool <= named

\* A tool use of a turn has not run while anyone can still decide on the turn;
\* once run, it has a result, was cut, or is running.
Accounted(o, t) ==
    /\ ~ sess[o].pending \/ Undecided(sess[o]) # {} => ran[t] = 0
    /\ ran[t] > 0 => \/ t \in sess[o].results \/ t \in cut
                     \/ \E c \in Client : /\ req[c].at = "run" /\ req[c].obj = o
                                          /\ First(req[c].todo, t)

\* What a request has left to do is of its turn, and has not run.
LeftToDo(c) ==
    /\ req[c].todo \subseteq sess[req[c].obj].uses
    /\ \A t \in req[c].todo : ran[t] = 0 \/ (req[c].at = "run" /\ First(req[c].todo, t))

RunInv ==
    /\ \A o \in Session : \A t \in sess[o].uses : Accounted(o, t)
    /\ \A c \in Client : req[c].at \in {"moving", "apply", "run"} => LeftToDo(c)
    /\ ConfirmedRunsOnce
    /\ NothingChangedIsTrue

\* A click on an action that is not of the pending turn: it waited since an
\* earlier turn, so nobody has decided on this one, and whoever will comes later.
Foreign(c) ==
    /\ req[c].at = "decideWait" /\ sess[req[c].obj].pending
    /\ sess[req[c].obj].decisions[req[c].tool] = "none"

Early(c) ==
    /\ \A t \in sess[req[c].obj].uses : sess[req[c].obj].decisions[t] = "undecided"
    /\ \A d \in Client : req[d].at = "decideWait" /\ req[d].obj = req[c].obj
          /\ req[d].tool \in sess[req[c].obj].uses => c \in ahead[d]

\* Nobody has clicked on an action of a turn that is not pending yet.
Unclicked(c) ==
    \A d \in Client : req[d].at = "decideWait" /\ req[d].obj = req[c].obj
      => req[d].tool \notin sess[req[c].obj].uses

QueueInv ==
    /\ \A c \in Client : req[c].at = "reading" => Unclicked(c)
    /\ \A c \in Client : Foreign(c) => Early(c)

ChatInv == LockInv /\ TailInv /\ NameInv /\ RunInv /\ QueueInv


\* A step of tab c, under the lock of session o or about to take it.
Step(c, o) ==
    /\ c \in Client /\ o \in Session
    /\ \A d \in Client \ {c} : req'[d] = req[d]
    /\ \A p \in Session \ {o} : sess'[p] = sess[p]

\* Session o keeps its pending turn and its decisions.
SameTurn(o) == sess'[o].pending = sess[o].pending /\ sess'[o].decisions = sess[o].decisions

\* What a step outside the lock changes, field by field.
LEMMA OutsideFields ==
  ASSUME ChatTypeOK, NEW c \in Client
  PROVE  /\ Send(c) => req'[c].at = "sendWait"
         /\ \A t \in Tool : Decide(c, t) =>
              req'[c].at = "decideWait" /\ req'[c].obj = current /\ req'[c].tool = t
         /\ Disconnect(c) => req'[c].at = "idle"
         /\ Send(c) \/ (\E t \in Tool : Decide(c, t)) \/ Disconnect(c) =>
              UNCHANGED sess /\ \A d \in Client \ {c} : req'[d] = req[d]
<1>1. \A r : req' = [req EXCEPT ![c] = r] =>
         req'[c] = r /\ \A d \in Client \ {c} : req'[d] = req[d]
  BY DEF ChatTypeOK
<1>2. /\ Idle.at = "idle"
      /\ \A o : [Idle EXCEPT !.at = "sendWait", !.obj = o].at = "sendWait"
      /\ \A o, t, b : LET r == [Idle EXCEPT !.at = "decideWait", !.obj = o, !.tool = t,
                                           !.approve = b]
                      IN  r.at = "decideWait" /\ r.obj = o /\ r.tool = t
  BY DEF Idle
<1>3. Send(c) => /\ UNCHANGED sess
                 /\ req' = [req EXCEPT ![c] = [Idle EXCEPT !.at = "sendWait", !.obj = current']]
  BY DEF Send
<1>4. \A t \in Tool : Decide(c, t) => /\ UNCHANGED sess
         /\ \E b \in BOOLEAN : req' = [req EXCEPT ![c] = [Idle EXCEPT !.at = "decideWait",
                                          !.obj = current, !.tool = t, !.approve = b]]
  BY DEF Decide
<1>5. Disconnect(c) => UNCHANGED sess /\ req' = [req EXCEPT ![c] = Idle]
  BY DEF Disconnect
<1>6. Send(c) => req'[c].at = "sendWait" /\ \A d \in Client \ {c} : req'[d] = req[d]
  <2>1. Send(c) => req'[c] = [Idle EXCEPT !.at = "sendWait", !.obj = current']
    BY <1>1, <1>3
  <2>2. Send(c) => \A d \in Client \ {c} : req'[d] = req[d]
    BY <1>1, <1>3
  <2>3. Send(c) => req'[c].at = "sendWait"
    BY <2>1 DEF Idle
  <2> QED
    BY <2>2, <2>3
<1>7. ASSUME NEW t \in Tool, Decide(c, t)
      PROVE  /\ req'[c].at = "decideWait" /\ req'[c].obj = current /\ req'[c].tool = t
             /\ \A d \in Client \ {c} : req'[d] = req[d]
  <2>1. PICK b \in BOOLEAN : req'[c] = [Idle EXCEPT !.at = "decideWait", !.obj = current,
                                                   !.tool = t, !.approve = b]
    BY <1>1, <1>4, <1>7
  <2>2. \A d \in Client \ {c} : req'[d] = req[d]
    BY <1>1, <1>4, <1>7
  <2> QED
    BY <1>2, <2>1, <2>2
<1>8. Disconnect(c) => req'[c].at = "idle" /\ \A d \in Client \ {c} : req'[d] = req[d]
  BY <1>1, <1>2, <1>5
<1> QED
  BY <1>3, <1>4, <1>5, <1>6, <1>7, <1>8

\* What send() changes when it gets the lock.
LEMMA SendStartFields ==
  ASSUME ChatTypeOK, HasObject, NEW c \in Client, SendStart(c),
         NEW o, o = req[c].obj
  PROVE  /\ Step(c, o) /\ ~ Locked(o) /\ ~ sess'[o].pending
         /\ \A t \in Tool : sess'[o].decisions[t] \in {"none", sess[o].decisions[t]}
         /\ \/ /\ sess[o].pending /\ Undecided(sess[o]) # {}
               /\ req'[c].at = "moving" /\ req'[c].obj = o
               /\ req'[c].todo \subseteq sess[o].uses
               /\ sess'[o].uses = sess[o].uses /\ told' = told
            \/ /\ req'[c].at = "model" /\ sess'[o].uses = {}
               /\ told \subseteq told'
               /\ \A t \in told' \ told : /\ t \in sess[o].uses
                                          /\ sess[o].pending => t \notin sess[o].results
<1> DEFINE s == sess[o]
<1>0. /\ req[c].at = "sendWait" /\ o \in Session /\ ~ Locked(o)
      /\ req[c] \in Request /\ s \in Conversation
  BY DEF SendStart, Turn, HasObject, ChatTypeOK
<1>1. \A z : sess' = [sess EXCEPT ![o] = z] =>
         sess'[o] = z /\ \A p \in Session \ {o} : sess'[p] = sess[p]
  BY <1>0 DEF ChatTypeOK
<1>2. \A r : req' = [req EXCEPT ![c] = r] =>
         req'[c] = r /\ \A d \in Client \ {c} : req'[d] = req[d]
  BY DEF ChatTypeOK
<1>3. /\ Closed(s).uses = s.uses /\ ~ Closed(s).pending
      /\ \A t \in Tool : Closed(s).decisions[t] = "none"
  BY <1>0 DEF Closed, Conversation
<1>4. \A b : /\ Appended(Closed(s), b).uses = {} /\ ~ Appended(Closed(s), b).pending
             /\ \A t \in Tool : Appended(Closed(s), b).decisions[t] = "none"
             /\ Appended(s, b).uses = {} /\ Appended(s, b).pending = s.pending
             /\ Appended(s, b).decisions = s.decisions
  BY <1>0 DEF Appended, Closed, Conversation
<1>5. /\ [req[c] EXCEPT !.at = "model"].at = "model"
      /\ \A T : LET r == [req[c] EXCEPT !.at = "moving", !.todo = T]
                IN  r.at = "moving" /\ r.obj = o /\ r.todo = T
  BY <1>0 DEF Request
<1>6. CASE s.pending /\ Undecided(s) # {}
  <2>1. /\ sess' = [sess EXCEPT ![o] = Closed(s)] /\ told' = told
        /\ req' = [req EXCEPT ![c].at = "moving", ![c].todo = s.uses \ s.results]
    BY <1>6 DEF SendStart
  <2>2. req' = [req EXCEPT ![c] = [req[c] EXCEPT !.at = "moving", !.todo = s.uses \ s.results]]
    BY <2>1
  <2> HIDE DEF s
  <2>3. Step(c, o)
    BY <1>0, <1>1, <1>2, <2>1, <2>2, Zenon DEF Step
  <2>4. /\ sess'[o] = Closed(s)
        /\ req'[c] = [req[c] EXCEPT !.at = "moving", !.todo = s.uses \ s.results]
    BY <1>1, <1>2, <2>1, <2>2
  <2>5. req'[c].at = "moving" /\ req'[c].obj = o /\ req'[c].todo = s.uses \ s.results
    BY <1>5, <2>4
  <2>6. /\ sess'[o].uses = s.uses /\ ~ sess'[o].pending
        /\ \A t \in Tool : sess'[o].decisions[t] = "none"
    BY <1>3, <2>4
  <2>7. req'[c].todo \subseteq s.uses
    BY <2>5
  <2> QED
    BY <1>0, <1>6, <2>1, <2>3, <2>5, <2>6, <2>7 DEF s
<1>7. CASE ~ (s.pending /\ Undecided(s) # {})
  <2>1. req' = [req EXCEPT ![c].at = "model"]
    BY <1>7 DEF SendStart
  <2>2. req' = [req EXCEPT ![c] = [req[c] EXCEPT !.at = "model"]]
    BY <2>1
  <2>3. \/ /\ s.pending /\ sess' = [sess EXCEPT ![o] = Appended(Closed(s), TRUE)]
           /\ told' = told \cup (s.uses \ s.results)
        \/ ~ s.pending /\ sess' = [sess EXCEPT ![o] = Appended(s, TRUE)] /\ told' = told \cup s.uses
        \/ ~ s.pending /\ sess' = [sess EXCEPT ![o] = Appended(s, FALSE)] /\ told' = told
    BY <1>7 DEF SendStart
  <2>4. Step(c, o) /\ req'[c].at = "model"
    BY <1>0, <1>1, <1>2, <1>5, <2>2, <2>3, Zenon DEF Step
  <2> HIDE DEF s
  <2>5. \/ /\ s.pending /\ sess'[o] = Appended(Closed(s), TRUE)
           /\ told' = told \cup (s.uses \ s.results)
        \/ ~ s.pending /\ sess'[o] = Appended(s, TRUE) /\ told' = told \cup s.uses
        \/ ~ s.pending /\ sess'[o] = Appended(s, FALSE) /\ told' = told
    BY <1>1, <2>3
  <2>6. ~ sess'[o].pending /\ sess'[o].uses = {}
    BY <1>4, <2>5
  <2>7. \A t \in Tool : sess'[o].decisions[t] \in {"none", s.decisions[t]}
    BY <1>4, <2>5
  <2> QED
    BY <1>0, <2>4, <2>5, <2>6, <2>7 DEF s
<1> QED
  BY <1>6, <1>7

\* What the steps of _loop() change.
LEMMA LoopFields ==
  ASSUME ChatTypeOK, HasObject, NEW c \in Client, NEW o, o = req[c].obj
  PROVE  /\ SendMoves(c) => /\ Step(c, o) /\ SameTurn(o)
                            /\ req'[c].at = "model" /\ sess'[o].uses = {}
         /\ Answer(c) => /\ Step(c, o) /\ SameTurn(o) /\ req'[c].at = "idle"
                         /\ sess'[o].uses = sess[o].uses
         /\ Ask(c) => /\ Step(c, o) /\ SameTurn(o)
                      /\ req'[c].at \in {"reading", "idle"}
                      /\ req'[c].at = "reading" => req'[c].obj = o
                      /\ named' \in named..MaxTools
                      /\ sess'[o].uses = (named + 1)..named'
         /\ ReadingDone(c) =>
              /\ Step(c, o) /\ req'[c].at \in {"model", "idle"} /\ sess'[o].uses = sess[o].uses
              /\ \/ SameTurn(o)
                 \/ /\ sess'[o].pending
                    /\ \A t \in Tool : sess'[o].decisions[t] =
                         IF t \in sess[o].uses THEN "undecided" ELSE "none"
<1> DEFINE s == sess[o]
<1>0. req[c] \in Request /\ (req[c].at # "idle" => o \in Session /\ s \in Conversation)
  BY DEF HasObject, ChatTypeOK
<1>1. req[c].at # "idle" => \A z : sess' = [sess EXCEPT ![o] = z] =>
         sess'[o] = z /\ \A p \in Session \ {o} : sess'[p] = sess[p]
  BY <1>0 DEF ChatTypeOK
<1>2. \A r : req' = [req EXCEPT ![c] = r] =>
         req'[c] = r /\ \A d \in Client \ {c} : req'[d] = req[d]
  BY DEF ChatTypeOK
<1>3. /\ Idle.at = "idle"
      /\ \A at : [req[c] EXCEPT !.at = at].at = at /\ [req[c] EXCEPT !.at = at].obj = o
      /\ [req[c] EXCEPT !.at = "model", !.todo = {}].at = "model"
  BY <1>0 DEF Idle, Request
<1>4. s \in Conversation => \A b : /\ Appended(s, b).uses = {} /\ Appended(s, b).pending = s.pending
                                  /\ Appended(s, b).decisions = s.decisions
  BY DEF Appended, Conversation
<1> HIDE DEF s
<1>5. ASSUME SendMoves(c)
      PROVE  Step(c, o) /\ SameTurn(o) /\ req'[c].at = "model" /\ sess'[o].uses = {}
  <2>1. /\ sess' = [sess EXCEPT ![o] = Appended(s, TRUE)] /\ req[c].at = "moving"
        /\ req' = [req EXCEPT ![c] = [req[c] EXCEPT !.at = "model", !.todo = {}]]
    BY <1>5 DEF SendMoves, s
  <2>2. Step(c, o)
    BY <1>0, <1>1, <1>2, <2>1, Zenon DEF Step
  <2>3. sess'[o] = Appended(s, TRUE) /\ req'[c] = [req[c] EXCEPT !.at = "model", !.todo = {}]
    BY <1>1, <1>2, <2>1
  <2> QED
    <3>1. /\ sess'[o].pending = s.pending /\ sess'[o].decisions = s.decisions
          /\ sess'[o].uses = {}
      <4>1. /\ Appended(s, TRUE).pending = s.pending /\ Appended(s, TRUE).uses = {}
            /\ Appended(s, TRUE).decisions = s.decisions
        BY <1>0, <1>4, <2>1
      <4> QED
        BY <2>3, <4>1, Zenon
    <3>2. req'[c].at = "model"
      BY <1>3, <2>3
    <3> QED
      BY <2>2, <3>1, <3>2 DEF SameTurn, s
<1>6. ASSUME Answer(c)
      PROVE  Step(c, o) /\ SameTurn(o) /\ req'[c].at = "idle" /\ sess'[o].uses = sess[o].uses
  <2>1. req[c].at = "model" /\ req' = [req EXCEPT ![c] = Idle]
    BY <1>6 DEF Answer
  <2>2. sess' = [sess EXCEPT ![o] = [s EXCEPT !.tail = "text"]] \/ sess' = [sess EXCEPT ![o] = s]
    BY <1>6 DEF Answer, ChatTypeOK, s
  <2>3. LET z == [s EXCEPT !.tail = "text"]
        IN  z.uses = s.uses /\ z.pending = s.pending /\ z.decisions = s.decisions
    BY <1>0, <2>1 DEF Conversation
  <2> QED
    <3>1. Step(c, o)
      BY <1>0, <1>1, <1>2, <2>1, <2>2, Zenon DEF Step
    <3>2. sess'[o] = [s EXCEPT !.tail = "text"] \/ sess'[o] = s
      BY <1>1, <2>1, <2>2
    <3>3. req'[c].at = "idle"
      BY <1>2, <1>3, <2>1
    <3>4. sess'[o].uses = s.uses /\ SameTurn(o)
      BY <2>3, <3>2 DEF SameTurn, s
    <3> QED
      BY <3>1, <3>3, <3>4 DEF s
<1>7. ASSUME Ask(c)
      PROVE  /\ Step(c, o) /\ SameTurn(o) /\ req'[c].at \in {"reading", "idle"}
             /\ req'[c].at = "reading" => req'[c].obj = o
             /\ named' \in named..MaxTools /\ sess'[o].uses = (named + 1)..named'
  <2>1. /\ req[c].at = "model" /\ named' \in named..MaxTools
        /\ sess' = [sess EXCEPT ![o].tail = "tools", ![o].uses = (named + 1)..named']
        /\ \/ req' = [req EXCEPT ![c] = [req[c] EXCEPT !.at = "reading"]]
           \/ req' = [req EXCEPT ![c] = Idle]
    BY <1>7 DEF Ask
  <2>2. sess' = [sess EXCEPT ![o] = [s EXCEPT !.tail = "tools", !.uses = (named + 1)..named']]
    BY <2>1 DEF s
  <2>3. LET z == [s EXCEPT !.tail = "tools", !.uses = (named + 1)..named']
        IN  /\ z.uses = (named + 1)..named' /\ z.pending = s.pending
            /\ z.decisions = s.decisions
    BY <1>0, <2>1 DEF Conversation
  <2>4. Step(c, o) /\ SameTurn(o) /\ sess'[o].uses = (named + 1)..named'
    <3>1. Step(c, o)
      BY <1>0, <1>1, <1>2, <2>1, <2>2, Zenon DEF Step
    <3>2. sess'[o] = [s EXCEPT !.tail = "tools", !.uses = (named + 1)..named']
      BY <1>1, <2>1, <2>2
    <3>3. /\ sess'[o].uses = (named + 1)..named' /\ sess'[o].pending = s.pending
          /\ sess'[o].decisions = s.decisions
      BY <2>3, <3>2, Zenon
    <3> QED
      BY <3>1, <3>3 DEF SameTurn, s
  <2>5. req'[c].at \in {"reading", "idle"} /\ (req'[c].at = "reading" => req'[c].obj = o)
    <3>1. req'[c] = [req[c] EXCEPT !.at = "reading"] \/ req'[c] = Idle
      BY <1>2, <2>1
    <3> QED
      BY <1>3, <3>1
  <2> QED
    BY <2>1, <2>4, <2>5
<1>8. ASSUME ReadingDone(c)
      PROVE  /\ Step(c, o) /\ req'[c].at \in {"model", "idle"} /\ sess'[o].uses = sess[o].uses
             /\ \/ SameTurn(o)
                \/ /\ sess'[o].pending
                   /\ \A t \in Tool : sess'[o].decisions[t] =
                        IF t \in sess[o].uses THEN "undecided" ELSE "none"
  <2> DEFINE f == [t \in Tool |-> IF t \in s.uses THEN "undecided" ELSE "none"]
  <2>1. /\ req[c].at = "reading"
        /\ \/ req' = [req EXCEPT ![c] = [req[c] EXCEPT !.at = "model"]]
           \/ req' = [req EXCEPT ![c] = Idle]
    BY <1>8 DEF ReadingDone
  <2>2. \/ sess' = [sess EXCEPT ![o].pending = TRUE, ![o].results = {}, ![o].decisions = f]
        \/ s.uses = {} /\ sess' = [sess EXCEPT ![o] = Appended(s, TRUE)]
    BY <1>8 DEF ReadingDone, s
  <2>3. \A t \in Tool : f[t] = IF t \in s.uses THEN "undecided" ELSE "none"
    OBVIOUS
  <2> HIDE DEF f
  <2>4. \/ sess' = [sess EXCEPT ![o] = [s EXCEPT !.pending = TRUE, !.results = {}, !.decisions = f]]
        \/ s.uses = {} /\ sess' = [sess EXCEPT ![o] = Appended(s, TRUE)]
    BY <2>2 DEF s
  <2>5. LET z == [s EXCEPT !.pending = TRUE, !.results = {}, !.decisions = f]
        IN  z.uses = s.uses /\ z.pending /\ z.decisions = f
    BY <1>0, <2>1 DEF Conversation
  <2>6. Step(c, o)
    BY <1>0, <1>1, <1>2, <2>1, <2>4 DEF Step
  <2>7. req'[c].at \in {"model", "idle"}
    BY <1>2, <1>3, <2>1
  <2>8. sess'[o].uses = s.uses /\ (SameTurn(o) \/ (sess'[o].pending /\ sess'[o].decisions = f))
    <3>1. \/ sess'[o] = [s EXCEPT !.pending = TRUE, !.results = {}, !.decisions = f]
          \/ s.uses = {} /\ sess'[o] = Appended(s, TRUE)
      BY <1>1, <2>1, <2>4
    <3>2. CASE sess'[o] = [s EXCEPT !.pending = TRUE, !.results = {}, !.decisions = f]
      BY <2>5, <3>2
    <3>3. CASE s.uses = {} /\ sess'[o] = Appended(s, TRUE)
      <4>1. /\ sess'[o].uses = {} /\ sess'[o].pending = s.pending
            /\ sess'[o].decisions = s.decisions
        BY <1>0, <1>4, <2>1, <3>3
      <4>2. SameTurn(o)
        BY <4>1 DEF SameTurn, s
      <4> QED
        BY <3>3, <4>1, <4>2, Zenon
    <3> QED
      BY <3>1, <3>2, <3>3
  <2> QED
    BY <2>3, <2>6, <2>7, <2>8 DEF s
<1> QED
  BY <1>5, <1>6, <1>7, <1>8

\* What decide() changes with the lock, until a tool returns.
LEMMA DecideFields ==
  ASSUME ChatTypeOK, HasObject, NameInv, NEW c \in Client, NEW o, o = req[c].obj
  PROVE  /\ DecideStart(c) =>
              /\ Step(c, o) /\ ~ Locked(o) /\ sess'[o].uses = sess[o].uses
              /\ sess'[o].results = sess[o].results /\ sess'[o].pending = sess[o].pending
              /\ \/ SameTurn(o) /\ req'[c].at = "idle"
                 \/ /\ sess[o].pending
                    /\ sess[o].decisions[req[c].tool] \in {"none", "undecided"}
                    /\ sess'[o].decisions[req[c].tool] \in {"yes", "no"}
                    /\ \A t \in Tool \ {req[c].tool} :
                          sess'[o].decisions[t] = sess[o].decisions[t]
                    /\ \/ req'[c].at = "idle"
                       \/ /\ req'[c].at = "apply" /\ req'[c].obj = o
                          /\ req'[c].todo = sess[o].uses
                          /\ \A t \in Tool : sess'[o].decisions[t] # "undecided"
         /\ Apply(c) =>
              /\ Step(c, o) /\ UNCHANGED sess /\ req'[c].obj = o
              /\ \E t \in req[c].todo : First(req[c].todo, t) /\
                   \/ /\ ran' = [ran EXCEPT ![t] = @ + 1]
                      /\ req'[c].at = "run" /\ req'[c].todo = req[c].todo
                   \/ /\ ran' = ran
                      /\ req'[c].at = "apply" /\ req'[c].todo = req[c].todo \ {t}
         /\ Applied(c) =>
              /\ Step(c, o) /\ ~ sess'[o].pending /\ sess'[o].uses = {}
              /\ req'[c].at = "model" /\ \A t \in Tool : sess'[o].decisions[t] = "none"
<1> DEFINE s == sess[o]
<1>0. req[c] \in Request /\ (req[c].at # "idle" => o \in Session /\ s \in Conversation)
  BY DEF HasObject, ChatTypeOK
<1>1. req[c].at # "idle" => \A z : sess' = [sess EXCEPT ![o] = z] =>
         sess'[o] = z /\ \A p \in Session \ {o} : sess'[p] = sess[p]
  BY <1>0 DEF ChatTypeOK
<1>2. \A r : req' = [req EXCEPT ![c] = r] =>
         req'[c] = r /\ \A d \in Client \ {c} : req'[d] = req[d]
  BY DEF ChatTypeOK
<1>3. /\ Idle.at = "idle"
      /\ \A T : LET r == [Idle EXCEPT !.at = "apply", !.obj = o, !.todo = T]
                IN  r.at = "apply" /\ r.obj = o /\ r.todo = T
      /\ \A at : LET r == [req[c] EXCEPT !.at = at]
                 IN  r.at = at /\ r.obj = o /\ r.todo = req[c].todo
      /\ \A T : LET r == [req[c] EXCEPT !.todo = T]
                IN  r.at = req[c].at /\ r.obj = o /\ r.todo = T
      /\ \A T : LET r == [req[c] EXCEPT !.at = "apply", !.todo = T]
                IN  r.at = "apply" /\ r.obj = o /\ r.todo = T
  BY <1>0 DEF Idle, Request
<1> HIDE DEF s
<1>5. ASSUME DecideStart(c)
      PROVE  /\ Step(c, o) /\ ~ Locked(o) /\ sess'[o].uses = s.uses
             /\ sess'[o].results = s.results /\ sess'[o].pending = s.pending
             /\ \/ SameTurn(o) /\ req'[c].at = "idle"
                \/ /\ s.pending
                   /\ s.decisions[req[c].tool] \in {"none", "undecided"}
                   /\ sess'[o].decisions[req[c].tool] \in {"yes", "no"}
                   /\ \A t \in Tool \ {req[c].tool} :
                         sess'[o].decisions[t] = s.decisions[t]
                   /\ \/ req'[c].at = "idle"
                      \/ /\ req'[c].at = "apply" /\ req'[c].obj = o
                         /\ req'[c].todo = s.uses
                         /\ \A t \in Tool : sess'[o].decisions[t] # "undecided"
  <2> DEFINE t == req[c].tool
             z == [s EXCEPT !.decisions[t] = IF req[c].approve THEN "yes" ELSE "no"]
  <2>0. req[c].at = "decideWait" /\ o \in Session /\ ~ Locked(o) /\ s \in Conversation
    BY <1>0, <1>5 DEF DecideStart, Turn
  <2>1. CASE UNCHANGED sess /\ req' = [req EXCEPT ![c] = Idle]
    <3>1. req'[c].at = "idle" /\ \A d \in Client \ {c} : req'[d] = req[d]
      BY <1>2, <1>3, <2>1
    <3>2. SameTurn(o) /\ Step(c, o)
      BY <2>0, <2>1, <3>1 DEF SameTurn, Step
    <3>3. sess'[o] = s
      BY <2>1 DEF s
    <3> QED
      BY <2>0, <3>1, <3>2, <3>3, Zenon
  <2>2. CASE /\ s.pending /\ s.decisions[t] \in {"none", "undecided"}
             /\ sess' = [sess EXCEPT ![o] = z]
             /\ req' = [req EXCEPT ![c] =
                           IF Undecided(z) # {} THEN Idle
                           ELSE [Idle EXCEPT !.at = "apply", !.obj = o, !.todo = z.uses]]
    <3>1. sess'[o] = z /\ Step(c, o)
      BY <1>1, <1>2, <2>0, <2>2, Zenon DEF Step
    <3>2. /\ z.uses = s.uses /\ z.results = s.results /\ z.pending = s.pending
          /\ z.decisions = [s.decisions EXCEPT ![t] = IF req[c].approve THEN "yes" ELSE "no"]
      BY <2>0 DEF Conversation
    <3> HIDE DEF z
    <3>3. t \in Tool
      BY <2>0 DEF NameInv
    <3>4. /\ z.decisions[t] \in {"yes", "no"}
          /\ \A u \in Tool \ {t} : z.decisions[u] = s.decisions[u]
      BY <2>0, <3>2, <3>3 DEF Conversation
    <3>5. \/ req'[c] = Idle
          \/ /\ Undecided(z) = {}
             /\ req'[c] = [Idle EXCEPT !.at = "apply", !.obj = o, !.todo = z.uses]
      BY <1>2, <2>2
    <3>6. \/ req'[c].at = "idle"
          \/ /\ req'[c].at = "apply" /\ req'[c].obj = o /\ req'[c].todo = s.uses
             /\ \A u \in Tool : z.decisions[u] # "undecided"
      <4>1. CASE req'[c] = Idle
        BY <1>3, <4>1
      <4>2. CASE /\ Undecided(z) = {}
                 /\ req'[c] = [Idle EXCEPT !.at = "apply", !.obj = o, !.todo = z.uses]
        <5>1. req'[c].at = "apply" /\ req'[c].obj = o /\ req'[c].todo = z.uses
          BY <4>2 DEF Idle
        <5>2. \A u \in Tool : z.decisions[u] # "undecided"
          BY <4>2 DEF Undecided
        <5> QED
          BY <3>2, <5>1, <5>2
      <4> QED
        BY <3>5, <4>1, <4>2
    <3> QED
      <4>1. /\ sess'[o].uses = s.uses /\ sess'[o].results = s.results
            /\ sess'[o].pending = s.pending /\ sess'[o].decisions[t] \in {"yes", "no"}
            /\ \A u \in Tool \ {t} : sess'[o].decisions[u] = s.decisions[u]
        BY <3>1, <3>2, <3>4, Zenon
      <4>2. \/ req'[c].at = "idle"
            \/ /\ req'[c].at = "apply" /\ req'[c].obj = o /\ req'[c].todo = s.uses
               /\ \A u \in Tool : sess'[o].decisions[u] # "undecided"
        BY <3>1, <3>6, Zenon
      <4> QED
        BY <2>0, <2>2, <3>1, <4>1, <4>2, Zenon
  <2> QED
    BY <1>5, <2>1, <2>2 DEF DecideStart, Decidable, s
<1>6. ASSUME Apply(c)
      PROVE  /\ Step(c, o) /\ UNCHANGED sess /\ req'[c].obj = o
             /\ \E t \in req[c].todo : First(req[c].todo, t) /\
                  \/ /\ ran' = [ran EXCEPT ![t] = @ + 1]
                     /\ req'[c].at = "run" /\ req'[c].todo = req[c].todo
                  \/ /\ ran' = ran
                     /\ req'[c].at = "apply" /\ req'[c].todo = req[c].todo \ {t}
  <2>0. req[c].at = "apply" /\ o \in Session /\ UNCHANGED sess
    BY <1>0, <1>6 DEF Apply
  <2>1. PICK t \in req[c].todo :
          /\ First(req[c].todo, t)
          /\ \/ /\ ran' = [ran EXCEPT ![t] = @ + 1]
                /\ req' = [req EXCEPT ![c] = [req[c] EXCEPT !.at = "run"]]
             \/ /\ ran' = ran
                /\ req' = [req EXCEPT ![c] = [req[c] EXCEPT !.todo = req[c].todo \ {t}]]
    BY <1>6 DEF Apply
  <2>2. \A d \in Client \ {c} : req'[d] = req[d]
    BY <1>2, <2>1
  <2>3. \/ /\ ran' = [ran EXCEPT ![t] = @ + 1]
           /\ req'[c] = [req[c] EXCEPT !.at = "run"]
        \/ /\ ran' = ran
           /\ req'[c] = [req[c] EXCEPT !.todo = req[c].todo \ {t}]
    BY <1>2, <2>1
  <2>4. Step(c, o)
    BY <2>0, <2>2 DEF Step
  <2>5. CASE ran' = [ran EXCEPT ![t] = @ + 1] /\ req'[c] = [req[c] EXCEPT !.at = "run"]
    <3>1. req'[c].at = "run" /\ req'[c].obj = o /\ req'[c].todo = req[c].todo
      BY <1>3, <2>5
    <3> QED
      BY <2>0, <2>1, <2>4, <2>5, <3>1, Zenon
  <2>6. CASE ran' = ran /\ req'[c] = [req[c] EXCEPT !.todo = req[c].todo \ {t}]
    <3>1. req'[c].at = "apply" /\ req'[c].obj = o /\ req'[c].todo = req[c].todo \ {t}
      BY <1>3, <2>0, <2>6
    <3> QED
      BY <2>0, <2>1, <2>4, <2>6, <3>1, Zenon
  <2> QED
    BY <2>3, <2>5, <2>6
<1>8. ASSUME Applied(c)
      PROVE  /\ Step(c, o) /\ ~ sess'[o].pending /\ sess'[o].uses = {}
             /\ req'[c].at = "model" /\ \A t \in Tool : sess'[o].decisions[t] = "none"
  <2>1. /\ req[c].at = "apply" /\ o \in Session /\ s \in Conversation
        /\ sess' = [sess EXCEPT ![o] = Appended(Closed(s), TRUE)]
        /\ req' = [req EXCEPT ![c] = [req[c] EXCEPT !.at = "model"]]
    BY <1>0, <1>8 DEF Applied, s
  <2>2. Step(c, o)
    BY <1>1, <1>2, <2>1, Zenon DEF Step
  <2>3. sess'[o] = Appended(Closed(s), TRUE) /\ req'[c] = [req[c] EXCEPT !.at = "model"]
    BY <1>1, <1>2, <2>1
  <2>4. /\ ~ sess'[o].pending /\ sess'[o].uses = {}
        /\ \A t \in Tool : sess'[o].decisions[t] = "none"
    <3>1. LET z == Appended(Closed(s), TRUE)
          IN  ~ z.pending /\ z.uses = {} /\ \A t \in Tool : z.decisions[t] = "none"
      BY <2>1 DEF Appended, Closed, Conversation
    <3> QED
      BY <2>3, <3>1
  <2>5. req'[c].at = "model"
    BY <1>3, <2>3
  <2> QED
    BY <2>2, <2>4, <2>5
<1> QED
  BY <1>5, <1>6, <1>8 DEF s

\* What the return of a tool changes.
LEMMA RunEndsFields ==
  ASSUME ChatTypeOK, HasObject, NEW c \in Client, RunEnds(c), NEW o, o = req[c].obj
  PROVE  \E t \in req[c].todo :
           /\ First(req[c].todo, t)
           /\ Step(c, o) /\ SameTurn(o) /\ sess'[o].uses = sess[o].uses
           /\ req'[c].at = "apply" /\ req'[c].obj = o /\ req'[c].todo = req[c].todo \ {t}
           /\ sess'[o].results = sess[o].results \cup {t}
<1>0. req[c] \in Request /\ o \in Session /\ sess[o] \in Conversation /\ req[c].at = "run"
  BY DEF RunEnds, HasObject, ChatTypeOK
<1>1. PICK t \in req[c].todo :
        /\ First(req[c].todo, t)
        /\ sess' = [sess EXCEPT ![o] = [sess[o] EXCEPT !.results = sess[o].results \cup {t}]]
        /\ req' = [req EXCEPT ![c] = [req[c] EXCEPT !.at = "apply", !.todo = req[c].todo \ {t}]]
  BY DEF RunEnds
<1>2. /\ sess'[o] = [sess[o] EXCEPT !.results = sess[o].results \cup {t}]
      /\ \A p \in Session \ {o} : sess'[p] = sess[p]
  BY <1>0, <1>1 DEF ChatTypeOK
<1>3. /\ req'[c] = [req[c] EXCEPT !.at = "apply", !.todo = req[c].todo \ {t}]
      /\ \A d \in Client \ {c} : req'[d] = req[d]
  BY <1>1 DEF ChatTypeOK
<1>4. /\ sess'[o].uses = sess[o].uses /\ sess'[o].results = sess[o].results \cup {t}
      /\ SameTurn(o)
  BY <1>0, <1>2 DEF SameTurn, Conversation
<1>5. req'[c].at = "apply" /\ req'[c].obj = o /\ req'[c].todo = req[c].todo \ {t}
  BY <1>0, <1>3 DEF Request
<1>6. Step(c, o)
  BY <1>0, <1>2, <1>3 DEF Step
<1> QED
  BY <1>1, <1>4, <1>5, <1>6

\* Tool uses keep their one turn, and what was told stays out of it.
LEMMA NameStep ==
  ASSUME ChatTypeOK, HasObject, LockInv, TailInv, NameInv, RunInv, NEW c \in Client, ChatStep(c)
  PROVE  NameInv'
<1> DEFINE o == req[c].obj
           s == sess[o]
<1> USE DEF NameInv, Tool
<1>0. /\ named \in Int /\ MaxTools \in Int
      /\ \A p \in Session : sess[p].uses \in SUBSET Tool
      /\ req[c].at # "idle" => o \in Session
      /\ \A d \in Client : req[d].at # "idle" => req[d].obj \in Session
      /\ req[c].at = "model" => ~ s.pending
  BY ChatAssumption DEF ChatTypeOK, Conversation, HasObject, TailInv, Fits
\* A step that names nothing new, tells only of uses it ends, and moves on.
<1>a. ASSUME Step(c, o), UNCHANGED named, req'[c].at # "decideWait",
             sess'[o].uses \in {s.uses, {}},
             \A t \in told' \ told : t \in s.uses /\ t \notin sess'[o].uses,
             \A t \in told' \ told : t \in Tool,
             \A t \in Tool : ran'[t] # ran[t] => t \in s.uses,
             \A t \in Tool : sess'[o].decisions[t] # "none" => t <= named,
             sess'[o].pending => s.uses = sess'[o].uses,
             \A t \in Tool : sess'[o].pending =>
                /\ sess'[o].decisions[t] = "undecided" => t \in s.uses
                /\ t \in s.uses => sess'[o].decisions[t] # "none"
      PROVE  NameInv'
  <2>1. \A p \in Session : sess'[p].uses \subseteq sess[p].uses
    BY <1>a DEF Step
  <2>2. \A p, q \in Session : sess'[p].uses \cap sess'[q].uses # {} => p = q
    BY <2>1
  <2>3. \A t \in Tool : t > named' => ran'[t] = 0 /\ t \notin told'
    BY <1>0, <1>a DEF Step
  <2>4. \A d \in Client : req'[d].at = "decideWait" =>
           req'[d].tool \in Tool /\ req'[d].tool <= named'
    BY <1>a DEF Step
  <2>5. ASSUME NEW p \in Session, NEW t \in Tool
        PROVE  /\ t \in sess'[p].uses => t <= named' /\ t \notin told'
               /\ sess'[p].decisions[t] # "none" => t <= named'
               /\ sess'[p].pending =>
                    /\ sess'[p].decisions[t] = "undecided" => t \in sess'[p].uses
                    /\ t \in sess'[p].uses => sess'[p].decisions[t] # "none"
    <3>1. CASE p = o
      BY <1>a, <2>1, <3>1 DEF Step
    <3>2. CASE p # o
      <4>1. sess'[p] = sess[p]
        BY <1>a, <3>2 DEF Step
      <4>2. t \in sess[p].uses => t \notin s.uses
        BY <1>a, <3>2 DEF Step
      <4> QED
        BY <1>a, <4>1, <4>2
    <3> QED
      BY <3>1, <3>2
  <2> QED
    BY <2>2, <2>3, <2>4, <2>5
<1>1. CASE Send(c) \/ (\E t \in Tool : Decide(c, t)) \/ Disconnect(c)
  <2>1. /\ UNCHANGED <<sess, named, told, ran>> /\ \A d \in Client \ {c} : req'[d] = req[d]
    BY <1>1, OutsideFields DEF Send, Decide, Disconnect
  <2>2. req'[c].at = "decideWait" => req'[c].tool \in Tool /\ req'[c].tool <= named
    <3>1. ASSUME NEW t \in Tool, Decide(c, t) PROVE req'[c].tool = t /\ t <= named
      <4>1. current \in Session /\ sess[current].decisions[t] # "none"
        BY <3>1 DEF Decide, ChatTypeOK
      <4> QED
        BY <3>1, <4>1, OutsideFields
    <3> QED
      BY <1>1, <3>1, OutsideFields
  <2> QED
    BY <2>1, <2>2
<1> HIDE DEF s
<1>2. CASE SendStart(c)
  <2>1. o \in Session /\ UNCHANGED <<named, ran>>
    BY <1>0, <1>2 DEF SendStart
  <2>2. /\ Step(c, o) /\ ~ sess'[o].pending /\ req'[c].at # "decideWait"
        /\ sess'[o].uses \in {s.uses, {}}
        /\ \A t \in told' \ told : t \in s.uses /\ t \notin sess'[o].uses
    <3>1. Step(c, o) /\ ~ sess'[o].pending /\ req'[c].at # "decideWait"
      BY <1>2, SendStartFields
    <3>2. \/ sess'[o].uses = s.uses /\ told' = told
          \/ sess'[o].uses = {} /\ \A t \in told' \ told : t \in s.uses
      BY <1>2, SendStartFields DEF s
    <3> QED
      BY <3>1, <3>2
  <2>3. \A t \in Tool : sess'[o].decisions[t] # "none" => t <= named
    BY <1>2, <2>1, SendStartFields
  <2> QED
    BY <1>0, <1>a, <2>1, <2>2, <2>3 DEF s
<1>3. CASE SendMoves(c)
  <2>1. o \in Session /\ UNCHANGED <<named, ran>> /\ told' = told \cup req[c].todo /\ ~ s.pending
    BY <1>0, <1>3 DEF SendMoves, TailInv, Fits, s
  <2>2. req[c].todo \subseteq s.uses
    BY <1>3 DEF SendMoves, RunInv, LeftToDo, s
  <2>3. /\ Step(c, o) /\ SameTurn(o) /\ req'[c].at # "decideWait" /\ sess'[o].uses = {}
    BY <1>3, LoopFields
  <2>4. \A t \in told' \ told : t \in s.uses /\ t \in Tool
    BY <1>0, <2>1, <2>2 DEF s
  <2> QED
    <3>1. ~ sess'[o].pending /\ \A t \in Tool : sess'[o].decisions[t] # "none" => t <= named
      BY <2>1, <2>3 DEF s, SameTurn
    <3> QED
      BY <1>0, <1>a, <2>1, <2>3, <2>4, <3>1
<1>4. CASE Answer(c)
  <2>1. o \in Session /\ UNCHANGED <<named, ran, told>>
    BY <1>0, <1>4 DEF Answer
  <2> QED
    BY <1>0, <1>4, <1>a, <2>1, LoopFields DEF s, SameTurn
<1>5. CASE Ask(c)
  <2>1. o \in Session /\ UNCHANGED <<ran, told>> /\ ~ s.pending
    BY <1>0, <1>5 DEF Ask, s
  <2>2. /\ Step(c, o) /\ SameTurn(o) /\ req'[c].at # "decideWait"
        /\ named' \in named..MaxTools /\ sess'[o].uses = (named + 1)..named'
    BY <1>5, LoopFields
  <2>3. \A p \in Session \ {o}, t \in Tool : t \in sess'[p].uses => t <= named
    BY <2>2 DEF Step
  <2>4. \A p, q \in Session : sess'[p].uses \cap sess'[q].uses # {} => p = q
    BY <1>0, <2>2, <2>3 DEF Step
  <2>5. \A d \in Client : req'[d].at = "decideWait" =>
           req'[d].tool \in Tool /\ req'[d].tool <= named'
    BY <1>0, <2>2 DEF Step
  <2>6. \A p \in Session, t \in Tool :
          /\ t \in sess'[p].uses => t <= named' /\ t \notin told'
          /\ sess'[p].decisions[t] # "none" => t <= named'
          /\ sess'[p].pending =>
               /\ sess'[p].decisions[t] = "undecided" => t \in sess'[p].uses
               /\ t \in sess'[p].uses => sess'[p].decisions[t] # "none"
    BY <1>0, <2>1, <2>2 DEF Step, SameTurn, s
  <2>7. \A t \in Tool : t > named' => ran'[t] = 0 /\ t \notin told'
    BY <1>0, <2>1, <2>2
  <2> QED
    BY <2>4, <2>5, <2>6, <2>7
<1>6. CASE ReadingDone(c)
  <2>1. o \in Session /\ UNCHANGED <<named, ran, told>>
    BY <1>0, <1>6 DEF ReadingDone
  <2> QED
    BY <1>0, <1>6, <1>a, <2>1, LoopFields DEF s, SameTurn
<1>7. CASE DecideStart(c)
  <2>1. o \in Session /\ UNCHANGED <<named, ran, told>> /\ req[c].at = "decideWait"
    BY <1>0, <1>7 DEF DecideStart
  <2>2. req[c].tool \in Tool /\ req[c].tool <= named
    BY <2>1
  <2> QED
    BY <1>0, <1>7, <1>a, <2>1, <2>2, DecideFields DEF s, SameTurn
<1>8. CASE Apply(c)
  <2>1. o \in Session /\ UNCHANGED <<named, told>> /\ req[c].todo \subseteq s.uses
    BY <1>0, <1>8 DEF Apply, RunInv, LeftToDo, s
  <2>2. \A t \in Tool : ran'[t] # ran[t] => t \in s.uses
    <3>1. PICK u \in req[c].todo : ran' = ran \/ ran' = [ran EXCEPT ![u] = ran[u] + 1]
      BY <1>8, DecideFields
    <3>2. u \in s.uses
      BY <2>1
    <3>3. \A t \in Tool \ {u} : ran'[t] = ran[t]
      <4>1. ran \in [Tool -> Nat]
        BY DEF ChatTypeOK
      <4>2. CASE ran' = [ran EXCEPT ![u] = ran[u] + 1]
        BY <4>1, <4>2
      <4> QED
        BY <3>1, <4>2
    <3> QED
      BY <3>2, <3>3
  <2> QED
    BY <1>0, <1>8, <1>a, <2>1, <2>2, DecideFields DEF s
<1>9. CASE RunEnds(c)
  <2>1. o \in Session /\ UNCHANGED <<named, ran, told>>
    BY <1>0, <1>9 DEF RunEnds
  <2> QED
    BY <1>0, <1>9, <1>a, <2>1, RunEndsFields DEF s, SameTurn
<1>10. CASE Applied(c)
  <2>1. o \in Session /\ UNCHANGED <<named, ran>> /\ told' = told \cup (s.uses \ s.results)
    BY <1>0, <1>10 DEF Applied, s
  <2>2. /\ Step(c, o) /\ ~ sess'[o].pending /\ req'[c].at # "decideWait" /\ sess'[o].uses = {}
        /\ \A t \in Tool : sess'[o].decisions[t] = "none"
    BY <1>10, DecideFields
  <2>3. \A t \in told' \ told : t \in s.uses /\ t \in Tool
    BY <1>0, <2>1 DEF s
  <2> QED
    BY <1>0, <1>a, <2>1, <2>2, <2>3
<1> QED
  BY <1>1, <1>2, <1>3, <1>4, <1>5, <1>6, <1>7, <1>8, <1>9, <1>10 DEF ChatStep

\* A click of an earlier turn stays ahead of every click on the pending one.
LEMMA QueueStep ==
  ASSUME ChatTypeOK, HasObject, LockInv, TailInv, NameInv, QueueInv,
         NEW e \in Client, ChatStep(e)
  PROVE  QueueInv'
<1> DEFINE o == req[e].obj
           Listed == \A d \in Client \ {e} : ahead[d] \ {e} \subseteq ahead'[d]
<1>0. /\ req[e].at # "idle" => o \in Session
      /\ \A c \in Client : req[c].at # "idle" => req[c].obj \in Session
      /\ ahead \in [Client -> SUBSET Client]
      /\ req[e].at \in {"model", "reading"} => ~ sess[o].pending
  BY DEF ChatTypeOK, HasObject, TailInv, Fits
\* Another request keeps what it knows of a session of which the turn is the same.
<1>a. ASSUME NEW p \in Session, Step(e, p), Listed, NEW c \in Client \ {e},
             \/ req[c].obj # p
             \/ /\ sess'[p].uses = sess[p].uses /\ SameTurn(p)
                /\ req'[e].at # "decideWait"
             \/ /\ ~ sess'[p].pending
                /\ Locked(p) => req[e].at \in Inside /\ req[e].obj = p,
             req'[e].at = "decideWait" => req'[e].obj = p
      PROVE  /\ req'[c].at = "reading" => Unclicked(c)'
             /\ Foreign(c)' => Early(c)'
  <2>1. req'[c] = req[c] /\ (req[c].at # "idle" => req[c].obj \in Session)
    BY <1>0, <1>a DEF Step
  <2>2. CASE req[c].obj # p
    <3>1. req[c].obj \in Session => sess'[req[c].obj] = sess[req[c].obj]
      BY <1>a, <2>2 DEF Step
    <3>2. \A d \in Client : req'[d].at = "decideWait" /\ req'[d].obj = req[c].obj =>
             d # e /\ req'[d] = req[d]
      BY <1>a, <2>2 DEF Step
    <3> QED
      BY <1>a, <2>1, <3>1, <3>2 DEF QueueInv, Foreign, Early, Unclicked
  <2>3. CASE req[c].obj = p /\ sess'[p].uses = sess[p].uses /\ SameTurn(p)
             /\ req'[e].at # "decideWait"
    <3>1. \A d \in Client : req'[d].at = "decideWait" => d # e /\ req'[d] = req[d]
      BY <1>a, <2>3 DEF Step
    <3> QED
      BY <1>a, <2>1, <2>3, <3>1 DEF QueueInv, Foreign, Early, Unclicked, SameTurn
  <2>4. CASE /\ req[c].obj = p /\ ~ sess'[p].pending
             /\ Locked(p) => req[e].at \in Inside /\ req[e].obj = p
    <3>1. ~ Foreign(c)'
      BY <2>1, <2>4 DEF Foreign
    <3>2. req[c].at # "reading"
      BY <1>a, <2>4 DEF LockInv, Locked, Inside
    <3> QED
      BY <2>1, <3>1, <3>2
  <2> QED
    BY <1>a, <2>2, <2>3, <2>4
\* So a step is harmless if it ends in neither stage.
<1>b. ASSUME NEW p \in Session, Step(e, p), Listed, req'[e].at \notin {"decideWait", "reading"},
             \/ sess'[p].uses = sess[p].uses /\ SameTurn(p)
             \/ /\ ~ sess'[p].pending
                /\ Locked(p) => req[e].at \in Inside /\ req[e].obj = p
      PROVE  QueueInv'
  <2>1. ASSUME NEW c \in Client
        PROVE  /\ req'[c].at = "reading" => Unclicked(c)'
               /\ Foreign(c)' => Early(c)'
    <3>1. CASE c = e
      BY <1>b, <3>1 DEF Foreign
    <3>2. CASE c # e
      BY <1>a, <1>b, <3>2
    <3> QED
      BY <3>1, <3>2
  <2> QED
    BY <2>1 DEF QueueInv
<1>c. UNCHANGED ahead => Listed
  OBVIOUS
<1>d. Leave(e) => Listed
  BY <1>0 DEF Leave
<1>e. \A p : Queue(e, p) => Listed /\ ahead'[e] = Waiting(p)
  BY <1>0 DEF Queue
<1>1. CASE Send(e)
  <2>1. current' \in Session /\ UNCHANGED sess
    BY <1>1, ChatAssumption DEF Send, ChatTypeOK, Session, NoSession
  <2>2. Step(e, current') /\ req'[e].at = "sendWait"
    BY <1>1, <2>1, OutsideFields DEF Step
  <2>3. sess'[current'].uses = sess[current'].uses /\ SameTurn(current')
    BY <2>1 DEF SameTurn
  <2>4. Listed
    BY <1>1, <1>e DEF Send
  <2> HIDE DEF Listed
  <2> QED
    BY <1>b, <2>1, <2>2, <2>3, <2>4
<1>2. ASSUME NEW t \in Tool, Decide(e, t) PROVE QueueInv'
  <2>1. /\ current \in Session /\ UNCHANGED sess /\ sess[current].pending
        /\ sess[current].decisions[t] # "none" /\ Queue(e, current)
    BY <1>2 DEF Decide, ChatTypeOK
  <2>2. /\ Step(e, current) /\ req'[e].at = "decideWait" /\ req'[e].obj = current
        /\ req'[e].tool = t
    BY <1>2, <2>1, OutsideFields DEF Step
  <2>3. Listed /\ ahead'[e] = Waiting(current)
    BY <1>e, <2>1
  <2>4. ~ Foreign(e)' /\ req'[e].at # "reading"
    BY <2>1, <2>2 DEF Foreign
  <2>5. ASSUME NEW c \in Client \ {e}, req[c].obj = current
        PROVE  req[c].at # "reading" /\ (Foreign(c)' => Early(c)')
    <3>1. req[c].at # "reading"
      BY <2>1, <2>5 DEF TailInv, Fits
    <3>2. req'[c] = req[c]
      BY <2>2 DEF Step
    <3>3. Foreign(c)' => Foreign(c) /\ c \in Waiting(current)
      BY <2>1, <2>5, <3>2 DEF Foreign, Waiting
    <3>4. Foreign(c)' => Early(c)'
      BY <2>1, <2>2, <2>3, <2>5, <3>2, <3>3 DEF QueueInv, Early, Step
    <3> QED
      BY <3>1, <3>4
  <2> HIDE DEF Listed
  <2>6. ASSUME NEW c \in Client \ {e}
        PROVE  (req'[c].at = "reading" => Unclicked(c)') /\ (Foreign(c)' => Early(c)')
    <3>1. req'[c] = req[c]
      BY <2>2 DEF Step
    <3> QED
      BY <1>a, <2>1, <2>2, <2>3, <2>5, <3>1
  <2> QED
    BY <2>4, <2>6 DEF QueueInv
<1>3. CASE Disconnect(e)
  <2>1. o \in Session /\ UNCHANGED sess /\ Leave(e)
    BY <1>0, <1>3 DEF Disconnect
  <2>2. Step(e, o) /\ req'[e].at = "idle"
    BY <1>3, <2>1, OutsideFields DEF Step
  <2>3. sess'[o].uses = sess[o].uses /\ SameTurn(o)
    BY <2>1 DEF SameTurn
  <2> HIDE DEF Listed, o
  <2> QED
    BY <1>b, <1>d, <2>1, <2>2, <2>3
<1>4. CASE SendStart(e)
  <2>1. o \in Session /\ Leave(e)
    BY <1>0, <1>4 DEF SendStart, Turn
  <2>2. /\ Step(e, o) /\ ~ Locked(o) /\ ~ sess'[o].pending
        /\ req'[e].at \notin {"decideWait", "reading"}
    BY <1>4, SendStartFields
  <2> HIDE DEF Listed, o
  <2> QED
    BY <1>b, <1>d, <2>1, <2>2
<1>5. CASE SendMoves(e) \/ Answer(e)
  <2>1. o \in Session /\ UNCHANGED ahead /\ req[e].at \in Inside /\ ~ sess[o].pending
    BY <1>0, <1>5 DEF SendMoves, Answer, Inside, TailInv, Fits
  <2>2. Step(e, o) /\ SameTurn(o) /\ req'[e].at \notin {"decideWait", "reading"}
    BY <1>5, LoopFields
  <2>3. ~ sess'[o].pending
    BY <2>1, <2>2 DEF SameTurn
  <2> HIDE DEF Listed
  <2> QED
    BY <1>b, <1>c, <2>1, <2>2, <2>3
<1>6. CASE Ask(e)
  <2>1. o \in Session /\ UNCHANGED ahead /\ req[e].at \in Inside /\ ~ sess[o].pending
    BY <1>0, <1>6 DEF Ask, Inside
  <2>2. /\ Step(e, o) /\ SameTurn(o) /\ req'[e].at # "decideWait"
        /\ req'[e].at = "reading" => req'[e].obj = o
        /\ sess'[o].uses = (named + 1)..named'
    BY <1>6, LoopFields
  <2>3. ~ sess'[o].pending
    BY <2>1, <2>2 DEF SameTurn
  <2>4. req'[e].at = "reading" => Unclicked(e)'
    <3>1. \A d \in Client : req'[d].at = "decideWait" =>
             req'[d].tool \in Tool /\ req'[d].tool <= named
      BY <2>2 DEF Step, NameInv
    <3>2. named \in Int
      BY ChatAssumption DEF ChatTypeOK
    <3>3. \A t \in (named + 1)..named' : ~ (t <= named)
      BY <2>2, <3>2
    <3> QED
      BY <2>2, <3>1, <3>3 DEF Unclicked
  <2>5. ~ Foreign(e)'
    BY <2>2 DEF Foreign
  <2>6. Listed
    BY <1>c, <2>1
  <2> HIDE DEF Listed, o
  <2>7. \A c \in Client \ {e} :
          (req'[c].at = "reading" => Unclicked(c)') /\ (Foreign(c)' => Early(c)')
    BY <1>a, <2>1, <2>2, <2>3, <2>6 DEF o
  <2> QED
    BY <2>4, <2>5, <2>7 DEF QueueInv
<1>7. CASE ReadingDone(e)
  <2>1. o \in Session /\ UNCHANGED ahead /\ req[e].at = "reading" /\ ~ sess[o].pending
    BY <1>0, <1>7 DEF ReadingDone
  <2>2. /\ Step(e, o) /\ req'[e].at \in {"model", "idle"} /\ sess'[o].uses = sess[o].uses
        /\ \/ SameTurn(o)
           \/ /\ sess'[o].pending
              /\ \A t \in Tool : sess'[o].decisions[t] =
                    IF t \in sess[o].uses THEN "undecided" ELSE "none"
    BY <1>7, LoopFields
  <2>3. Listed
    BY <1>c, <2>1
  <2> HIDE DEF Listed, o
  <2>4. CASE SameTurn(o)
    BY <1>b, <2>1, <2>2, <2>3, <2>4
  <2>5. CASE \A t \in Tool : sess'[o].decisions[t] =
               IF t \in sess[o].uses THEN "undecided" ELSE "none"
    <3>1. ASSUME NEW c \in Client \ {e}, req[c].obj = o
          PROVE  (req'[c].at = "reading" => Unclicked(c)') /\ (Foreign(c)' => Early(c)')
      <4>1. req'[c] = req[c] /\ req[c].at # "reading"
        BY <2>1, <2>2, <3>1 DEF Step, LockInv, Inside, o
      <4>2. \A d \in Client : req'[d].at = "decideWait" /\ req'[d].obj = o =>
               req'[d].tool \notin sess'[o].uses
        BY <2>1, <2>2 DEF Step, QueueInv, Unclicked, o
      <4>3. sess[o].uses \in SUBSET Tool
        BY <2>1 DEF ChatTypeOK, Conversation
      <4>4. \A t \in sess'[o].uses : sess'[o].decisions[t] = "undecided"
        BY <2>2, <2>5, <4>3
      <4> QED
        BY <3>1, <4>1, <4>2, <4>4 DEF Early
    <3>2. \A c \in Client \ {e} :
            (req'[c].at = "reading" => Unclicked(c)') /\ (Foreign(c)' => Early(c)')
      BY <1>a, <2>1, <2>2, <2>3, <3>1
    <3>3. req'[e].at # "reading" /\ ~ Foreign(e)'
      BY <2>2 DEF Foreign
    <3> QED
      BY <3>2, <3>3 DEF QueueInv
  <2> QED
    BY <2>2, <2>4, <2>5
<1>8. CASE DecideStart(e)
  <2>1. /\ o \in Session /\ Leave(e) /\ req[e].at = "decideWait" /\ ahead[e] = {}
        /\ req[e].tool \in Tool
    BY <1>0, <1>8 DEF DecideStart, Turn, NameInv
  <2>2. /\ Step(e, o) /\ ~ Locked(o) /\ sess'[o].uses = sess[o].uses
        /\ sess'[o].pending = sess[o].pending /\ req'[e].at \in {"idle", "apply"}
        /\ \/ SameTurn(o)
           \/ /\ sess[o].pending
              /\ sess[o].decisions[req[e].tool] \in {"none", "undecided"}
              /\ sess'[o].decisions[req[e].tool] \in {"yes", "no"}
              /\ \A t \in Tool \ {req[e].tool} : sess'[o].decisions[t] = sess[o].decisions[t]
    BY <1>8, DecideFields
  <2>3. Listed
    BY <1>d, <2>1
  <2>a. o = req[e].obj
    OBVIOUS
  <2> HIDE DEF Listed, o
  <2>4. CASE SameTurn(o)
    BY <1>b, <2>1, <2>2, <2>3, <2>4
  <2>5. CASE /\ sess[o].pending
             /\ sess[o].decisions[req[e].tool] \in {"none", "undecided"}
             /\ sess'[o].decisions[req[e].tool] \in {"yes", "no"}
             /\ \A t \in Tool \ {req[e].tool} : sess'[o].decisions[t] = sess[o].decisions[t]
    <3>1. ASSUME NEW c \in Client \ {e}, req[c].obj = o
          PROVE  (req'[c].at = "reading" => Unclicked(c)') /\ (Foreign(c)' => Early(c)')
      <4>1. req'[c] = req[c] /\ req[c].at # "reading"
        BY <2>2, <3>1 DEF Step, Locked, Inside
      <4>2. SUFFICES ASSUME Foreign(c)' PROVE Early(c)'
        BY <4>1
      <4>3. req[c].at = "decideWait" /\ req[c].tool \in Tool
        BY <4>1, <4>2 DEF Foreign, NameInv
      <4>4. Foreign(c)
        BY <2>5, <3>1, <4>1, <4>2, <4>3 DEF Foreign
      <4>5. req[e].tool \notin sess[o].uses
        BY <2>1, <2>a, <3>1, <4>4 DEF QueueInv, Early
      <4>6. \A t \in sess'[o].uses : sess'[o].decisions[t] = "undecided"
        <5>1. sess[o].uses \in SUBSET Tool
          BY <2>1 DEF ChatTypeOK, Conversation
        <5> QED
          BY <2>2, <2>5, <3>1, <4>4, <4>5, <5>1 DEF QueueInv, Early
      <4>7. \A d \in Client : req'[d].at = "decideWait" => d # e /\ req'[d] = req[d]
        BY <2>2 DEF Step
      <4> QED
        BY <2>2, <2>3, <3>1, <4>1, <4>4, <4>6, <4>7 DEF QueueInv, Early, Listed
    <3>2. \A c \in Client \ {e} :
            (req'[c].at = "reading" => Unclicked(c)') /\ (Foreign(c)' => Early(c)')
      BY <1>a, <2>1, <2>2, <2>3, <3>1
    <3>3. req'[e].at # "reading" /\ ~ Foreign(e)'
      BY <2>2 DEF Foreign
    <3> QED
      BY <3>2, <3>3 DEF QueueInv
  <2> QED
    BY <2>2, <2>4, <2>5
<1>9. CASE Apply(e) \/ RunEnds(e)
  <2>1. o \in Session /\ UNCHANGED ahead
    BY <1>0, <1>9 DEF Apply, RunEnds
  <2>2. /\ Step(e, o) /\ SameTurn(o) /\ sess'[o].uses = sess[o].uses
        /\ req'[e].at \in {"apply", "run"}
    BY <1>9, DecideFields, RunEndsFields DEF SameTurn
  <2> HIDE DEF Listed, o
  <2> QED
    BY <1>b, <1>c, <2>1, <2>2
<1>10. CASE Applied(e)
  <2>1. o \in Session /\ UNCHANGED ahead /\ req[e].at \in Inside
    BY <1>0, <1>10 DEF Applied, Inside
  <2>2. Step(e, o) /\ ~ sess'[o].pending /\ req'[e].at = "model"
    BY <1>10, DecideFields
  <2> HIDE DEF Listed
  <2> QED
    BY <1>b, <1>c, <2>1, <2>2
<1> QED
  BY <1>1, <1>2, <1>3, <1>4, <1>5, <1>6, <1>7, <1>8, <1>9, <1>10 DEF ChatStep

\* What was run, what is left to do and what was told stay in step.
LEMMA RunStep ==
  ASSUME ChatTypeOK, HasObject, LockInv, TailInv, NameInv, QueueInv, RunInv,
         NEW e \in Client, ChatStep(e)
  PROVE  RunInv'
<1> DEFINE Owing == {"moving", "apply", "run"}
<1>o. PICK o : o = req[e].obj
  OBVIOUS
<1> USE <1>o
<1>0. /\ req[e].at # "idle" => o \in Session
      /\ \A c \in Client : req[c].at # "idle" => req[c].obj \in Session
      /\ ran \in [Tool -> Nat]
      /\ \A p \in Session : sess[p].uses \in SUBSET Tool
      /\ req[e].at \in {"moving", "model", "reading"} => ~ sess[o].pending
      /\ req[e].at \in {"apply", "run"} => sess[o].pending /\ Undecided(sess[o]) = {}
  BY DEF ChatTypeOK, Conversation, HasObject, TailInv, Fits
\* A step that runs nothing leaves the other sessions and requests accounted for.
<1>a. ASSUME NEW p \in Session, Step(e, p), UNCHANGED ran, cut \subseteq cut',
             req[e].at = "run" => req[e].obj = p,
             \/ sess'[p].uses = sess[p].uses
             \/ req[e].at \in Inside /\ req[e].obj = p
             \/ ~ Locked(p),
             \A t \in sess'[p].uses : Accounted(p, t)',
             req'[e].at \in Owing => LeftToDo(e)',
             \A t \in (told' \ cut') \ told : ran[t] = 0
      PROVE  RunInv'
  <2>1. ASSUME NEW q \in Session, NEW t \in sess'[q].uses PROVE Accounted(q, t)'
    <3>1. CASE q = p
      BY <1>a, <2>1, <3>1
    <3>2. CASE q # p
      <4>1. sess'[q] = sess[q] /\ Accounted(q, t)
        BY <1>a, <2>1, <3>2 DEF Step, RunInv
      <4>2. \A c \in Client : req[c].at = "run" /\ req[c].obj = q => req'[c] = req[c]
        BY <1>a, <3>2 DEF Step
      <4> QED
        BY <1>a, <4>1, <4>2 DEF Accounted, Undecided
    <3> QED
      BY <3>1, <3>2
  <2>2. ASSUME NEW c \in Client, req'[c].at \in Owing PROVE LeftToDo(c)'
    <3>1. CASE c = e
      BY <1>a, <2>2, <3>1
    <3>2. CASE c # e
      <4>1. req'[c] = req[c] /\ req[c].obj \in Session /\ LeftToDo(c)
        BY <1>0, <1>a, <2>2, <3>2 DEF Step, RunInv
      <4>2. sess'[req[c].obj].uses = sess[req[c].obj].uses
        BY <1>a, <2>2, <3>2, <4>1 DEF Step, LockInv, Locked, Inside
      <4> QED
        BY <1>a, <4>1, <4>2 DEF LeftToDo
    <3> QED
      BY <3>1, <3>2
  <2>3. ConfirmedRunsOnce' /\ NothingChangedIsTrue'
    BY <1>a DEF RunInv, ConfirmedRunsOnce, NothingChangedIsTrue
  <2> QED
    BY <2>1, <2>2, <2>3 DEF RunInv
\* A turn on which nobody works any more is as it was.
<1>b. ASSUME NEW p \in Session, Step(e, p), UNCHANGED <<sess, ran>>, cut \subseteq cut',
             \A t \in Tool : req[e].at = "run" /\ First(req[e].todo, t) => t \in cut'
      PROVE  \A t \in sess'[p].uses : Accounted(p, t)'
  <2> SUFFICES ASSUME NEW t \in sess[p].uses PROVE Accounted(p, t)'
    BY <1>b
  <2>1. Accounted(p, t) /\ t \in Tool
    BY <1>0 DEF RunInv
  <2>2. \A c \in Client \ {e} : req'[c] = req[c]
    BY <1>b DEF Step
  <2>3. ~ sess'[p].pending \/ Undecided(sess[p])' # {} => ran'[t] = 0
    BY <1>b, <2>1 DEF Accounted, Undecided
  <2>4. ASSUME ran[t] > 0, t \notin sess[p].results, t \notin cut'
        PROVE  \E c \in Client : req'[c].at = "run" /\ req'[c].obj = p /\ First(req'[c].todo, t)
    <3>1. PICK c \in Client : req[c].at = "run" /\ req[c].obj = p /\ First(req[c].todo, t)
      BY <1>b, <2>1, <2>4 DEF Accounted
    <3>2. c # e
      BY <1>b, <2>1, <2>4, <3>1
    <3> QED
      BY <2>2, <3>1, <3>2
  <2> QED
    BY <1>b, <2>3, <2>4 DEF Accounted
<1>1. CASE Send(e) \/ (\E t \in Tool : Decide(e, t))
  <2>1. PICK p : p \in Session
    <3>1. CASE Send(e)
      BY <3>1, ChatAssumption DEF Send, ChatTypeOK, Session, NoSession
    <3>2. CASE \E t \in Tool : Decide(e, t)
      BY <3>2 DEF Decide, ChatTypeOK
    <3> QED
      BY <1>1, <3>1, <3>2
  <2>2. /\ UNCHANGED <<sess, ran, told, cut>> /\ req[e].at = "idle"
        /\ req'[e].at \in {"sendWait", "decideWait"} /\ Step(e, p)
    BY <1>1, <2>1, OutsideFields DEF Send, Decide, Step
  <2>3. \A t \in sess'[p].uses : Accounted(p, t)'
    BY <1>b, <2>1, <2>2
  <2> QED
    BY <1>a, <2>1, <2>2, <2>3
<1>2. CASE Disconnect(e)
  <2>1. /\ o \in Session /\ UNCHANGED <<sess, ran, told>> /\ cut \subseteq cut'
        /\ \A t \in Tool : req[e].at = "run" /\ First(req[e].todo, t) => t \in cut'
    BY <1>0, <1>2 DEF Disconnect, First
  <2>2. Step(e, o) /\ req'[e].at = "idle"
    BY <1>2, <2>1, OutsideFields DEF Step
  <2>3. \A t \in sess'[o].uses : Accounted(o, t)'
    BY <1>b, <2>1, <2>2
  <2> QED
    BY <1>a, <2>1, <2>2, <2>3
<1>3. CASE SendStart(e)
  <2>1. o \in Session /\ UNCHANGED <<ran, cut>> /\ req[e].at = "sendWait"
    BY <1>0, <1>3 DEF SendStart
  <2>2. /\ Step(e, o) /\ ~ Locked(o) /\ ~ sess'[o].pending
        /\ \/ /\ sess[o].pending /\ Undecided(sess[o]) # {}
              /\ req'[e].at = "moving" /\ req'[e].obj = o
              /\ req'[e].todo \subseteq sess[o].uses
              /\ sess'[o].uses = sess[o].uses /\ told' = told
           \/ /\ req'[e].at = "model" /\ sess'[o].uses = {}
              /\ \A t \in told' \ told : /\ t \in sess[o].uses
                                         /\ sess[o].pending => t \notin sess[o].results
    BY <1>3, SendStartFields
  <2>3. CASE /\ Undecided(sess[o]) # {}
             /\ req'[e].at = "moving" /\ req'[e].obj = o
             /\ req'[e].todo \subseteq sess[o].uses
             /\ sess'[o].uses = sess[o].uses /\ told' = told
    <3>1. \A t \in sess[o].uses : ran[t] = 0
      BY <2>1, <2>3 DEF RunInv, Accounted
    <3>2. \A t \in sess'[o].uses : Accounted(o, t)'
      BY <2>1, <2>3, <3>1 DEF Accounted
    <3>3. LeftToDo(e)'
      BY <2>1, <2>3, <3>1 DEF LeftToDo
    <3> QED
      BY <1>a, <2>1, <2>2, <2>3, <3>2, <3>3
  <2>4. CASE /\ req'[e].at = "model" /\ sess'[o].uses = {}
             /\ \A t \in told' \ told : /\ t \in sess[o].uses
                                        /\ sess[o].pending => t \notin sess[o].results
    <3>1. ASSUME NEW t \in told' \ told, t \notin cut' PROVE ran[t] = 0
      <4>1. Accounted(o, t) /\ t \in Tool
        BY <1>0, <2>1, <2>4, <3>1 DEF RunInv
      <4>2. ~ ran[t] > 0
        BY <2>1, <2>2, <2>4, <3>1, <4>1 DEF Accounted, Locked, Inside
      <4> QED
        BY <1>0, <4>1, <4>2
    <3> QED
      BY <1>a, <2>1, <2>2, <2>4, <3>1
  <2> QED
    BY <2>2, <2>3, <2>4
<1>4. CASE SendMoves(e)
  <2>1. /\ o \in Session /\ UNCHANGED <<ran, cut>> /\ req[e].at = "moving"
        /\ told' = told \cup req[e].todo
    BY <1>0, <1>4 DEF SendMoves
  <2>2. Step(e, o) /\ req'[e].at = "model" /\ sess'[o].uses = {}
    BY <1>4, LoopFields
  <2>3. \A t \in told' \ told : ran[t] = 0
    BY <2>1 DEF RunInv, LeftToDo
  <2> QED
    BY <1>a, <2>1, <2>2, <2>3 DEF Inside
<1>5. CASE Answer(e) \/ ReadingDone(e)
  <2>1. /\ o \in Session /\ UNCHANGED <<ran, cut, told>>
        /\ req[e].at \in {"model", "reading"} /\ ~ sess[o].pending
    BY <1>0, <1>5 DEF Answer, ReadingDone
  <2>2. Step(e, o) /\ req'[e].at \in {"model", "idle"} /\ sess'[o].uses = sess[o].uses
    BY <1>5, LoopFields
  <2>3. \A t \in sess'[o].uses : ran'[t] = 0
    BY <2>1, <2>2 DEF RunInv, Accounted
  <2>4. \A t \in sess'[o].uses : Accounted(o, t)'
    BY <2>3 DEF Accounted
  <2> QED
    BY <1>a, <2>1, <2>2, <2>4
<1>6. CASE Ask(e)
  <2>1. o \in Session /\ UNCHANGED <<ran, cut, told>> /\ req[e].at = "model"
    BY <1>0, <1>6 DEF Ask
  <2>2. /\ Step(e, o) /\ req'[e].at \in {"reading", "idle"} /\ named' \in named..MaxTools
        /\ sess'[o].uses = (named + 1)..named'
    BY <1>6, LoopFields
  <2>3. \A t \in sess'[o].uses : ran'[t] = 0
    <3>1. named \in Nat /\ MaxTools \in Nat
      BY ChatAssumption DEF ChatTypeOK
    <3>2. \A t \in (named + 1)..named' : t \in Tool /\ t > named
      BY <2>2, <3>1 DEF Tool
    <3> QED
      BY <2>1, <2>2, <3>2 DEF NameInv
  <2>4. \A t \in sess'[o].uses : Accounted(o, t)'
    BY <2>3 DEF Accounted
  <2> QED
    BY <1>a, <2>1, <2>2, <2>4 DEF Inside
<1>7. CASE DecideStart(e)
  <2>1. o \in Session /\ UNCHANGED <<ran, cut, told>> /\ req[e].at = "decideWait"
    BY <1>0, <1>7 DEF DecideStart
  <2>2. /\ Step(e, o) /\ ~ Locked(o) /\ sess'[o].uses = sess[o].uses
        /\ sess'[o].results = sess[o].results /\ sess'[o].pending = sess[o].pending
        /\ \/ SameTurn(o) /\ req'[e].at = "idle"
           \/ /\ sess[o].pending
              /\ sess[o].decisions[req[e].tool] \in {"none", "undecided"}
              /\ \/ req'[e].at = "idle"
                 \/ /\ req'[e].at = "apply" /\ req'[e].obj = o
                    /\ req'[e].todo = sess[o].uses
    BY <1>7, DecideFields
  <2>3. CASE SameTurn(o) /\ req'[e].at = "idle"
    <3>1. ASSUME NEW t \in sess'[o].uses PROVE Accounted(o, t)'
      <4>1. Accounted(o, t)
        BY <2>1, <2>2, <3>1 DEF RunInv
      <4>2. \A c \in Client : ~ (req[c].at = "run" /\ req[c].obj = o)
        BY <2>2 DEF Locked, Inside
      <4> QED
        BY <2>1, <2>2, <2>3, <4>1, <4>2 DEF Accounted, SameTurn, Undecided
    <3> QED
      BY <1>a, <2>1, <2>2, <2>3, <3>1
  <2>4. CASE /\ sess[o].pending
             /\ sess[o].decisions[req[e].tool] \in {"none", "undecided"}
             /\ \/ req'[e].at = "idle"
                \/ /\ req'[e].at = "apply" /\ req'[e].obj = o
                   /\ req'[e].todo = sess[o].uses
    <3>1. ASSUME NEW t \in sess[o].uses PROVE ran[t] = 0
      <4>1. Undecided(sess[o]) # {}
        <5>1. CASE sess[o].decisions[req[e].tool] = "undecided"
          BY <2>1, <5>1 DEF Undecided, NameInv
        <5>2. CASE sess[o].decisions[req[e].tool] = "none"
          <6>1. Foreign(e)
            BY <2>1, <2>4, <5>2 DEF Foreign
          <6>2. sess[o].decisions[t] = "undecided" /\ t \in Tool
            BY <1>0, <2>1, <3>1, <6>1 DEF QueueInv, Early
          <6> QED
            BY <6>2 DEF Undecided
        <5> QED
          BY <2>4, <5>1, <5>2
      <4> QED
        BY <2>1, <3>1, <4>1 DEF RunInv, Accounted
    <3>2. \A t \in sess'[o].uses : Accounted(o, t)'
      BY <2>1, <2>2, <3>1 DEF Accounted
    <3>3. req'[e].at \in Owing => LeftToDo(e)'
      BY <2>1, <2>2, <2>4, <3>1 DEF LeftToDo
    <3> QED
      BY <1>a, <2>1, <2>2, <3>2, <3>3
  <2> QED
    BY <2>2, <2>3, <2>4
\* The holder of the lock is the one who runs anything of the turn.
<1>8. ASSUME req[e].at \in {"apply", "run"}
      PROVE  /\ \A c \in Client : req[c].at = "run" /\ req[c].obj = o => c = e
             /\ sess[o].pending /\ Undecided(sess[o]) = {} /\ o \in Session /\ LeftToDo(e)
  BY <1>0, <1>8 DEF LockInv, Inside, RunInv
<1>9. CASE Apply(e)
  <2>1. /\ UNCHANGED <<cut, told, sess>> /\ req[e].at = "apply" /\ Step(e, o) /\ req'[e].obj = o
    BY <1>9, DecideFields DEF Apply
  <2>2. PICK t \in req[e].todo : First(req[e].todo, t) /\
           \/ /\ ran' = [ran EXCEPT ![t] = @ + 1]
              /\ req'[e].at = "run" /\ req'[e].todo = req[e].todo
           \/ /\ ran' = ran
              /\ req'[e].at = "apply" /\ req'[e].todo = req[e].todo \ {t}
    BY <1>9, DecideFields
  <2>3. /\ o \in Session /\ req[e].todo \subseteq sess[o].uses
        /\ \A u \in req[e].todo : ran[u] = 0
    BY <1>8, <2>1 DEF LeftToDo
  <2>4. \A u \in sess[o].uses : ran[u] > 0 => u \in sess[o].results \/ u \in cut
    BY <1>8, <2>1, <2>3 DEF RunInv, Accounted
  <2>5. ~ (~ sess'[o].pending \/ Undecided(sess[o])' # {})
    BY <1>8, <2>1 DEF Undecided
  <2>6. CASE ran' = ran /\ req'[e].at = "apply" /\ req'[e].todo = req[e].todo \ {t}
    <3>1. \A u \in sess'[o].uses : Accounted(o, u)'
      BY <2>1, <2>4, <2>5, <2>6 DEF Accounted
    <3>2. LeftToDo(e)'
      BY <2>1, <2>3, <2>6 DEF LeftToDo
    <3> QED
      BY <1>a, <2>1, <2>3, <2>6, <3>1, <3>2
  <2>7. CASE /\ ran' = [ran EXCEPT ![t] = @ + 1]
             /\ req'[e].at = "run" /\ req'[e].todo = req[e].todo
    <3>1. /\ t \in Tool /\ t \in sess[o].uses /\ ran[t] = 0 /\ ran'[t] = 1
          /\ \A u \in Tool \ {t} : ran'[u] = ran[u]
      BY <1>0, <2>3, <2>7
    <3>2. \A q \in Session \ {o} : t \notin sess[q].uses
      BY <2>3, <3>1 DEF NameInv
    <3>3. ASSUME NEW q \in Session, NEW u \in sess'[q].uses PROVE Accounted(q, u)'
      <4>0. u \in Tool /\ u \in sess[q].uses /\ Accounted(q, u)
        BY <1>0, <2>1, <3>3 DEF RunInv
      <4>1. CASE q # o
        <5>1. ran'[u] = ran[u]
          BY <3>1, <3>2, <4>0, <4>1
        <5>2. \A c \in Client : req[c].at = "run" /\ req[c].obj = q => req'[c] = req[c]
          BY <2>1, <4>1 DEF Step
        <5> QED
          BY <2>1, <4>0, <5>1, <5>2 DEF Accounted, Undecided
      <4>2. CASE q = o /\ u # t
        <5>1. ran'[u] = ran[u]
          BY <3>1, <4>0, <4>2
        <5> QED
          BY <2>1, <2>4, <2>5, <4>0, <4>2, <5>1 DEF Accounted
      <4>3. CASE q = o /\ u = t
        BY <2>1, <2>2, <2>5, <2>7, <4>3 DEF Accounted
      <4> QED
        BY <4>1, <4>2, <4>3
    <3>4. ASSUME NEW c \in Client, req'[c].at \in Owing PROVE LeftToDo(c)'
      <4>1. CASE c = e
        <5>1. \A u \in req[e].todo : u \in Tool /\ (ran'[u] = 0 \/ u = t)
          BY <1>0, <2>3, <3>1
        <5> QED
          BY <2>1, <2>2, <2>3, <2>7, <4>1, <5>1 DEF LeftToDo
      <4>2. CASE c # e
        <5>1. req'[c] = req[c] /\ LeftToDo(c) /\ req[c].obj \in Session
          BY <1>0, <2>1, <3>4, <4>2 DEF Step, RunInv
        <5>2. req[c].obj # o
          BY <2>1, <3>4, <4>2, <5>1 DEF LockInv, Inside
        <5>3. \A u \in req[c].todo : ran'[u] = ran[u]
          BY <1>0, <3>1, <3>2, <5>1, <5>2 DEF LeftToDo
        <5> QED
          BY <2>1, <5>1, <5>3 DEF LeftToDo
      <4> QED
        BY <4>1, <4>2
    <3>5. ConfirmedRunsOnce'
      BY <3>1 DEF RunInv, ConfirmedRunsOnce
    <3>6. NothingChangedIsTrue'
      <4>1. t \notin told /\ told \in SUBSET Tool
        BY <2>3, <3>1 DEF NameInv, ChatTypeOK
      <4> QED
        BY <2>1, <3>1, <4>1 DEF RunInv, NothingChangedIsTrue
    <3> QED
      BY <3>3, <3>4, <3>5, <3>6 DEF RunInv
  <2> QED
    BY <2>2, <2>6, <2>7
<1>10. CASE RunEnds(e)
  <2>1. UNCHANGED <<ran, cut, told>> /\ req[e].at = "run"
    BY <1>10 DEF RunEnds
  <2>2. PICK t \in req[e].todo :
           /\ First(req[e].todo, t)
           /\ Step(e, o) /\ SameTurn(o) /\ sess'[o].uses = sess[o].uses
           /\ req'[e].at = "apply" /\ req'[e].obj = o /\ req'[e].todo = req[e].todo \ {t}
           /\ sess'[o].results = sess[o].results \cup {t}
    BY <1>10, RunEndsFields
  <2>4. o \in Session /\ LeftToDo(e) /\ req[e].todo \in SUBSET Tool
    BY <1>0, <1>8, <2>1 DEF LeftToDo
  <2>5. \A u \in Tool : First(req[e].todo, u) => u = t
    BY <2>2, <2>4 DEF First, Tool
  <2>6. ~ (~ sess'[o].pending \/ Undecided(sess[o])' # {})
    BY <1>8, <2>1, <2>2 DEF Undecided, SameTurn
  <2>7. ASSUME NEW u \in sess'[o].uses PROVE Accounted(o, u)'
    <3>1. u \in Tool /\ Accounted(o, u)
      BY <1>0, <2>2, <2>4, <2>7 DEF RunInv
    <3>2. ran[u] > 0 => u \in sess[o].results \/ u \in cut \/ u = t
      BY <1>8, <2>1, <2>5, <3>1 DEF Accounted
    <3> QED
      BY <2>1, <2>2, <2>6, <3>2 DEF Accounted
  <2>8. LeftToDo(e)'
    BY <2>1, <2>2, <2>4, <2>5 DEF LeftToDo
  <2> QED
    BY <1>a, <2>1, <2>2, <2>4, <2>7, <2>8
<1>11. CASE Applied(e)
  <2>1. /\ UNCHANGED <<ran, cut>> /\ req[e].at = "apply"
        /\ told' = told \cup (sess[o].uses \ sess[o].results)
    BY <1>11 DEF Applied
  <2>2. Step(e, o) /\ sess'[o].uses = {} /\ req'[e].at = "model"
    BY <1>11, DecideFields
  <2>3. ASSUME NEW t \in (told' \ cut') \ told PROVE ran[t] = 0
    <3>1. t \in Tool /\ Accounted(o, t) /\ t \notin sess[o].results /\ t \notin cut
      BY <1>0, <1>8, <2>1, <2>3 DEF RunInv
    <3>2. ~ ran[t] > 0
      BY <1>8, <2>1, <3>1 DEF Accounted
    <3> QED
      BY <1>0, <3>1, <3>2
  <2> QED
    BY <1>8, <1>a, <2>1, <2>2, <2>3 DEF Inside
<1> QED
  BY <1>1, <1>2, <1>3, <1>4, <1>5, <1>6, <1>7, <1>9, <1>10, <1>11 DEF ChatStep

\* Locks, histories, names, runs and queues stay in step (send(), decide(), _loop()).
LEMMA ChatInvariant == ChatSpec => [](ChatTypeOK /\ HasObject /\ ChatInv)
<1> DEFINE Inv == ChatTypeOK /\ HasObject /\ ChatInv
<1>1. ChatInit => Inv
  <2> SUFFICES ASSUME ChatInit PROVE ChatInv
    BY TypeInit
  <2>1. /\ \A p \in Session : /\ sess[p].uses = {} /\ ~ sess[p].pending
                              /\ \A t \in Tool : sess[p].decisions[t] = "none"
        /\ \A c \in Client : req[c].at = "idle"
        /\ \A t \in Tool : ran[t] = 0
        /\ told = {}
    BY DEF ChatInit, Session0, Idle
  <2>2. LockInv /\ TailInv
    BY DEF ChatInit, LockInv, TailInv, Sound, Fits, Session0, Idle, Inside
  <2>3. NameInv /\ QueueInv
    BY <2>1 DEF NameInv, QueueInv, Foreign
  <2>4. RunInv
    BY <2>1 DEF RunInv, ConfirmedRunsOnce, NothingChangedIsTrue
  <2> QED
    BY <2>2, <2>3, <2>4 DEF ChatInv
<1>2. Inv /\ [ChatNext]_chatVars => Inv'
  <2> SUFFICES ASSUME Inv, [ChatNext]_chatVars PROVE ChatInv'
    BY TypeStep
  <2>1. CASE UNCHANGED <<ahead, sess, req, named, ran, told, cut>>
    BY <2>1 DEF ChatInv, LockInv, TailInv, NameInv, RunInv, QueueInv, Accounted, LeftToDo,
                Foreign, Early, Unclicked, ConfirmedRunsOnce, NothingChangedIsTrue
  <2>2. ASSUME NEW c \in Client, ChatStep(c) PROVE ChatInv'
    BY <2>2, TailStep, NameStep, RunStep, QueueStep DEF ChatInv
  <2> QED
    BY <2>1, <2>2 DEF ChatNext, Drop, chatVars
<1> QED
  BY <1>1, <1>2, PTL DEF ChatSpec

\* A confirmed action is carried out at most once, for any number of tabs,
\* sessions and tool uses (decide()).
THEOREM ActionsRunOnce == ChatSpec => []ConfirmedRunsOnce
<1>1. ChatInv => ConfirmedRunsOnce
  BY DEF ChatInv, RunInv
<1> QED
  BY <1>1, ChatInvariant, PTL

\* When the model is told that an action changed nothing, that is so, unless
\* the tab was closed while it ran (_close_pending(), _repair()).
THEOREM AbandonedChangedNothing == ChatSpec => []NothingChangedIsTrue
<1>1. ChatInv => NothingChangedIsTrue
  BY DEF ChatInv, RunInv
<1> QED
  BY <1>1, ChatInvariant, PTL

-----------------------------------------------------------------------------
(* Chat implements DecisionTable.                                            *)

\* Whoever reads for, runs or has decided a tool use does so for its one turn.
InTurn(o, t) ==
    /\ t \in Tool /\ t <= named /\ ran[t] \in Nat
    /\ \A p \in Session : t \in sess[p].uses => p = o
    /\ \A a : Answered(t, a) <=> sess[o].pending /\ sess[o].decisions[t] = a
    /\ Reading(t) <=> \E c \in Client : req[c].at = "reading" /\ req[c].obj = o
    /\ Carrying(t) <=> \E c \in Client : /\ req[c].at = "run" /\ req[c].obj = o
                                         /\ First(req[c].todo, t)

Turns ==
    /\ \A o \in Session : \A t \in sess[o].uses : InTurn(o, t)
    /\ \A t \in Tool : (\A o \in Session : t \notin sess[o].uses) =>
          ~ Reading(t) /\ ~ Carrying(t) /\ \A a : ~ Answered(t, a)

\* The invariants give every tool use its one turn.
LEMMA TurnsHold == ChatTypeOK /\ HasObject /\ ChatInv => Turns
<1> SUFFICES ASSUME ChatTypeOK, HasObject, ChatInv PROVE Turns
  OBVIOUS
<1>1. ASSUME NEW o \in Session, NEW t \in sess[o].uses PROVE InTurn(o, t)
  <2>1. t \in Tool /\ t <= named /\ ran[t] \in Nat
    BY <1>1 DEF ChatTypeOK, Conversation, ChatInv, NameInv
  <2>2. \A p \in Session : t \in sess[p].uses => p = o
    BY <1>1 DEF ChatInv, NameInv
  <2>3. \A a : Answered(t, a) <=> sess[o].pending /\ sess[o].decisions[t] = a
    BY <1>1, <2>2 DEF Answered
  <2>4. Reading(t) <=> \E c \in Client : req[c].at = "reading" /\ req[c].obj = o
    BY <1>1, <2>2 DEF Reading, HasObject
  <2>5. \A c \in Client : req[c].at = "run" /\ First(req[c].todo, t) => req[c].obj = o
    BY <2>2 DEF ChatInv, RunInv, LeftToDo, First, HasObject
  <2> QED
    BY <2>1, <2>2, <2>3, <2>4, <2>5, Zenon DEF InTurn, Carrying
<1>2. ASSUME NEW t \in Tool, \A o \in Session : t \notin sess[o].uses
      PROVE  ~ Reading(t) /\ ~ Carrying(t) /\ \A a : ~ Answered(t, a)
  <2>1. ~ Reading(t) /\ \A a : ~ Answered(t, a)
    BY <1>2 DEF Reading, Answered, HasObject
  <2>2. ~ Carrying(t)
    BY <1>2 DEF Carrying, ChatInv, RunInv, LeftToDo, First, HasObject
  <2> QED
    BY <2>1, <2>2
<1> QED
  BY <1>1, <1>2 DEF Turns

\* A step of the table, or none.
TableStep == [Table!DNext]_[t \in Tool |-> StageOf(t)]

\* Tool uses that move together are a step Move of the table.
LEMMA UsesMove ==
  ASSUME NEW R, NEW S, NEW x,
         \A t \in Tool : StageOf(t)' = IF t \in R /\ StageOf(t) \in S THEN x ELSE StageOf(t)
  PROVE  Table!Move(R, S, x)
BY DEF Table!Move

\* Tool uses that stay are no step of the table.
LEMMA UsesStay ==
  ASSUME \A t \in Tool : StageOf(t)' = StageOf(t)
  PROVE  TableStep
BY DEF TableStep

\* A step under the lock of session o leaves the tool uses of other turns alone.
LEMMA OthersStay ==
  ASSUME HasObject, Turns, Turns', NEW e \in Client, NEW o \in Session, Step(e, o),
         req[e].at \in {"reading", "run"} => req[e].obj = o,
         req'[e].at \in {"reading", "run"} => req'[e].obj = o,
         NEW t \in Tool, t \notin sess[o].uses, t \notin sess'[o].uses,
         ran'[t] = ran[t], t \in cut' <=> t \in cut, t > named' <=> t > named
  PROVE  StageOf(t)' = StageOf(t)
<1>1. CASE \A p \in Session : t \notin sess[p].uses
  <2>1. \A p \in Session : t \notin sess'[p].uses
    BY <1>1 DEF Step
  <2>2. ~ Reading(t) /\ ~ Carrying(t) /\ \A a : ~ Answered(t, a)
    BY <1>1 DEF Turns
  <2>3. ~ Reading(t)' /\ ~ Carrying(t)' /\ ~ Answered(t, "yes")' /\ ~ Answered(t, "undecided")'
    BY <2>1 DEF Turns
  <2> QED
    BY <2>2, <2>3 DEF StageOf
<1>2. ASSUME NEW p \in Session, t \in sess[p].uses PROVE StageOf(t)' = StageOf(t)
  <2>1. p # o /\ sess'[p] = sess[p]
    BY <1>2 DEF Step
  <2>2. InTurn(p, t) /\ InTurn(p, t)'
    BY <1>2, <2>1 DEF Turns
  <2>3. \A c \in Client : \A at \in {"reading", "run"} :
          /\ (req'[c].at = at /\ req'[c].obj = p) <=> (req[c].at = at /\ req[c].obj = p)
          /\ req[c].at = at /\ req[c].obj = p => req'[c].todo = req[c].todo
    BY <2>1 DEF Step
  <2>4. Reading(t)' <=> Reading(t)
    BY <2>2, <2>3 DEF InTurn
  <2>5. Carrying(t)' <=> Carrying(t)
    BY <2>2, <2>3 DEF InTurn, First
  <2>6. \A a \in {"yes", "undecided"} : Answered(t, a)' <=> Answered(t, a)
    BY <2>1, <2>2 DEF InTurn
  <2> QED
    BY <2>4, <2>5, <2>6 DEF StageOf
<1> QED
  BY <1>1, <1>2

\* A step of a tab that neither reads nor runs anything and writes nothing.
LEMMA QuietStep ==
  ASSUME NEW e \in Client, UNCHANGED <<sess, named, ran, cut>>,
         \A d \in Client \ {e} : req'[d] = req[d],
         req[e].at \notin {"reading", "run"}, req'[e].at \notin {"reading", "run"}
  PROVE  TableStep
<1>1. ASSUME NEW t \in Tool PROVE StageOf(t)' = StageOf(t)
  <2>1. \A a \in {"yes", "undecided"} : Answered(t, a)' <=> Answered(t, a)
    BY DEF Answered
  <2>2. Reading(t)' <=> Reading(t)
    BY DEF Reading
  <2>3. Carrying(t)' <=> Carrying(t)
    BY DEF Carrying, First
  <2> QED
    BY <2>1, <2>2, <2>3 DEF StageOf
<1> QED
  BY <1>1, UsesStay

\* A step that leaves the turn of session o neither pending nor read for turns
\* down what was not started (send(), Applied, a tab that is closed).
LEMMA TurnedDown ==
  ASSUME ChatTypeOK, HasObject, Turns, Turns', NEW e \in Client, NEW o \in Session, Step(e, o),
         UNCHANGED <<named, ran, cut>>,
         req[e].at # "run", req'[e].at \notin {"reading", "run"},
         req[e].at = "reading" => req[e].obj = o,
         (req[e].at \in Inside /\ req[e].obj = o /\ LockInv) \/ ~ Locked(o),
         sess'[o].uses \in {{}, sess[o].uses}, ~ sess'[o].pending
  PROVE  TableStep
<1> DEFINE U == sess[o].uses
<1>1. ASSUME NEW t \in Tool
      PROVE  StageOf(t)' = IF t \in U /\ StageOf(t) \in {"new", "open", "taken"}
                           THEN "refused" ELSE StageOf(t)
  <2>1. CASE t \notin U
    BY <2>1, OthersStay
  <2>2. CASE t \in U
    <3>1. InTurn(o, t)
      BY <2>2 DEF Turns
    <3>2. ~ Reading(t)' /\ ~ Answered(t, "yes")' /\ ~ Answered(t, "undecided")'
      <4>1. CASE t \in sess'[o].uses
        <5>1. InTurn(o, t)'
          BY <4>1 DEF Turns
        <5>2. \A c \in Client : ~ (req'[c].at = "reading" /\ req'[c].obj = o)
          BY DEF Step, LockInv, Locked, Inside
        <5> QED
          BY <5>1, <5>2 DEF InTurn
      <4>2. CASE t \notin sess'[o].uses
        <5>1. \A p \in Session : t \notin sess'[p].uses
          <6>1. \A p \in Session \ {o} : t \notin sess[p].uses
            BY <3>1 DEF InTurn
          <6> QED
            BY <4>2, <6>1 DEF Step
        <5> QED
          BY <5>1 DEF Turns
      <4> QED
        BY <4>1, <4>2
    <3>3. Carrying(t)' <=> Carrying(t)
      BY DEF Step, Carrying, First
    <3>4. t \in Tool /\ t <= named /\ ran[t] \in Nat /\ named \in Nat
      BY <3>1 DEF InTurn, ChatTypeOK
    <3> QED
      BY <2>2, <3>2, <3>3, <3>4 DEF StageOf, Tool
  <2> QED
    BY <2>1, <2>2
<1>2. Table!Refuse(U)
  BY <1>1, UsesMove DEF Table!Refuse
<1>3. U \in SUBSET Tool
  BY DEF ChatTypeOK, Conversation
<1> QED
  BY <1>2, <1>3 DEF TableStep, Table!DNext

\* The model asks: the new tool uses are filed, or filed and turned down when it
\* is out of tokens.
LEMMA AskStep ==
  ASSUME ChatTypeOK, HasObject, ChatInv, Turns, Turns', NEW e \in Client, Ask(e)
  PROVE  TableStep
<1> USE ChatAssumption
<1> PICK o \in Session : o = req[e].obj
  BY DEF Ask, HasObject
<1>1. /\ req[e].at = "model" /\ UNCHANGED <<ran, cut>> /\ ~ sess[o].pending
      /\ \A c \in Client \ {e} : req[c].at \in Inside => req[c].obj # o
  BY DEF Ask, ChatInv, TailInv, Fits, LockInv, Inside
<1>2. /\ Step(e, o) /\ ~ sess'[o].pending /\ named \in Nat /\ named' \in Nat /\ named <= named'
      /\ req'[e].at \in {"reading", "idle"} /\ (req'[e].at = "reading" => req'[e].obj = o)
      /\ sess'[o].uses = (named + 1)..named'
  BY <1>1, LoopFields DEF SameTurn, ChatTypeOK
<1> DEFINE N == {t \in Tool : named < t /\ t <= named'}
           x == IF req'[e].at = "reading" THEN "open" ELSE "refused"
<1>3. \A t \in Tool : t \in sess'[o].uses <=> t \in N
  BY <1>2 DEF Tool
<1>4. ASSUME NEW t \in Tool
      PROVE  StageOf(t)' = IF t \in N /\ StageOf(t) = "new" THEN x ELSE StageOf(t)
  <2>1. CASE t \in sess[o].uses
    <3>1. InTurn(o, t)
      BY <2>1 DEF Turns
    <3>2. ~ Reading(t) /\ ~ Carrying(t) /\ \A a : ~ Answered(t, a)
      BY <1>1, <3>1 DEF InTurn, Inside
    <3>3. t \notin N /\ \A p \in Session : t \notin sess'[p].uses
      BY <1>2, <1>3, <3>1 DEF InTurn, Step, Tool
    <3>4. ~ Reading(t)' /\ ~ Carrying(t)' /\ ~ Answered(t, "yes")' /\ ~ Answered(t, "undecided")'
      BY <3>3 DEF Turns
    <3>5. ~ t > named' /\ ~ t > named
      BY <1>2, <3>1 DEF InTurn, Tool
    <3> QED
      BY <1>1, <3>2, <3>3, <3>4, <3>5 DEF StageOf
  <2>2. CASE t \in N
    <3>1. ran[t] = 0 /\ t > named /\ ~ t > named' /\ \A p \in Session : t \notin sess[p].uses
      BY <1>2, <2>2 DEF ChatInv, NameInv, Tool
    <3>2. StageOf(t) = "new"
      BY <3>1 DEF StageOf
    <3>3. InTurn(o, t)'
      BY <1>3, <2>2 DEF Turns
    <3>4. Reading(t)' <=> req'[e].at = "reading"
      BY <1>1, <1>2, <3>3 DEF InTurn, Step, Inside
    <3>5. ~ Answered(t, "yes")' /\ ~ Answered(t, "undecided")'
      BY <1>2, <3>3 DEF InTurn
    <3>6. StageOf(t)' = x
      BY <1>1, <3>1, <3>4, <3>5 DEF StageOf
    <3> QED
      BY <2>2, <3>2, <3>6
  <2>3. CASE t \notin N /\ t \notin sess[o].uses
    <3>1. t > named' <=> t > named
      BY <1>2, <2>3 DEF Tool
    <3>2. StageOf(t)' = StageOf(t)
      BY <1>1, <1>2, <1>3, <2>3, <3>1, OthersStay
    <3> QED
      BY <2>3, <3>2
  <2> QED
    BY <2>1, <2>2, <2>3
<1>5. N \in SUBSET Tool
  OBVIOUS
<1>6. CASE req'[e].at = "reading"
  <2>1. Table!Submit(N)
    BY <1>4, <1>6, UsesMove DEF Table!Submit
  <2> QED
    BY <1>5, <2>1 DEF TableStep, Table!DNext
<1>7. CASE req'[e].at # "reading"
  <2>1. \A t \in N : StageOf(t) = "new"
    BY <1>2 DEF StageOf, ChatInv, NameInv, Tool
  <2>2. Table!Refuse(N)
    BY <1>4, <1>7, <2>1, UsesMove DEF Table!Refuse
  <2> QED
    BY <1>5, <2>2 DEF TableStep, Table!DNext
<1> QED
  BY <1>6, <1>7

\* The reading tools have run: what was read for is pending now.
LEMMA ReadingDoneStep ==
  ASSUME ChatTypeOK, HasObject, ChatInv, Turns, Turns', NEW e \in Client, ReadingDone(e)
  PROVE  TableStep
<1> PICK o \in Session : o = req[e].obj
  BY DEF ReadingDone, HasObject
<1>1. /\ req[e].at = "reading" /\ UNCHANGED <<named, ran, cut>> /\ ~ sess[o].pending
      /\ LockInv /\ ~ req[e].at = "run"
  BY DEF ReadingDone, ChatInv, TailInv, Fits
<1>2. /\ Step(e, o) /\ sess'[o].uses = sess[o].uses /\ req'[e].at \notin {"reading", "run"}
      /\ \/ SameTurn(o)
         \/ /\ sess'[o].pending
            /\ \A t \in Tool : sess'[o].decisions[t] =
                 IF t \in sess[o].uses THEN "undecided" ELSE "none"
  BY <1>1, LoopFields
<1>3. CASE SameTurn(o)
  <2>1. ~ sess'[o].pending
    BY <1>1, <1>3 DEF SameTurn
  <2> QED
    BY <1>1, <1>2, <2>1, TurnedDown DEF Inside
<1>4. CASE sess'[o].pending /\ \A t \in Tool : sess'[o].decisions[t] =
                                 IF t \in sess[o].uses THEN "undecided" ELSE "none"
  <2>1. ASSUME NEW t \in Tool PROVE StageOf(t)' = StageOf(t)
    <3>1. CASE t \notin sess[o].uses
      BY <1>1, <1>2, <3>1, OthersStay
    <3>2. CASE t \in sess[o].uses
      <4>1. InTurn(o, t) /\ InTurn(o, t)'
        BY <1>2, <3>2 DEF Turns
      <4>2. Reading(t) /\ ~ Answered(t, "yes")
        BY <1>1, <4>1 DEF InTurn
      <4>3. Answered(t, "undecided")' /\ ~ Answered(t, "yes")'
        BY <1>4, <3>2, <4>1 DEF InTurn
      <4>4. Carrying(t)' <=> Carrying(t)
        BY <1>1, <1>2 DEF Step, Carrying, First
      <4> QED
        BY <1>1, <4>2, <4>3, <4>4 DEF StageOf
    <3> QED
      BY <3>1, <3>2
  <2> QED
    BY <2>1, UsesStay
<1> QED
  BY <1>2, <1>3, <1>4

\* A click with the lock takes up the one action it is about, or turns it down.
LEMMA DecideStep ==
  ASSUME ChatTypeOK, HasObject, ChatInv, Turns, Turns', NEW e \in Client, DecideStart(e)
  PROVE  TableStep
<1> PICK o \in Session : o = req[e].obj
  BY DEF DecideStart, HasObject
<1> PICK u : u = req[e].tool
  OBVIOUS
<1>1. /\ req[e].at = "decideWait" /\ u \in Tool /\ UNCHANGED <<named, ran, cut>>
      /\ NameInv /\ LockInv /\ TailInv
  BY DEF DecideStart, ChatInv, NameInv
<1>2. /\ Step(e, o) /\ ~ Locked(o) /\ sess'[o].uses = sess[o].uses
      /\ sess'[o].pending = sess[o].pending
      /\ req'[e].at \in {"idle", "apply"}
      /\ \/ SameTurn(o)
         \/ /\ sess[o].pending /\ sess[o].decisions[u] \in {"none", "undecided"}
            /\ sess'[o].decisions[u] \in {"yes", "no"}
            /\ \A t \in Tool \ {u} : sess'[o].decisions[t] = sess[o].decisions[t]
  BY <1>1, DecideFields
<1>a. \A c \in Client : req[c].at \in {"reading", "run"} \/ req'[c].at \in {"reading", "run"}
                         => req'[c] = req[c]
  BY <1>1, <1>2 DEF Step
<1>b. \A t : (Reading(t)' <=> \E c \in Client : req[c].at = "reading" /\ t \in sess'[req[c].obj].uses)
             /\ (Carrying(t)' <=> Carrying(t))
  BY <1>a DEF Reading, Carrying, First
<1>c. \A t : Reading(t)' <=> Reading(t)
  BY <1>2, <1>b DEF Reading, Step, HasObject
<1>3. ASSUME NEW t \in Tool,
             t \in sess[o].uses => sess'[o].decisions[t] = sess[o].decisions[t]
      PROVE  StageOf(t)' = StageOf(t)
  <2>1. CASE t \notin sess[o].uses
    BY <1>1, <1>2, <2>1, OthersStay
  <2>2. CASE t \in sess[o].uses
    <3>1. InTurn(o, t) /\ InTurn(o, t)'
      BY <1>2, <2>2 DEF Turns
    <3>2. /\ \A a : Answered(t, a) <=> sess[o].pending /\ sess[o].decisions[t] = a
          /\ \A a : Answered(t, a)' <=> sess'[o].pending /\ sess'[o].decisions[t] = a
      BY <3>1 DEF InTurn
    <3>3. \A a : Answered(t, a)' <=> Answered(t, a)
      BY <1>2, <1>3, <2>2, <3>2
    <3> QED
      BY <1>1, <1>b, <1>c, <3>3 DEF StageOf
  <2> QED
    BY <2>1, <2>2
<1>4. CASE SameTurn(o) \/ u \notin sess[o].uses
  BY <1>2, <1>3, <1>4, UsesStay DEF SameTurn
<1>5. CASE /\ sess[o].pending /\ sess[o].decisions[u] \in {"none", "undecided"}
           /\ sess'[o].decisions[u] \in {"yes", "no"} /\ u \in sess[o].uses
           /\ \A t \in Tool \ {u} : sess'[o].decisions[t] = sess[o].decisions[t]
  <2>1. sess[o].decisions[u] = "undecided" /\ u \in Undecided(sess[o])
    BY <1>1, <1>5 DEF NameInv, Undecided
  <2>2. ran[u] = 0
    BY <1>5, <2>1 DEF ChatInv, RunInv, Accounted
  <2>3. InTurn(o, u) /\ InTurn(o, u)'
    BY <1>2, <1>5 DEF Turns
  <2>4. StageOf(u) = "open"
    BY <1>5, <2>1, <2>2, <2>3 DEF StageOf, InTurn, Tool, ChatTypeOK
  <2>5. /\ ~ Reading(u)' /\ ~ Answered(u, "undecided")'
        /\ Answered(u, "yes")' <=> sess'[o].decisions[u] = "yes"
    <3>1. ~ Reading(u)
      BY <1>2, <2>3 DEF InTurn, Locked, Inside
    <3>2. \A a : Answered(u, a)' <=> sess'[o].pending /\ sess'[o].decisions[u] = a
      BY <2>3 DEF InTurn
    <3>3. sess'[o].pending /\ sess'[o].decisions[u] # "undecided"
      BY <1>2, <1>5
    <3>4. ~ Reading(u)'
      BY <1>c, <3>1
    <3> QED
      BY <3>2, <3>3, <3>4
  <2>6. StageOf(u)' = IF sess'[o].decisions[u] = "yes" THEN "taken" ELSE "refused"
    BY <1>1, <2>2, <2>3, <2>5 DEF StageOf, InTurn, Tool, ChatTypeOK
  <2>7. \A t \in Tool \ {u} : StageOf(t)' = StageOf(t)
    BY <1>3, <1>5
  <2>8. CASE sess'[o].decisions[u] = "yes"
    <3>1. Table!TakeUp(u)
      BY <1>1, <2>4, <2>6, <2>7, <2>8, UsesMove DEF Table!TakeUp
    <3> QED
      BY <1>1, <3>1 DEF TableStep, Table!DNext
  <2>9. CASE sess'[o].decisions[u] # "yes"
    <3>1. Table!Refuse({u})
      BY <2>4, <2>6, <2>7, <2>9, UsesMove DEF Table!Refuse
    <3> QED
      BY <1>1, <3>1 DEF TableStep, Table!DNext
  <2> QED
    BY <2>8, <2>9
<1> QED
  BY <1>2, <1>4, <1>5

\* A confirmed action is started; a cancelled one is passed over.
LEMMA ApplyStep ==
  ASSUME ChatTypeOK, HasObject, ChatInv, Turns, Turns', NEW e \in Client, Apply(e)
  PROVE  TableStep
<1> PICK o \in Session : o = req[e].obj
  BY DEF Apply, HasObject
<1>1. /\ req[e].at = "apply" /\ UNCHANGED <<sess, named, cut>> /\ sess[o].pending
      /\ LeftToDo(e) /\ NameInv
  BY DEF Apply, ChatInv, TailInv, Fits, RunInv
<1>2. /\ Step(e, o) /\ req'[e].obj = o
      /\ \E t \in req[e].todo : First(req[e].todo, t) /\
           \/ /\ ran' = [ran EXCEPT ![t] = @ + 1]
              /\ req'[e].at = "run" /\ req'[e].todo = req[e].todo
           \/ ran' = ran /\ req'[e].at = "apply"
  BY <1>1, DecideFields DEF ChatInv
<1>3. CASE ran' = ran /\ req'[e].at = "apply"
  BY <1>1, <1>2, <1>3, QuietStep DEF Step
<1>4. CASE req'[e].at = "run"
  <2>1. PICK u \in req[e].todo :
          /\ First(req[e].todo, u) /\ sess[o].decisions[u] = "yes"
          /\ ran' = [ran EXCEPT ![u] = @ + 1]
    <3>1. \A t : [req[e] EXCEPT !.todo = @ \ {t}].at # "run"
      BY <1>1 DEF ChatTypeOK, Request
    <3>2. \A r : req' = [req EXCEPT ![e] = r] => req'[e] = r
      BY DEF ChatTypeOK
    <3>3. PICK u \in req[e].todo :
            /\ First(req[e].todo, u)
            /\ \/ sess[o].decisions[u] = "yes" /\ ran' = [ran EXCEPT ![u] = @ + 1]
               \/ req' = [req EXCEPT ![e] = [req[e] EXCEPT !.todo = @ \ {u}]]
      BY DEF Apply
    <3> QED
      BY <1>4, <3>1, <3>2, <3>3
  <2>2. req'[e].todo = req[e].todo
    BY <1>2, <1>4
  <2>3. u \in sess[o].uses /\ ran[u] = 0 /\ InTurn(o, u) /\ InTurn(o, u)' /\ u \in Tool
    BY <1>1, <2>1 DEF LeftToDo, Turns, InTurn
  <2>4. StageOf(u) = "taken"
    BY <1>1, <2>1, <2>3 DEF StageOf, InTurn, Tool, ChatTypeOK
  <2>5. StageOf(u)' = "started"
    <3>1. Carrying(u)'
      BY <1>2, <1>4, <2>1, <2>2, <2>3 DEF InTurn
    <3>2. ran'[u] > 0
      BY <2>1, <2>3 DEF ChatTypeOK
    <3> QED
      BY <3>1, <3>2 DEF StageOf
  <2>6. ASSUME NEW t \in Tool, t # u PROVE StageOf(t)' = StageOf(t)
    <3>1. ran'[t] = ran[t]
      BY <2>1, <2>6 DEF ChatTypeOK
    <3>2. Reading(t)' <=> Reading(t)
      BY <1>1, <1>2, <1>4 DEF Reading, Step
    <3>3. ~ First(req[e].todo, t)
      BY <2>1, <2>3, <2>6 DEF First, Tool
    <3>4. Carrying(t)' <=> Carrying(t)
      BY <1>1, <1>2, <2>2, <3>3 DEF Carrying, Step
    <3>5. \A a \in {"yes", "undecided"} : Answered(t, a)' <=> Answered(t, a)
      BY <1>1 DEF Answered
    <3> QED
      BY <1>1, <3>1, <3>2, <3>4, <3>5 DEF StageOf
  <2>7. Table!Start(u)
    BY <2>3, <2>4, <2>5, <2>6, UsesMove DEF Table!Start
  <2> QED
    BY <2>3, <2>7 DEF TableStep, Table!DNext
<1> QED
  BY <1>2, <1>3, <1>4

\* What a request runs ends: the tool returns, or its tab is closed.
LEMMA RunOver ==
  ASSUME ChatTypeOK, HasObject, ChatInv, Turns, Turns', NEW e \in Client, req[e].at = "run",
         RunEnds(e) \/ Disconnect(e)
  PROVE  TableStep
<1> PICK o \in Session : o = req[e].obj
  BY DEF HasObject
<1>1. /\ UNCHANGED <<named, ran>> /\ LeftToDo(e) /\ NameInv /\ LockInv
  BY DEF RunEnds, Disconnect, ChatInv, RunInv
<1>2. /\ Step(e, o) /\ SameTurn(o) /\ sess'[o].uses = sess[o].uses
      /\ req'[e].at \in {"idle", "apply"}
  <2>1. CASE RunEnds(e)
    BY <2>1, RunEndsFields
  <2>2. CASE Disconnect(e)
    BY <2>2, OutsideFields DEF Step, SameTurn
  <2> QED
    BY <2>1, <2>2
<1>3. cut \subseteq cut' /\ \A t \in cut' \ cut : First(req[e].todo, t)
  BY DEF RunEnds, Disconnect
<1>4. \A t : Reading(t)' <=> Reading(t)
  BY <1>2 DEF Step, Reading, HasObject
<1>5. ASSUME NEW t \in Tool, ~ First(req[e].todo, t) PROVE StageOf(t)' = StageOf(t)
  <2>1. Carrying(t)' <=> Carrying(t)
    BY <1>2, <1>5 DEF Carrying, Step, First
  <2>2. \A a : Answered(t, a)' <=> Answered(t, a)
    BY <1>2 DEF Answered, Step, SameTurn
  <2>3. t \in cut' <=> t \in cut
    BY <1>3, <1>5
  <2> QED
    BY <1>1, <1>4, <2>1, <2>2, <2>3 DEF StageOf
<1>6. CASE \A t \in Tool : ~ First(req[e].todo, t)
  BY <1>5, <1>6, UsesStay
<1>7. ASSUME NEW u \in Tool, First(req[e].todo, u) PROVE TableStep
  <2>1. u \in sess[o].uses /\ InTurn(o, u) /\ InTurn(o, u)'
    BY <1>1, <1>2, <1>7 DEF First, LeftToDo, Turns
  <2>2. \A t \in Tool : t # u => ~ First(req[e].todo, t)
    BY <1>7 DEF First, Tool
  <2>3. Carrying(u)
    BY <1>7 DEF Carrying
  <2>4. ~ Carrying(u)'
    BY <1>1, <1>2, <2>1 DEF InTurn, Step, LockInv, Inside
  <2>5. \A a : Answered(u, a)' <=> Answered(u, a)
    BY <1>2 DEF Answered, Step, SameTurn
  <2>6. CASE ran[u] > 0
    <3>1. StageOf(u) = "started" /\ StageOf(u)' \in {"succeeded", "failed"}
      BY <1>1, <2>3, <2>4, <2>6 DEF StageOf
    <3>2. Table!Finish(u)
      BY <1>5, <2>2, <3>1, UsesMove DEF Table!Finish
    <3> QED
      BY <3>2 DEF TableStep, Table!DNext
  <2>7. CASE ~ ran[u] > 0
    <3>1. StageOf(u)' = StageOf(u)
      BY <1>1, <1>4, <2>5, <2>7 DEF StageOf
    <3> QED
      BY <1>5, <2>2, <3>1, UsesStay
  <2> QED
    BY <2>6, <2>7
<1> QED
  BY <1>6, <1>7

\* Every step of a tab is a step of the table, or leaves it unchanged.
LEMMA ChatTableStep ==
  ASSUME ChatTypeOK, HasObject, ChatInv, Turns, Turns', NEW e \in Client, ChatStep(e)
  PROVE  TableStep
<1>0. /\ LockInv /\ TailInv /\ NameInv
      /\ \A c \in Client : req[c].at # "idle" => req[c].obj \in Session
  BY DEF ChatInv, HasObject
<1>1. CASE Send(e) \/ \E t \in Tool : Decide(e, t)
  BY <1>1, OutsideFields, QuietStep DEF Send, Decide
<1>2. CASE SendStart(e)
  <2>1. req[e].at = "sendWait" /\ UNCHANGED <<named, ran, cut>>
    BY <1>2 DEF SendStart
  <2>2. LET o == req[e].obj
        IN  /\ o \in Session /\ Step(e, o) /\ ~ Locked(o) /\ ~ sess'[o].pending
            /\ req'[e].at \in {"moving", "model"} /\ sess'[o].uses \in {{}, sess[o].uses}
    BY <1>0, <1>2, <2>1, SendStartFields
  <2> QED
    BY <2>1, <2>2, TurnedDown
<1>3. CASE SendMoves(e) \/ Answer(e) \/ Applied(e)
  <2>1. /\ req[e].at \in {"moving", "model", "apply"} /\ UNCHANGED <<named, ran, cut>>
        /\ req[e].at # "apply" => ~ sess[req[e].obj].pending
    BY <1>0, <1>3 DEF SendMoves, Answer, Applied, TailInv, Fits
  <2>2. LET o == req[e].obj
        IN  /\ o \in Session /\ Step(e, o) /\ ~ sess'[o].pending
            /\ req'[e].at \in {"idle", "model"} /\ sess'[o].uses \in {{}, sess[o].uses}
    <3>1. CASE SendMoves(e) \/ Answer(e)
      <4> PICK o \in Session : o = req[e].obj
        BY <1>0, <2>1
      <4>1. /\ Step(e, o) /\ SameTurn(o) /\ req'[e].at \in {"idle", "model"}
            /\ sess'[o].uses \in {{}, sess[o].uses}
        BY <3>1, LoopFields
      <4>2. ~ sess'[o].pending
        BY <2>1, <3>1, <4>1 DEF SameTurn, SendMoves, Answer
      <4> QED
        BY <4>1, <4>2
    <3>2. CASE Applied(e)
      BY <1>0, <3>2, DecideFields DEF Applied
    <3> QED
      BY <1>3, <3>1, <3>2
  <2> QED
    BY <1>0, <2>1, <2>2, TurnedDown DEF Inside
<1>4. CASE Disconnect(e) /\ req[e].at = "reading"
  <2>1. /\ UNCHANGED <<sess, named, ran, cut>> /\ req'[e].at = "idle"
        /\ \A d \in Client \ {e} : req'[d] = req[d]
    BY <1>4, OutsideFields DEF Disconnect
  <2>2. LET o == req[e].obj
        IN  o \in Session /\ Step(e, o) /\ ~ sess'[o].pending
    BY <1>0, <1>4, <2>1 DEF Step, TailInv, Fits
  <2> QED
    BY <1>0, <1>4, <2>1, <2>2, TurnedDown DEF Inside
<1>5. CASE Disconnect(e) /\ req[e].at \notin {"reading", "run"}
  BY <1>5, OutsideFields, QuietStep DEF Disconnect
<1> QED
  BY <1>1, <1>2, <1>3, <1>4, <1>5, AskStep, ReadingDoneStep, DecideStep, ApplyStep, RunOver
     DEF ChatStep, RunEnds

\* Tool uses keep the promise of the decision table, for any number of tabs,
\* sessions and tool uses (send(), decide(), _loop()).
THEOREM ChatImplementsTable == ChatSpec => DecisionSpec
<1> DEFINE Inv == ChatTypeOK /\ HasObject /\ ChatInv /\ Turns
<1>1. ChatInit => Table!DInit
  BY DEF ChatInit, Table!DInit, StageOf, Carrying, Answered, Reading, Idle, Session0, Tool
<1>2. Inv /\ Inv' /\ [ChatNext]_chatVars => TableStep
  <2> SUFFICES ASSUME Inv, Inv', [ChatNext]_chatVars PROVE TableStep
    OBVIOUS
  <2>1. CASE UNCHANGED <<sess, req, named, ran, cut>>
    BY <2>1, UsesStay DEF StageOf, Carrying, Answered, Reading
  <2>2. ASSUME NEW e \in Client, ChatStep(e) PROVE TableStep
    BY <2>2, ChatTableStep
  <2> QED
    BY <2>1, <2>2 DEF ChatNext, Drop, chatVars
<1> QED
  BY <1>1, <1>2, ChatInvariant, TurnsHold, PTL
     DEF ChatSpec, DecisionSpec, Table!DSpec, TableStep

\* What the table's steps leave to a single tool use.
LEMMA TableStepOf ==
  ASSUME TableStep, NEW t \in Tool
  PROVE  /\ StageOf(t) = "refused" => StageOf(t)' = "refused"
         /\ StageOf(t)' = "started" => StageOf(t) \in {"taken", "started"}
         /\ StageOf(t)' \in {"succeeded", "failed"} =>
              StageOf(t) \in {"started", "succeeded", "failed"}
         /\ StageOf(t) \in {"started", "succeeded", "failed"} =>
              StageOf(t)' \in {"started", "succeeded", "failed"}
<1>1. CASE UNCHANGED [x \in Tool |-> StageOf(x)]
  <2>1. [x \in Tool |-> StageOf(x)][t] = StageOf(t)
    OBVIOUS
  <2>2. ([x \in Tool |-> StageOf(x)])'[t] = StageOf(t)'
    OBVIOUS
  <2> QED
    BY <1>1, <2>1, <2>2
<1>2. CASE Table!DNext
  BY <1>2 DEF Table!DNext, Table!Submit, Table!Refuse, Table!TakeUp, Table!PutBack,
              Table!Start, Table!Finish, Table!Dispute, Table!Move
<1> QED
  BY <1>1, <1>2 DEF TableStep

\* A use that was cancelled, abandoned by a later message or lost with its tab
\* is never carried out afterwards, whatever click still waits for the lock
\* (chat.py:343, :373): what the table promises, said of the tools themselves.
THEOREM TurnedDownNeverRuns ==
  ASSUME NEW t \in Tool
  PROVE  ChatSpec => [](StageOf(t) = "refused" => [](ran[t] = 0))
<1>1. TableStep => (StageOf(t) = "refused" => (StageOf(t) = "refused")')
  BY TableStepOf
<1>2. ChatTypeOK /\ StageOf(t) = "refused" => ran[t] = 0
  BY DEF ChatTypeOK, StageOf
<1> QED
  BY <1>1, <1>2, ChatInvariant, ChatImplementsTable, PTL
     DEF DecisionSpec, Table!DSpec, TableStep

\* Whenever a tool is carried out, the person has said yes to it in the turn
\* that is pending (chat.py:389).
THEOREM RunsAreConfirmed ==
  ASSUME NEW t \in Tool
  PROVE  ChatSpec => [][ran'[t] # ran[t] => Answered(t, "yes")]_chatVars
<1>1. ASSUME ChatTypeOK, ChatTypeOK', ConfirmedRunsOnce, ConfirmedRunsOnce', TableStep,
             ran'[t] # ran[t]
      PROVE  Answered(t, "yes")
  <2>1. ran[t] \in 0..1 /\ ran'[t] \in 0..1
    BY <1>1 DEF ChatTypeOK, ConfirmedRunsOnce
  <2>2. ran[t] > 0 => StageOf(t) \in {"started", "succeeded", "failed"}
    BY DEF StageOf
  <2>3. StageOf(t)' \in {"started", "succeeded", "failed"} => ran'[t] > 0
    BY DEF StageOf
  <2>4. ran'[t] > 0 => StageOf(t)' \in {"started", "succeeded", "failed"}
    BY DEF StageOf
  <2>5. ran[t] = 0 /\ ran'[t] = 1
    BY <1>1, <2>1, <2>2, <2>3, TableStepOf
  <2>6. StageOf(t) = "taken"
    BY <1>1, <2>4, <2>5, TableStepOf DEF StageOf
  <2> QED
    BY <2>6 DEF StageOf
<1> QED
  BY <1>1, ChatInvariant, ActionsRunOnce, ChatImplementsTable, PTL
     DEF DecisionSpec, Table!DSpec, TableStep

=============================================================================
