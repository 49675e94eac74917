--------------------------- MODULE AiSessionProofs ---------------------------
(***************************************************************************)
(* Proofs about AiSession, for any number of messages, files and tool      *)
(* calls.  The panel sends a message only when the run before has reported *)
(* its end, so at most one run is busy; everything else rests on that.     *)
(***************************************************************************)
EXTENDS AiSession, DataFacts, FiniteSetTheorems, TLAPS

\* A run answers a tool call; it waits for the user or changes the vault.
Calling == {"call", "approval", "precheck", "check", "write", "result", "restore", "proxy"}
Gated == {"approval", "precheck", "check", "write", "result", "restore"}

Controls == [status : {"Idle", "Streaming", "AwaitingApproval", "Applying"},
             token : {0} \cup Tasks, deferred : BOOLEAN]
Ghosts == [approved : SUBSET Nat, imposed : SUBSET Nat, seen : SUBSET Versions,
           window : SUBSET Versions, lost : SUBSET Versions, stopped : SUBSET Tasks]

\* What holds whichever run is busy.  The messages begin with one of the user's
\* and a result follows the assistant's message with its call, in the same turn;
\* the session remembers only contents it has seen.
MessagesOK(m) ==
    /\ m # <<>> => m[1].kind = "user"
    /\ \A i \in DOMAIN m : m[i].kind = "result" =>
        \E j \in 1..i - 1 : /\ m[j].kind = "assistant" /\ m[i].ids \subseteq m[j].ids
                            /\ \A k \in j..i : m[k].kind # "user"
Shared ==
    /\ control \in Controls /\ cancelled \in SUBSET Tasks /\ calls \in Nat
    /\ snap \in [Paths -> Versions] /\ disk \in [Paths -> Versions] /\ version \in Versions
    /\ registered \in BOOLEAN /\ ui \in {"idle", "busy", "error"}
    /\ messages \in Seq(MessageType) /\ MessagesOK(messages)
    /\ ghost \in Ghosts /\ ghost.approved \subseteq 1..calls /\ ghost.imposed = {} /\ ghost.lost = {}
    /\ 0 \in ghost.seen /\ Draft \in ghost.seen /\ \A p \in Paths : snap[p] \in ghost.seen

\* What a run holds fits where it is: a call to answer, a plan to decide on or
\* apply, an answer only while one is awaited or after; contents it has seen.
RunOK(t) ==
    /\ t.pc \in Calling => t.todo # <<>>
    /\ \A k \in DOMAIN t.todo : t.todo[k] \in 1..calls
    /\ t.pc \in Gated => t.plan.op # "none"
    /\ t.pc \in {"unsent", "spawned", "connect", "stream", "call"} => t.answer = "none"
    /\ t.pc = "approval" => t.answer \in {"none", "approve", "reject"}
    /\ t.plan.content \in ghost.seen /\ t.plan.expected \in ghost.seen

\* The run t of message r has not begun or has ended, as the panel knows.
Quiet(r, t) ==
    /\ RunOK(t) /\ t.pc \in {"unsent", "done"} /\ (t.told <=> t.pc = "done")
    /\ t.outcome = "cancelled" => r \in cancelled
    /\ r \in ghost.stopped => t.pc = "done" /\ t.outcome = "cancelled"

\* It is the one under way, or about to be: the control block describes it,
\* the senders are the ones it awaits, what it applies was approved and what it
\* is about to overwrite was seen, unless another writer came after the check.
Running(t) == t.pc \notin {"unsent", "spawned", "done"}
Awaits(t, pc) == IF t.pc = pc /\ t.answer = "none" THEN {Head(t.todo)} ELSE {}
Target(plan) == IF plan.op = "rename" THEN plan.to ELSE plan.path
Asked(m, id) ==
    \E j \in DOMAIN m : m[j].kind = "assistant" /\ id \in m[j].ids /\ \A k \in j..Len(m) : m[k].kind # "user"
Describes(r, t) ==
    /\ control.status # "Idle"
    /\ control.status = "AwaitingApproval" <=> t.pc = "approval"
    /\ control.status = "Applying" <=> t.pc \in Gated \ {"approval"}
    /\ control.token = r \/ r \in cancelled
    /\ control.deferred => r \in cancelled
Foreground(r, t) ==
    /\ RunOK(t) /\ t.pc # "unsent" /\ ~t.told
    /\ Running(t) => Describes(r, t) /\ messages # <<>>
    /\ ~Running(t) => control.status = "Idle"
    /\ approvals = Awaits(t, "approval") /\ pending = Awaits(t, "proxy")
    /\ (t.pc = "approval" /\ t.answer = "approve") \/ t.pc \in {"precheck", "check", "write"}
            => Head(t.todo) \in ghost.approved
    /\ t.pc = "write" => disk[Target(t.plan)] \in ghost.seen \cup ghost.window
    /\ t.outcome = "cancelled" => r \in cancelled
    /\ r \in ghost.stopped => \/ Running(t) /\ control.deferred
                              \/ t.pc = "done" /\ t.outcome = "cancelled"
    /\ t.pc \in Calling => \A n \in DOMAIN t.todo : Asked(messages, t.todo[n])

\* The inductive invariant: no run is busy, or one is and the panel waits for it.
Nobody ==
    /\ control.status = "Idle" /\ approvals = {} /\ pending = {}
    /\ \A s \in Tasks : Quiet(s, task[s])
Alone(r) ==
    /\ ui # "idle" /\ Foreground(r, task[r])
    /\ \A s \in Tasks \ {r} : Quiet(s, task[s])
SessionInv == task \in [Tasks -> TaskType] /\ Shared /\ (Nobody \/ \E r \in Tasks : Alone(r))

\* The values of a run at rest have their types.
LEMMA RestTyped ==
    /\ NoPlan \in Plans /\ NoPlan.op = "none" /\ NoPlan.content = 0 /\ NoPlan.expected = 0
    /\ NoPlan.path \in Paths
    /\ Unsent.embedded \in [Paths -> Versions] /\ Unsent \in TaskType
    /\ 0 \in Versions /\ Draft \in Versions /\ 0 \in 0..RoundLimit
<1>1. 0 \in Versions /\ Draft \in Versions /\ 0 \in 0..RoundLimit /\ Draft \in Nat
    BY SessionAssumption DEF Versions, Draft
<1>2. (CHOOSE p \in Paths : TRUE) \in Paths
    BY SessionAssumption
<1>3. NoPlan \in Plans /\ NoPlan.op = "none" /\ NoPlan.content = 0 /\ NoPlan.expected = 0 /\ NoPlan.path \in Paths
    BY <1>1, <1>2 DEF NoPlan, Plans
<1>4. Unsent.embedded \in [Paths -> Versions]
    BY <1>1 DEF Unsent
<1>5. Unsent \in TaskType
    BY <1>1, <1>3 DEF Unsent, TaskType, Pcs, Modes, Outcomes
<1> QED
    BY <1>1, <1>3, <1>4, <1>5

\* A run that ends holds nothing any more.
LEMMA FinishFacts ==
    ASSUME NEW t \in TaskType, NEW o \in Outcomes
    PROVE  LET u == Finish(t, o)
           IN  /\ u \in TaskType /\ u.pc = "finish" /\ u.outcome = o /\ u.plan = NoPlan
               /\ u.todo = <<>> /\ u.answer = "none" /\ u.told = t.told
<1>1. /\ NoPlan \in Plans /\ NoPlan.path \in Paths /\ Unsent.embedded \in [Paths -> Versions]
      /\ 0 \in 0..RoundLimit /\ "finish" \in Pcs /\ "Ask" \in Modes /\ <<>> \in Seq(Nat)
    BY RestTyped DEF Pcs, Modes
<1> QED
    BY <1>1, Zenon DEF Finish, TaskType

\* The next round begins, or the limit ends the run.
LEMMA RoundFacts ==
    ASSUME NEW t \in TaskType
    PROVE  LET u == NextRound(t)
           IN  /\ u \in TaskType /\ u.told = t.told
               /\ \/ u.pc = "connect" /\ u.outcome = t.outcome /\ u.plan = t.plan /\ u.todo = t.todo
                     /\ u.answer = t.answer
                  \/ u.pc = "finish" /\ u.outcome = "limit" /\ u.plan = NoPlan /\ u.todo = <<>> /\ u.answer = "none"
<1>1. CASE t.round = RoundLimit
    <2>1. NextRound(t) = Finish(t, "limit")
        BY <1>1, Zenon DEF NextRound
    <2>2. "limit" \in Outcomes
        BY DEF Outcomes
    <2> QED
        BY <2>1, <2>2, FinishFacts
<1>2. CASE t.round # RoundLimit
    <2>1. PICK u : u = [t EXCEPT !.pc = "connect", !.round = @ + 1]
        OBVIOUS
    <2>2. NextRound(t) = u
        BY <1>2, <2>1, Zenon DEF NextRound
    <2>3. t.round + 1 \in 0..RoundLimit /\ "connect" \in Pcs
        BY <1>2, SessionAssumption DEF TaskType, Pcs
    <2>4. /\ u \in TaskType /\ u.pc = "connect" /\ u.outcome = t.outcome /\ u.plan = t.plan
          /\ u.todo = t.todo /\ u.answer = t.answer /\ u.told = t.told
        BY <2>1, <2>3, Zenon DEF TaskType
    <2> QED
        BY <2>2, <2>4
<1> QED
    BY <1>1, <1>2

\* The call under way is answered: on to the next call or round, or the limit.
LEMMA AnsweredFacts ==
    ASSUME NEW t \in TaskType, t.todo # <<>>
    PROVE  LET u == Answered(t)
           IN  /\ u \in TaskType /\ u.told = t.told /\ u.plan = NoPlan /\ u.answer = "none"
               /\ u.pc \in {"call", "connect", "finish"} /\ u.outcome \in {t.outcome, "limit"}
               /\ u.pc = "call" => u.todo # <<>>
               /\ \A k \in DOMAIN u.todo : \E j \in DOMAIN t.todo : u.todo[k] = t.todo[j]
<1>1. PICK v : v = [t EXCEPT !.todo = Tail(@), !.plan = NoPlan, !.answer = "none", !.landed = FALSE, !.pc = "call"]
    OBVIOUS
<1>2. t.todo \in Seq(Nat)
    BY DEF TaskType
<1>3. /\ Tail(t.todo) \in Seq(Nat) /\ NoPlan \in Plans /\ "call" \in Pcs
      /\ \A k \in DOMAIN Tail(t.todo) : k + 1 \in DOMAIN t.todo /\ Tail(t.todo)[k] = t.todo[k + 1]
    BY <1>2, RestTyped DEF Pcs
<1>4. /\ v \in TaskType /\ v.told = t.told /\ v.plan = NoPlan /\ v.answer = "none" /\ v.outcome = t.outcome
      /\ v.pc = "call" /\ v.todo = Tail(t.todo)
    BY <1>1, <1>3, Zenon DEF TaskType
<1>5. Answered(t) = IF v.todo = <<>> THEN NextRound(v) ELSE v
    BY <1>1, Zenon DEF Answered
<1>6. CASE v.todo = <<>>
    <2>1. Answered(t) = NextRound(v)
        BY <1>5, <1>6
    <2>2. LET u == NextRound(v)
          IN  /\ u \in TaskType /\ u.told = v.told
              /\ \/ u.pc = "connect" /\ u.outcome = v.outcome /\ u.plan = v.plan /\ u.todo = v.todo
                    /\ u.answer = v.answer
                 \/ u.pc = "finish" /\ u.outcome = "limit" /\ u.plan = NoPlan /\ u.todo = <<>> /\ u.answer = "none"
        BY <1>4, RoundFacts
    <2> QED
        BY <1>4, <1>6, <2>1, <2>2
<1>7. CASE v.todo # <<>>
    BY <1>3, <1>4, <1>5, <1>7
<1> QED
    BY <1>6, <1>7

\* What is left to show when a step concerns the run of message r alone: that it
\* is the one that is busy, in the state u it now has.
LEMMA StepAlone ==
    ASSUME task \in [Tasks -> TaskType], Shared', ui' # "idle",
           NEW r \in Tasks, \A s \in Tasks \ {r} : Quiet(s, task[s]),
           NEW u \in TaskType, task' = [task EXCEPT ![r] = u], Foreground(r, u)',
           calls \in Nat, calls' \in Nat, calls <= calls', cancelled \subseteq cancelled',
           ghost.seen \subseteq ghost'.seen, ghost'.stopped \subseteq ghost.stopped \cup {r}
    PROVE  SessionInv'
<1>1. task' \in [Tasks -> TaskType] /\ task'[r] = u /\ \A s \in Tasks \ {r} : task'[s] = task[s]
    OBVIOUS
<1>2. ASSUME NEW s \in Tasks \ {r} PROVE Quiet(s, task[s])'
    <2>1. RunOK(task[s])'
        BY <1>1, <1>2 DEF Quiet, RunOK
    <2> QED
        BY <1>1, <1>2, <2>1 DEF Quiet
<1>3. Foreground(r, task[r])'
    BY <1>1 DEF Foreground, RunOK, Running, Describes, Awaits, Asked
<1>4. Alone(r)'
    BY <1>2, <1>3 DEF Alone
<1> QED
    BY <1>1, <1>4 DEF SessionInv

\* The same when no run is busy.
LEMMA StepNobody ==
    ASSUME task \in [Tasks -> TaskType], Shared', \A s \in Tasks : Quiet(s, task[s]), UNCHANGED task,
           control'.status = "Idle", approvals' = {}, pending' = {},
           calls' = calls, cancelled \subseteq cancelled', ghost.seen \subseteq ghost'.seen,
           ghost'.stopped = ghost.stopped
    PROVE  SessionInv'
<1>1. ASSUME NEW s \in Tasks PROVE Quiet(s, task[s])'
    <2>1. RunOK(task[s])'
        BY <1>1 DEF Quiet, RunOK
    <2> QED
        BY <1>1, <2>1 DEF Quiet
<1> QED
    BY <1>1 DEF SessionInv, Nobody

\* A session begins.
LEMMA InitSession == Init => SessionInv
<1> SUFFICES ASSUME Init PROVE SessionInv
    OBVIOUS
<1>1. task \in [Tasks -> TaskType] /\ \A s \in Tasks : task[s] = Unsent
    BY RestTyped DEF Init
<1>2. /\ control.status = "Idle" /\ control \in Controls /\ calls = 0 /\ messages = <<>> /\ cancelled = {}
      /\ approvals = {} /\ pending = {} /\ registered \in BOOLEAN /\ ui = "idle"
    BY DEF Init, Controls
<1>3. /\ ghost \in Ghosts /\ ghost.approved = {} /\ ghost.imposed = {} /\ ghost.lost = {}
      /\ ghost.seen = {0, Draft} /\ ghost.stopped = {}
    BY RestTyped DEF Init, InitGhost, Ghosts
<1>4. /\ snap \in [Paths -> Versions] /\ disk \in [Paths -> Versions] /\ version \in Versions
      /\ \A p \in Paths : snap[p] = 0
    BY RestTyped, SessionAssumption DEF Init, Versions, Draft
<1>5. MessagesOK(messages) /\ messages \in Seq(MessageType)
    BY <1>2 DEF MessagesOK
<1>6. Shared
    BY <1>2, <1>3, <1>4, <1>5 DEF Shared
<1>7. /\ Unsent.pc = "unsent" /\ Unsent.todo = <<>> /\ Unsent.answer = "none" /\ Unsent.plan = NoPlan
      /\ Unsent.outcome = "none" /\ ~Unsent.told
    BY DEF Unsent
<1>8. ASSUME NEW s \in Tasks PROVE Quiet(s, task[s])
    BY <1>1, <1>2, <1>3, <1>7, RestTyped DEF Quiet, RunOK, Calling, Gated
<1> QED
    BY <1>1, <1>2, <1>6, <1>8 DEF SessionInv, Nobody

-----------------------------------------------------------------------------
(* The steps of a run.                                                     *)

\* A run that makes a step is the one that is busy.
LEMMA BusyAlone ==
    ASSUME SessionInv, NEW r \in Tasks, task[r].pc \notin {"unsent", "done"}
    PROVE  /\ Shared /\ ui # "idle" /\ task \in [Tasks -> TaskType] /\ task[r] \in TaskType
           /\ Foreground(r, task[r]) /\ \A s \in Tasks \ {r} : Quiet(s, task[s])
<1>1. ~Quiet(r, task[r])
    BY DEF Quiet
<1>2. Alone(r)
    BY <1>1 DEF SessionInv, Nobody, Alone
<1> QED
    BY <1>2 DEF SessionInv, Alone

\* A run that is at another place and otherwise as it was.
LEMMA MovedTo ==
    ASSUME NEW t \in TaskType, NEW c \in Pcs
    PROVE  LET u == [t EXCEPT !.pc = c]
           IN  /\ u \in TaskType /\ u.pc = c /\ u.todo = t.todo /\ u.plan = t.plan /\ u.answer = t.answer
               /\ u.outcome = t.outcome /\ u.told = t.told /\ u.landed = t.landed
BY Zenon DEF TaskType

\* A message joins the others; the calls asked for stay so but for a new turn.
LEMMA AppendMessage ==
    ASSUME NEW ms \in Seq(MessageType), MessagesOK(ms), NEW m \in MessageType,
           ms # <<>> \/ m.kind = "user",
           m.kind = "result" => \E id : m.ids = {id} /\ Asked(ms, id)
    PROVE  /\ Append(ms, m) \in Seq(MessageType) /\ MessagesOK(Append(ms, m)) /\ Append(ms, m) # <<>>
           /\ m.kind # "user" => \A id : Asked(ms, id) => Asked(Append(ms, m), id)
           /\ m.kind = "assistant" => \A id \in m.ids : Asked(Append(ms, m), id)
<1>1. PICK ns : ns = Append(ms, m)
    OBVIOUS
<1>2. /\ ns \in Seq(MessageType) /\ ns # <<>> /\ Len(ms) \in Nat /\ DOMAIN ms = 1..Len(ms)
      /\ Len(ns) = Len(ms) + 1 /\ DOMAIN ns = 1..(Len(ms) + 1)
      /\ ns[Len(ms) + 1] = m /\ \A k \in 1..Len(ms) : ns[k] = ms[k]
    BY <1>1
<1>3. m.kind # "user" => \A id : Asked(ms, id) => Asked(ns, id)
    <2> SUFFICES ASSUME m.kind # "user", NEW id, Asked(ms, id) PROVE Asked(ns, id)
        OBVIOUS
    <2>1. PICK j \in 1..Len(ms) : /\ ms[j].kind = "assistant" /\ id \in ms[j].ids
                                  /\ \A k \in j..Len(ms) : ms[k].kind # "user"
        BY <1>2 DEF Asked
    <2>2. \A k \in j..(Len(ms) + 1) : ns[k].kind # "user"
        <3> SUFFICES ASSUME NEW k \in j..(Len(ms) + 1) PROVE ns[k].kind # "user"
            OBVIOUS
        <3>1. CASE k = Len(ms) + 1
            BY <1>2, <3>1
        <3>2. CASE k # Len(ms) + 1
            <4>1. k \in 1..Len(ms) /\ k \in j..Len(ms)
                BY <1>2, <3>2
            <4> QED
                BY <1>2, <2>1, <4>1
        <3> QED
            BY <3>1, <3>2
    <2>3. j \in DOMAIN ns /\ ns[j] = ms[j]
        BY <1>2
    <2> QED
        BY <1>2, <2>1, <2>2, <2>3 DEF Asked
<1>4. m.kind = "assistant" => \A id \in m.ids : Asked(ns, id)
    <2> SUFFICES ASSUME m.kind = "assistant", NEW id \in m.ids PROVE Asked(ns, id)
        OBVIOUS
    <2>1. Len(ms) + 1 \in DOMAIN ns /\ \A k \in (Len(ms) + 1)..Len(ns) : ns[k] = m
        BY <1>2
    <2> QED
        BY <1>2, <2>1 DEF Asked
<1>5. ns[1].kind = "user"
    <2>1. CASE ms = <<>>
        BY <1>2, <2>1
    <2>2. CASE ms # <<>>
        <3>1. 1 \in 1..Len(ms)
            BY <1>2, <2>2
        <3> QED
            BY <1>2, <2>2, <3>1 DEF MessagesOK
    <2> QED
        BY <2>1, <2>2
<1>6. ASSUME NEW i \in DOMAIN ns, ns[i].kind = "result"
      PROVE  \E j \in 1..i - 1 : /\ ns[j].kind = "assistant" /\ ns[i].ids \subseteq ns[j].ids
                                 /\ \A k \in j..i : ns[k].kind # "user"
    <2>1. CASE i \in 1..Len(ms)
        <3>1. ms[i].kind = "result" /\ ns[i] = ms[i]
            BY <1>2, <1>6, <2>1
        <3>2. PICK j \in 1..i - 1 : /\ ms[j].kind = "assistant" /\ ms[i].ids \subseteq ms[j].ids
                                    /\ \A k \in j..i : ms[k].kind # "user"
            BY <1>2, <2>1, <3>1 DEF MessagesOK
        <3>3. j \in 1..Len(ms) /\ \A k \in j..i : k \in 1..Len(ms)
            BY <1>2, <2>1
        <3> QED
            BY <1>2, <3>1, <3>2, <3>3
    <2>2. CASE i = Len(ms) + 1
        <3>1. PICK id : m.ids = {id} /\ Asked(ms, id)
            BY <1>2, <1>6, <2>2
        <3>2. PICK j \in 1..Len(ms) : /\ ms[j].kind = "assistant" /\ id \in ms[j].ids
                                      /\ \A k \in j..Len(ms) : ms[k].kind # "user"
            BY <1>2, <3>1 DEF Asked
        <3>3. j \in 1..i - 1 /\ ns[j] = ms[j] /\ ns[i].ids \subseteq ns[j].ids
            BY <1>2, <2>2, <3>1, <3>2
        <3>4. ASSUME NEW k \in j..i PROVE ns[k].kind # "user"
            <4>1. CASE k = i
                BY <1>6, <4>1
            <4>2. CASE k # i
                <5>1. k \in 1..Len(ms) /\ k \in j..Len(ms)
                    BY <1>2, <2>2, <4>2
                <5> QED
                    BY <1>2, <3>2, <5>1
            <4> QED
                BY <4>1, <4>2
        <3> QED
            BY <3>2, <3>3, <3>4
    <2> QED
        BY <1>2, <2>1, <2>2
<1> QED
    BY <1>1, <1>2, <1>3, <1>4, <1>5, <1>6 DEF MessagesOK

\* What is left to show of a step that neither opens nor answers a question to
\* the user, changes no file and leaves the run where it answers or awaits calls.
LEMMA StepInside ==
    ASSUME SessionInv, NEW r \in Tasks, task[r].pc \notin {"unsent", "spawned", "done"},
           NEW u \in TaskType, task' = [task EXCEPT ![r] = u], RunOK(u)',
           u.pc \notin {"unsent", "spawned", "done", "write"}, u.told = task[r].told,
           u.outcome = "cancelled" => r \in cancelled,
           Describes(r, u)', control'.deferred = control.deferred, control' \in Controls,
           approvals' = Awaits(u, "approval"), pending' = Awaits(u, "proxy"),
           (u.pc = "approval" /\ u.answer = "approve") \/ u.pc \in {"precheck", "check"}
                => Head(u.todo) \in ghost.approved,
           messages' \in Seq(MessageType), MessagesOK(messages'), messages' # <<>>,
           u.pc \in Calling => \A n \in DOMAIN u.todo : Asked(messages', u.todo[n]),
           calls' \in Nat, calls <= calls',
           snap' \in [Paths -> Versions], \A p \in Paths : snap'[p] \in ghost'.seen,
           ghost' \in Ghosts, ghost'.approved = ghost.approved, ghost'.imposed = ghost.imposed,
           ghost'.lost = ghost.lost, ghost'.stopped = ghost.stopped, ghost.seen \subseteq ghost'.seen,
           UNCHANGED <<cancelled, registered, disk, version, ui>>
    PROVE  SessionInv'
<1>1. /\ Shared /\ ui # "idle" /\ task \in [Tasks -> TaskType]
      /\ Foreground(r, task[r]) /\ \A s \in Tasks \ {r} : Quiet(s, task[s])
    BY BusyAlone
<1>2. calls \in Nat /\ ghost.approved \subseteq 1..calls'
    BY <1>1 DEF Shared
<1>3. Shared'
    BY <1>1, <1>2 DEF Shared, MessagesOK
<1>4. Running(u) /\ Running(task[r])
    BY DEF Running
<1>5. r \in ghost.stopped => control.deferred
    BY <1>1, <1>4 DEF Foreground, Running
<1>6. ~task[r].told
    BY <1>1 DEF Foreground
<1>7. Foreground(r, u)'
    BY <1>4, <1>5, <1>6 DEF Foreground, Running, Describes, RunOK, Awaits, Asked
<1> QED
    BY <1>1, <1>2, <1>3, <1>7, StepAlone

\* The control block while a run streams.
Streams(c) == c \in Controls /\ c.status = "Streaming" /\ c.token = control.token /\ c.deferred = control.deferred

\* What the busy run r is known to be, taken apart.
LEMMA RunFacts ==
    ASSUME SessionInv, NEW r \in Tasks, task[r].pc \notin {"unsent", "spawned", "done"}
    PROVE  /\ task[r] \in TaskType /\ RunOK(task[r]) /\ Describes(r, task[r]) /\ control \in Controls
           /\ messages \in Seq(MessageType) /\ MessagesOK(messages) /\ messages # <<>>
           /\ approvals = Awaits(task[r], "approval") /\ pending = Awaits(task[r], "proxy")
           /\ task[r].outcome = "cancelled" => r \in cancelled
           /\ task[r].pc \in Calling => \A n \in DOMAIN task[r].todo : Asked(messages, task[r].todo[n])
           /\ calls \in Nat /\ ghost \in Ghosts /\ 0 \in ghost.seen /\ Draft \in ghost.seen
           /\ snap \in [Paths -> Versions] /\ \A p \in Paths : snap[p] \in ghost.seen
           /\ disk \in [Paths -> Versions]
           /\ task[r].pc \notin Gated => Streams(control)
<1>1. /\ Shared /\ task[r] \in TaskType /\ Foreground(r, task[r])
    BY BusyAlone
<1>2. Running(task[r])
    BY DEF Running
<1>3. Describes(r, task[r]) /\ messages # <<>> /\ control \in Controls
    BY <1>1, <1>2 DEF Foreground, Shared
<1>4. task[r].pc \notin Gated => Streams(control)
    BY <1>3 DEF Describes, Controls, Streams, Gated
<1> QED
    BY <1>1, <1>3, <1>4 DEF Foreground, Shared

\* The run ends, while the session streams or returns to it.
LEMMA EndRun ==
    ASSUME SessionInv, NEW r \in Tasks, task[r].pc \notin {"unsent", "spawned", "done"},
           NEW o \in Outcomes, o = "cancelled" => r \in cancelled,
           task' = [task EXCEPT ![r] = Finish(task[r], o)], Streams(control'), approvals' = {}, pending' = {},
           messages' \in Seq(MessageType), MessagesOK(messages'), messages' # <<>>,
           UNCHANGED <<calls, snap, ghost, cancelled, registered, disk, version, ui>>
    PROVE  SessionInv'
<1>1. /\ task[r] \in TaskType /\ Describes(r, task[r]) /\ calls \in Nat /\ ghost \in Ghosts /\ 0 \in ghost.seen
      /\ snap \in [Paths -> Versions] /\ \A p \in Paths : snap[p] \in ghost.seen
    BY RunFacts
<1>2. PICK u : u = Finish(task[r], o)
    OBVIOUS
<1>3. /\ u \in TaskType /\ u.pc = "finish" /\ u.outcome = o /\ u.plan = NoPlan
      /\ u.todo = <<>> /\ u.answer = "none" /\ u.told = task[r].told
    BY <1>1, <1>2, FinishFacts
<1>4. RunOK(u)'
    BY <1>1, <1>3, RestTyped DEF RunOK, Calling, Gated
<1>5. Describes(r, u)' /\ control' \in Controls /\ control'.deferred = control.deferred
    BY <1>1, <1>3 DEF Describes, Streams, Gated
<1>6. Awaits(u, "approval") = {} /\ Awaits(u, "proxy") = {} /\ u.pc \notin Calling
    BY <1>3 DEF Awaits, Calling
<1>7. task' = [task EXCEPT ![r] = u] /\ calls' \in Nat /\ calls <= calls'
    BY <1>1, <1>2
<1> QED
    BY <1>1, <1>3, <1>4, <1>5, <1>6, <1>7, StepInside

\* The call under way is answered, while the session streams or returns to it.
LEMMA AnswerRun ==
    ASSUME SessionInv, NEW r \in Tasks, task[r].pc \in Calling, Answer(r),
           Streams(control'), approvals' = {}, pending' = {},
           snap' \in [Paths -> Versions], \A p \in Paths : snap'[p] \in ghost'.seen,
           ghost' \in Ghosts, ghost'.approved = ghost.approved, ghost'.imposed = ghost.imposed,
           ghost'.lost = ghost.lost, ghost'.stopped = ghost.stopped, ghost.seen \subseteq ghost'.seen,
           UNCHANGED <<calls, cancelled, registered, disk, version, ui>>
    PROVE  SessionInv'
<1>1. task[r].pc \notin {"unsent", "spawned", "done"}
    BY DEF Calling
<1>2. /\ task[r] \in TaskType /\ RunOK(task[r]) /\ Describes(r, task[r]) /\ calls \in Nat
      /\ messages \in Seq(MessageType) /\ MessagesOK(messages) /\ messages # <<>>
      /\ \A n \in DOMAIN task[r].todo : Asked(messages, task[r].todo[n])
      /\ task[r].outcome = "cancelled" => r \in cancelled
      /\ 0 \in ghost.seen
    BY <1>1, RunFacts
<1>3. task[r].todo # <<>> /\ task[r].todo \in Seq(Nat)
    BY <1>2 DEF RunOK, TaskType
<1>4. /\ Head(task[r].todo) \in Nat /\ 1 \in DOMAIN task[r].todo /\ Head(task[r].todo) = task[r].todo[1]
    BY <1>3
<1>5. PICK u : u = Answered(task[r])
    OBVIOUS
<1>6. /\ u \in TaskType /\ u.told = task[r].told /\ u.plan = NoPlan /\ u.answer = "none"
      /\ u.pc \in {"call", "connect", "finish"} /\ u.outcome \in {task[r].outcome, "limit"}
      /\ u.pc = "call" => u.todo # <<>>
      /\ \A k \in DOMAIN u.todo : \E j \in DOMAIN task[r].todo : u.todo[k] = task[r].todo[j]
    BY <1>2, <1>3, <1>5, AnsweredFacts
<1>7. PICK m : m = Result(task[r])
    OBVIOUS
<1>8. m \in MessageType /\ m.kind = "result" /\ m.ids = {Head(task[r].todo)}
    BY <1>4, <1>7 DEF Result, MessageType
<1>9. /\ task' = [task EXCEPT ![r] = u] /\ messages' = Append(messages, m)
    BY <1>5, <1>7 DEF Answer
<1>10. /\ messages' \in Seq(MessageType) /\ MessagesOK(messages') /\ messages' # <<>>
       /\ \A id : Asked(messages, id) => Asked(messages', id)
    <2>1. \E id : m.ids = {id} /\ Asked(messages, id)
        BY <1>2, <1>4, <1>8
    <2>2. PICK ms \in Seq(MessageType) : ms = messages
        BY <1>2
    <2>3. /\ Append(ms, m) \in Seq(MessageType) /\ MessagesOK(Append(ms, m)) /\ Append(ms, m) # <<>>
          /\ \A id : Asked(ms, id) => Asked(Append(ms, m), id)
        BY <1>2, <1>8, <2>1, <2>2, AppendMessage
    <2> QED
        BY <1>9, <2>2, <2>3
<1>11. RunOK(u)'
    <2>1. \A k \in DOMAIN u.todo : u.todo[k] \in 1..calls
        BY <1>2, <1>6 DEF RunOK
    <2> QED
        BY <1>2, <1>6, <2>1, RestTyped DEF RunOK, Calling, Gated
<1>12. Describes(r, u)' /\ control' \in Controls /\ control'.deferred = control.deferred
    BY <1>2, <1>6 DEF Describes, Streams, Gated
<1>13. Awaits(u, "approval") = {} /\ Awaits(u, "proxy") = {}
    BY <1>6 DEF Awaits
<1>14. \A n \in DOMAIN u.todo : Asked(messages', u.todo[n])
    BY <1>2, <1>6, <1>10
<1>15. u.outcome = "cancelled" => r \in cancelled
    BY <1>2, <1>6
<1>16. u.pc \notin {"unsent", "spawned", "done", "write", "approval", "precheck", "check"}
       /\ calls' \in Nat /\ calls <= calls'
    BY <1>2, <1>6
<1> QED
    BY <1>1, <1>6, <1>9, <1>10, <1>11, <1>12, <1>13, <1>14, <1>15, <1>16, StepInside

\* The run connects, and the stream ends one way or another.
LEMMA StreamSession ==
    ASSUME SessionInv, NEW r \in Tasks, Connect(r) \/ Stream(r)
    PROVE  SessionInv'
<1>1. task[r].pc \in {"connect", "stream"}
    BY DEF Connect, Stream
<1>2. /\ task[r] \in TaskType /\ RunOK(task[r]) /\ Describes(r, task[r]) /\ control \in Controls
      /\ messages \in Seq(MessageType) /\ MessagesOK(messages) /\ messages # <<>>
      /\ approvals = Awaits(task[r], "approval") /\ pending = Awaits(task[r], "proxy")
      /\ task[r].outcome = "cancelled" => r \in cancelled
      /\ calls \in Nat /\ ghost \in Ghosts
      /\ snap \in [Paths -> Versions] /\ \A p \in Paths : snap[p] \in ghost.seen
      /\ task[r].pc \notin Gated => Streams(control)
    BY <1>1, RunFacts
<1>3. approvals = {} /\ pending = {} /\ Streams(control)
    BY <1>1, <1>2 DEF Awaits, Gated
<1>4. UNCHANGED <<control, cancelled, approvals, pending, snap, registered, disk, version, ui, ghost>>
    BY DEF Connect, Stream, session, vault
<1>5. ASSUME NEW o \in {"error", "stop", "cancelled"}, o = "cancelled" => r \in cancelled,
             task' = [task EXCEPT ![r] = Finish(@, o)], UNCHANGED calls,
             messages' \in {messages, Append(messages, [kind |-> "assistant", ids |-> {}])}
      PROVE  SessionInv'
    <2>1. PICK m : m = [kind |-> "assistant", ids |-> {}]
        OBVIOUS
    <2>2. m \in MessageType /\ m.kind = "assistant"
        BY <2>1 DEF MessageType
    <2>3. Append(messages, m) \in Seq(MessageType) /\ MessagesOK(Append(messages, m)) /\ Append(messages, m) # <<>>
        BY <1>2, <2>2, AppendMessage
    <2>4. messages' \in Seq(MessageType) /\ MessagesOK(messages') /\ messages' # <<>>
        BY <1>2, <1>5, <2>1, <2>3
    <2>5. o \in Outcomes /\ Streams(control')
        BY <1>3, <1>4 DEF Outcomes
    <2> QED
        BY <1>1, <1>3, <1>4, <1>5, <2>4, <2>5, EndRun
<1>6. ASSUME task' = [task EXCEPT ![r].pc = "stream"], UNCHANGED <<messages, calls>> PROVE SessionInv'
    <2>1. PICK u : u = [task[r] EXCEPT !.pc = "stream"]
        OBVIOUS
    <2>2. "stream" \in Pcs
        BY DEF Pcs
    <2>3. /\ u \in TaskType /\ u.pc = "stream" /\ u.todo = task[r].todo /\ u.plan = task[r].plan
          /\ u.answer = task[r].answer /\ u.outcome = task[r].outcome /\ u.told = task[r].told
        BY <1>2, <2>1, <2>2, MovedTo
    <2>4. RunOK(u)'
        BY <1>1, <1>2, <1>4, <1>6, <2>3 DEF RunOK, Calling, Gated
    <2>5. Describes(r, u)'
        BY <1>1, <1>2, <1>4, <2>3 DEF Describes, Gated
    <2>6. approvals' = Awaits(u, "approval") /\ pending' = Awaits(u, "proxy") /\ u.pc \notin Calling
        BY <1>3, <1>4, <2>3 DEF Awaits, Calling
    <2>7. task' = [task EXCEPT ![r] = u] /\ calls' \in Nat /\ calls <= calls'
        BY <1>2, <1>6, <2>1
    <2> QED
        BY <1>1, <1>2, <1>4, <1>6, <2>3, <2>4, <2>5, <2>6, <2>7, StepInside
<1>7. ASSUME NEW n \in 1..MaxCalls - calls,
             task' = [task EXCEPT ![r].pc = "call", ![r].todo = [i \in 1..n |-> calls + i]],
             messages' = Append(messages, [kind |-> "assistant", ids |-> calls + 1..calls + n]),
             calls' = calls + n
      PROVE  SessionInv'
    <2>1. PICK ids : ids = [i \in 1..n |-> calls + i]
        OBVIOUS
    <2>2. /\ n \in Nat \ {0} /\ ids \in Seq(Nat) /\ ids # <<>> /\ DOMAIN ids = 1..n
          /\ \A k \in 1..n : ids[k] \in 1..calls + n /\ ids[k] \in calls + 1..calls + n
        <3>1. n \in Nat \ {0} /\ calls \in Nat
            BY <1>2, SessionAssumption
        <3>2. ids \in [1..n -> Nat]
            BY <2>1, <3>1
        <3>3. ids \in Seq(Nat)
            BY <3>1, <3>2
        <3>4. 1 \in DOMAIN ids /\ DOMAIN <<>> = {}
            BY <3>1, <3>2
        <3> QED
            BY <2>1, <3>1, <3>2, <3>3, <3>4
    <2>3. PICK u : u = [task[r] EXCEPT !.pc = "call", !.todo = ids]
        OBVIOUS
    <2>4. "call" \in Pcs
        BY DEF Pcs
    <2>5. /\ u \in TaskType /\ u.pc = "call" /\ u.todo = ids /\ u.plan = task[r].plan
          /\ u.answer = task[r].answer /\ u.outcome = task[r].outcome /\ u.told = task[r].told
        BY <1>2, <2>2, <2>3, <2>4, Zenon DEF TaskType
    <2>6. task' = [task EXCEPT ![r] = u]
        BY <1>7, <2>1, <2>3, Zenon
    <2>7. PICK m : m = [kind |-> "assistant", ids |-> calls + 1..calls + n]
        OBVIOUS
    <2>8. m \in MessageType /\ m.kind = "assistant" /\ m.ids = calls + 1..calls + n
        BY <1>2, <2>2, <2>7 DEF MessageType
    <2>9. /\ Append(messages, m) \in Seq(MessageType) /\ MessagesOK(Append(messages, m)) /\ Append(messages, m) # <<>>
          /\ \A id \in m.ids : Asked(Append(messages, m), id)
        BY <1>2, <2>8, AppendMessage
    <2>10. /\ messages' \in Seq(MessageType) /\ MessagesOK(messages') /\ messages' # <<>>
           /\ \A k \in DOMAIN u.todo : Asked(messages', u.todo[k])
        BY <1>7, <2>2, <2>5, <2>7, <2>8, <2>9
    <2>11. RunOK(u)'
        BY <1>1, <1>2, <1>4, <1>7, <2>2, <2>5 DEF RunOK, Calling, Gated
    <2>12. Describes(r, u)'
        BY <1>1, <1>2, <1>4, <2>5 DEF Describes, Gated
    <2>13. approvals' = Awaits(u, "approval") /\ pending' = Awaits(u, "proxy")
        BY <1>3, <1>4, <2>5 DEF Awaits
    <2>14. calls' \in Nat /\ calls <= calls'
        BY <1>2, <1>7, <2>2
    <2> QED
        BY <1>1, <1>2, <1>4, <2>5, <2>6, <2>10, <2>11, <2>12, <2>13, <2>14, StepInside
<1>8. CASE Connect(r)
    BY <1>5, <1>6, <1>8 DEF Connect
<1>9. CASE Stream(r)
    BY <1>5, <1>7, <1>9 DEF Stream
<1> QED
    BY <1>8, <1>9

\* A tool fails, or reads a file.
LEMMA ToolSession ==
    ASSUME SessionInv, NEW r \in Tasks, FailingTool(r) \/ \E p \in Paths : ReadFile(r, p)
    PROVE  SessionInv'
<1>1. task[r].pc = "call" /\ Answer(r)
    BY DEF FailingTool, ReadFile
<1>2. /\ task[r].pc \in Calling /\ task[r].pc \notin {"unsent", "spawned", "done"} \cup Gated
    BY <1>1 DEF Calling, Gated
<1>3. /\ approvals = Awaits(task[r], "approval") /\ pending = Awaits(task[r], "proxy") /\ ghost \in Ghosts
      /\ snap \in [Paths -> Versions] /\ \A p \in Paths : snap[p] \in ghost.seen
      /\ disk \in [Paths -> Versions] /\ Streams(control)
    BY <1>2, RunFacts
<1>4. approvals = {} /\ pending = {}
    BY <1>1, <1>3 DEF Awaits
<1>5. CASE FailingTool(r)
    BY <1>1, <1>2, <1>3, <1>4, <1>5, AnswerRun DEF FailingTool, session, vault
<1>6. ASSUME NEW p \in Paths, ReadFile(r, p) PROVE SessionInv'
    <2>1. /\ snap' = [snap EXCEPT ![p] = disk[p]] /\ ghost' = [ghost EXCEPT !.seen = @ \cup {disk[p]}]
          /\ UNCHANGED <<control, cancelled, approvals, pending, registered, calls, disk, version, ui>>
        BY <1>6 DEF ReadFile, vault
    <2>2. ghost.seen \cup {disk[p]} \in SUBSET Versions
        BY <1>3 DEF Ghosts
    <2>3. /\ ghost' \in Ghosts /\ ghost'.seen = ghost.seen \cup {disk[p]} /\ ghost'.approved = ghost.approved
          /\ ghost'.imposed = ghost.imposed /\ ghost'.lost = ghost.lost /\ ghost'.stopped = ghost.stopped
        BY <1>3, <2>1, <2>2, Zenon DEF Ghosts
    <2>4. snap' \in [Paths -> Versions] /\ \A q \in Paths : snap'[q] \in ghost'.seen
        BY <1>3, <2>1, <2>3
    <2>5. Streams(control') /\ ghost.seen \subseteq ghost'.seen
        BY <1>3, <2>1, <2>3
    <2> QED
        BY <1>1, <1>2, <1>4, <2>1, <2>3, <2>4, <2>5, AnswerRun
<1> QED
    BY <1>5, <1>6

\* What a tool proposes is a plan, with contents the session has seen.
LEMMA ProposalFacts ==
    ASSUME NEW t, snap \in [Paths -> Versions], NEW plan \in Proposals(t)
    PROVE  /\ plan \in Plans /\ plan.op # "none" /\ plan.content \in {0, Draft}
           /\ plan.expected = 0 \/ \E p \in Paths : plan.expected = snap[p]
<1>1. 0 \in Versions /\ Draft \in Versions
    BY RestTyped
<1>2. \/ \E p \in Paths : plan = [op |-> "replace", path |-> p, to |-> p, content |-> Draft, expected |-> snap[p]]
      \/ \E p \in Paths : plan = [op |-> "create", path |-> p, to |-> p, content |-> Draft, expected |-> 0]
      \/ \E p \in Paths : plan = [op |-> "delete", path |-> p, to |-> p, content |-> 0, expected |-> snap[p]]
      \/ \E pq \in Paths \X Paths :
            plan = [op |-> "rename", path |-> pq[1], to |-> pq[2], content |-> 0, expected |-> 0]
    BY DEF Proposals
<1>3. CASE \E p \in Paths : plan = [op |-> "replace", path |-> p, to |-> p, content |-> Draft, expected |-> snap[p]]
    BY <1>1, <1>3 DEF Plans
<1>4. CASE \E p \in Paths : plan = [op |-> "create", path |-> p, to |-> p, content |-> Draft, expected |-> 0]
    BY <1>1, <1>4 DEF Plans
<1>5. CASE \E p \in Paths : plan = [op |-> "delete", path |-> p, to |-> p, content |-> 0, expected |-> snap[p]]
    BY <1>1, <1>5 DEF Plans
<1>6. CASE \E pq \in Paths \X Paths :
            plan = [op |-> "rename", path |-> pq[1], to |-> pq[2], content |-> 0, expected |-> 0]
    BY <1>1, <1>6 DEF Plans
<1> QED
    BY <1>2, <1>3, <1>4, <1>5, <1>6

\* The run asks the user about a plan.
LEMMA ProposeSession ==
    ASSUME SessionInv, NEW r \in Tasks, NEW plan \in Proposals(task[r]), Propose(r, plan)
    PROVE  SessionInv'
<1>1. /\ task[r].pc = "call"
      /\ approvals' = approvals \cup {Head(task[r].todo)}
      /\ control' = [control EXCEPT !.status = "AwaitingApproval"]
      /\ task' = [task EXCEPT ![r].pc = "approval", ![r].plan = plan]
      /\ UNCHANGED <<cancelled, pending, messages, snap, registered, calls, disk, version, ui, ghost>>
    BY DEF Propose, vault
<1>2. /\ task[r] \in TaskType /\ RunOK(task[r]) /\ Describes(r, task[r]) /\ control \in Controls
      /\ messages \in Seq(MessageType) /\ MessagesOK(messages) /\ messages # <<>>
      /\ approvals = Awaits(task[r], "approval") /\ pending = Awaits(task[r], "proxy")
      /\ task[r].outcome = "cancelled" => r \in cancelled
      /\ task[r].pc \in Calling => \A n \in DOMAIN task[r].todo : Asked(messages, task[r].todo[n])
      /\ calls \in Nat /\ ghost \in Ghosts /\ 0 \in ghost.seen /\ Draft \in ghost.seen
      /\ snap \in [Paths -> Versions] /\ \A p \in Paths : snap[p] \in ghost.seen
    BY <1>1, RunFacts
<1>3. /\ plan \in Plans /\ plan.op # "none" /\ plan.content \in ghost.seen /\ plan.expected \in ghost.seen
    BY <1>2, ProposalFacts
<1>4. PICK u : u = [task[r] EXCEPT !.pc = "approval", !.plan = plan]
    OBVIOUS
<1>5. "approval" \in Pcs
    BY DEF Pcs
<1>6. /\ u \in TaskType /\ u.pc = "approval" /\ u.plan = plan /\ u.todo = task[r].todo
      /\ u.answer = task[r].answer /\ u.outcome = task[r].outcome /\ u.told = task[r].told
    BY <1>2, <1>3, <1>4, <1>5, Zenon DEF TaskType
<1>7. task' = [task EXCEPT ![r] = u]
    BY <1>1, <1>4, Zenon
<1>8. u.answer = "none" /\ u.todo # <<>> /\ approvals = {} /\ pending = {}
    BY <1>1, <1>2, <1>6 DEF RunOK, Calling, Awaits
<1>9. RunOK(u)'
    BY <1>1, <1>2, <1>3, <1>6, <1>8 DEF RunOK, Calling, Gated
<1>10. Describes(r, u)' /\ control' \in Controls /\ control'.deferred = control.deferred
    BY <1>1, <1>2, <1>6 DEF Describes, Controls, Gated
<1>11. approvals' = Awaits(u, "approval") /\ pending' = Awaits(u, "proxy")
    BY <1>1, <1>6, <1>8 DEF Awaits
<1>12. \A n \in DOMAIN u.todo : Asked(messages', u.todo[n])
    BY <1>1, <1>2, <1>6 DEF Calling
<1>13. calls' \in Nat /\ calls <= calls'
    BY <1>1, <1>2
<1> QED
    BY <1>1, <1>2, <1>6, <1>7, <1>8, <1>9, <1>10, <1>11, <1>12, <1>13, StepInside

\* A step of a run that is gated: it goes on to another place where it is so, with
\* the status that goes with it.
LEMMA GatedStep ==
    ASSUME SessionInv, NEW r \in Tasks, task[r].pc \in Gated, task[r].pc = "approval" => task[r].answer = "approve",
           NEW u \in TaskType, task' = [task EXCEPT ![r] = u],
           u.pc \in {"precheck", "check", "result", "restore"}, u.todo = task[r].todo, u.plan = task[r].plan,
           u.told = task[r].told, u.outcome = "cancelled" => r \in cancelled,
           u.pc \in {"precheck", "check"} => task[r].pc \in {"approval", "precheck"},
           control' \in Controls, control'.status = "Applying", control'.token = control.token,
           control'.deferred = control.deferred,
           snap' \in [Paths -> Versions], \A p \in Paths : snap'[p] \in ghost.seen,
           UNCHANGED <<cancelled, approvals, pending, messages, registered, calls, disk, version, ui, ghost>>
    PROVE  SessionInv'
<1>1. task[r].pc \notin {"unsent", "spawned", "done"} /\ task[r].pc \in Calling
    BY DEF Gated, Calling
<1>2. /\ task[r] \in TaskType /\ RunOK(task[r]) /\ Describes(r, task[r])
      /\ messages \in Seq(MessageType) /\ MessagesOK(messages) /\ messages # <<>>
      /\ approvals = Awaits(task[r], "approval") /\ pending = Awaits(task[r], "proxy")
      /\ \A n \in DOMAIN task[r].todo : Asked(messages, task[r].todo[n])
      /\ calls \in Nat /\ ghost \in Ghosts
    BY <1>1, RunFacts
<1>3. Foreground(r, task[r])
    BY <1>1, BusyAlone
<1>4. u.pc \in {"precheck", "check"} => Head(u.todo) \in ghost.approved
    BY <1>3 DEF Foreground
<1>5. RunOK(u)'
    BY <1>1, <1>2 DEF RunOK, Calling, Gated
<1>6. Describes(r, u)'
    BY <1>2 DEF Describes, Gated
<1>7. approvals' = Awaits(u, "approval") /\ pending' = Awaits(u, "proxy")
    BY <1>2 DEF Awaits, Gated
<1>8. \A n \in DOMAIN u.todo : Asked(messages', u.todo[n])
    BY <1>2
<1>9. calls' \in Nat /\ calls <= calls'
    BY <1>2
<1> QED
    BY <1>1, <1>2, <1>4, <1>5, <1>6, <1>7, <1>8, <1>9, StepInside

\* The user's decision, or the cancellation that comes instead.
LEMMA DecideSession ==
    ASSUME SessionInv, NEW r \in Tasks, Decide(r)
    PROVE  SessionInv'
<1>1. /\ task[r].pc = "approval"
      /\ UNCHANGED <<cancelled, pending, snap, registered, calls, disk, version, ui, ghost>>
    BY DEF Decide, vault
<1>2. task[r].pc \notin {"unsent", "spawned", "done"} /\ task[r].pc \in Calling /\ task[r].pc \in Gated
    BY <1>1 DEF Calling, Gated
<1>3. /\ task[r] \in TaskType /\ control \in Controls /\ ghost \in Ghosts
      /\ messages \in Seq(MessageType) /\ MessagesOK(messages) /\ messages # <<>>
      /\ approvals = Awaits(task[r], "approval") /\ pending = Awaits(task[r], "proxy")
      /\ task[r].outcome = "cancelled" => r \in cancelled
      /\ snap \in [Paths -> Versions] /\ \A p \in Paths : snap[p] \in ghost.seen
    BY <1>2, RunFacts
<1>4. pending = {} /\ approvals \subseteq {Head(task[r].todo)} /\ (task[r].answer # "none" => approvals = {})
    BY <1>1, <1>3 DEF Awaits
<1>5. control' = [control EXCEPT !.status = "Streaming"] => Streams(control')
    BY <1>3 DEF Streams, Controls
<1>6. ASSUME r \in cancelled, approvals' = approvals \ {Head(task[r].todo)},
             control' = [control EXCEPT !.status = "Streaming"],
             task' = [task EXCEPT ![r] = Finish(@, "cancelled")], UNCHANGED messages
      PROVE  SessionInv'
    <2>1. "cancelled" \in Outcomes /\ approvals' = {}
        BY <1>4, <1>6 DEF Outcomes
    <2> QED
        BY <1>1, <1>2, <1>3, <1>4, <1>5, <1>6, <2>1, EndRun
<1>7. ASSUME task[r].answer = "reject", control' = [control EXCEPT !.status = "Streaming"], Answer(r),
             UNCHANGED approvals
      PROVE  SessionInv'
    BY <1>1, <1>2, <1>3, <1>4, <1>5, <1>7, AnswerRun
<1>8. ASSUME task[r].answer = "approve", control' = [control EXCEPT !.status = "Applying"],
             task' = [task EXCEPT ![r].pc = "precheck"], UNCHANGED <<approvals, messages>>
      PROVE  SessionInv'
    <2>1. PICK u : u = [task[r] EXCEPT !.pc = "precheck"]
        OBVIOUS
    <2>2. "precheck" \in Pcs
        BY DEF Pcs
    <2>3. /\ u \in TaskType /\ u.pc = "precheck" /\ u.todo = task[r].todo /\ u.plan = task[r].plan
          /\ u.outcome = task[r].outcome /\ u.told = task[r].told
        BY <1>3, <2>1, <2>2, MovedTo
    <2>4. task' = [task EXCEPT ![r] = u]
        BY <1>8, <2>1
    <2>5. /\ control' \in Controls /\ control'.status = "Applying" /\ control'.token = control.token
          /\ control'.deferred = control.deferred
        BY <1>3, <1>8 DEF Controls
    <2> QED
        BY <1>1, <1>2, <1>3, <1>8, <2>3, <2>4, <2>5, GatedStep
<1> QED
    BY <1>6, <1>7, <1>8 DEF Decide

\* A step of a run that is applying a change, to another place where it does so.
LEMMA ApplyStep ==
    ASSUME SessionInv, NEW r \in Tasks, NEW c \in {"check", "result", "restore"},
           task[r].pc \in {"precheck", "check"}, c = "check" => task[r].pc = "precheck",
           task' = [task EXCEPT ![r].pc = c],
           UNCHANGED <<session, messages, registered, calls, vault, ui, ghost>>
    PROVE  SessionInv'
<1>1. task[r].pc \notin {"unsent", "spawned", "done"} /\ task[r].pc \in Gated \ {"approval"}
    BY DEF Gated
<1>2. /\ task[r] \in TaskType /\ control \in Controls /\ Describes(r, task[r])
      /\ task[r].outcome = "cancelled" => r \in cancelled
      /\ snap \in [Paths -> Versions] /\ \A p \in Paths : snap[p] \in ghost.seen
    BY <1>1, RunFacts
<1>3. PICK u : u = [task[r] EXCEPT !.pc = c]
    OBVIOUS
<1>4. c \in Pcs
    BY DEF Pcs
<1>5. /\ u \in TaskType /\ u.pc = c /\ u.todo = task[r].todo /\ u.plan = task[r].plan
      /\ u.outcome = task[r].outcome /\ u.told = task[r].told
    BY <1>2, <1>3, <1>4, MovedTo
<1>6. task' = [task EXCEPT ![r] = u]
    BY <1>3
<1>7. control.status = "Applying"
    BY <1>1, <1>2 DEF Describes
<1>8. UNCHANGED <<control, cancelled, approvals, pending, snap, disk, version>>
    BY DEF session, vault
<1> QED
    BY <1>1, <1>2, <1>5, <1>6, <1>7, <1>8, GatedStep

\* The first check of a change.
LEMMA PrecheckSession ==
    ASSUME SessionInv, NEW r \in Tasks, Precheck(r)
    PROVE  SessionInv'
<1>1. task[r].pc = "precheck" /\ UNCHANGED <<session, messages, registered, calls, vault, ui, ghost>>
    BY DEF Precheck
<1>2. \E c \in {"check", "result", "restore"} : task' = [task EXCEPT ![r].pc = c]
    BY DEF Precheck
<1> QED
    BY <1>1, <1>2, ApplyStep

\* The second check.  If it finds no conflict, what the change is about to destroy
\* is a content the session has seen.
LEMMA CheckSession ==
    ASSUME SessionInv, NEW r \in Tasks, GuardedCheck(r)
    PROVE  SessionInv'
<1>1. task[r].pc = "check" /\ UNCHANGED <<session, messages, registered, calls, vault, ui, ghost>>
    BY DEF GuardedCheck
<1>2. CASE Conflicts(task[r].plan)
    <2>1. task' = [task EXCEPT ![r].pc = "result"]
        BY <1>2 DEF GuardedCheck
    <2> QED
        BY <1>1, <2>1, ApplyStep
<1>3. CASE ~Conflicts(task[r].plan)
    <2>1. task' = [task EXCEPT ![r].pc = "write"]
        BY <1>3 DEF GuardedCheck
    <2>2. /\ Shared /\ ui # "idle" /\ task \in [Tasks -> TaskType] /\ task[r] \in TaskType
          /\ Foreground(r, task[r]) /\ \A s \in Tasks \ {r} : Quiet(s, task[s])
        BY <1>1, BusyAlone
    <2>3. PICK u : u = [task[r] EXCEPT !.pc = "write"]
        OBVIOUS
    <2>4. "write" \in Pcs
        BY DEF Pcs
    <2>5. /\ u \in TaskType /\ u.pc = "write" /\ u.todo = task[r].todo /\ u.plan = task[r].plan
          /\ u.answer = task[r].answer /\ u.outcome = task[r].outcome /\ u.told = task[r].told
        BY <2>2, <2>3, <2>4, MovedTo
    <2>6. task' = [task EXCEPT ![r] = u]
        BY <2>1, <2>3
    <2>7. /\ UNCHANGED <<control, cancelled, approvals, pending, snap, disk, version>>
          /\ UNCHANGED <<messages, registered, calls, ui, ghost>>
        BY <1>1 DEF session, vault
    <2>8. RunOK(u)'
        BY <1>1, <2>2, <2>5, <2>7 DEF Foreground, RunOK, Calling, Gated
    <2>9. Describes(r, u)' /\ messages' # <<>> /\ Running(u)
        BY <1>1, <2>2, <2>5, <2>7 DEF Foreground, Describes, Running, Gated
    <2>10. disk[Target(u.plan)] \in ghost.seen
        <3>1. /\ u.plan.op = "create" => disk[u.plan.path] = 0
              /\ u.plan.op = "rename" => disk[u.plan.to] = 0
              /\ u.plan.op \notin {"create", "rename"} => disk[u.plan.path] = u.plan.expected
            BY <1>3, <2>5 DEF Conflicts
        <3>2. 0 \in ghost.seen /\ u.plan.expected \in ghost.seen
            BY <2>2, <2>5 DEF Shared, Foreground, RunOK
        <3> QED
            BY <3>1, <3>2 DEF Target
    <2>11. approvals' = Awaits(u, "approval") /\ pending' = Awaits(u, "proxy")
        BY <1>1, <2>2, <2>5, <2>7 DEF Foreground, Awaits
    <2>12. Head(u.todo) \in ghost.approved /\ u.pc # "unsent" /\ u.pc # "done" /\ ~u.told
        BY <1>1, <2>2, <2>5 DEF Foreground
    <2>13. \A n \in DOMAIN u.todo : Asked(messages', u.todo[n])
        BY <1>1, <2>2, <2>5, <2>7 DEF Foreground, Calling
    <2>14. (u.outcome = "cancelled" => r \in cancelled) /\ (r \in ghost.stopped => control.deferred)
        BY <1>1, <2>2, <2>5 DEF Foreground
    <2>15. Foreground(r, u)'
        BY <2>5, <2>7, <2>8, <2>9, <2>10, <2>11, <2>12, <2>13, <2>14 DEF Foreground, Running, Describes, RunOK, Awaits, Asked
    <2>16. Shared'
        BY <2>2, <2>7 DEF Shared, MessagesOK
    <2>17. calls \in Nat /\ calls' \in Nat /\ calls <= calls'
        BY <2>2, <2>7 DEF Shared
    <2> QED
        BY <2>2, <2>5, <2>6, <2>7, <2>15, <2>16, <2>17, StepAlone
<1> QED
    BY <1>2, <1>3

\* The write: the user approved this very call, and what it destroys the session
\* had seen, unless someone wrote it after the check.
LEMMA WriteSession ==
    ASSUME SessionInv, NEW r \in Tasks, GuardedWrite(r)
    PROVE  SessionInv'
<1>1. task[r].pc = "write" /\ UNCHANGED <<session, messages, registered, calls, version, ui>>
    BY DEF GuardedWrite
<1>2. /\ Shared /\ ui # "idle" /\ task \in [Tasks -> TaskType] /\ task[r] \in TaskType
      /\ Foreground(r, task[r]) /\ \A s \in Tasks \ {r} : Quiet(s, task[s])
    BY <1>1, BusyAlone
<1>3. UNCHANGED <<control, cancelled, approvals, pending, snap, messages, registered, calls, version, ui>>
    BY <1>1 DEF session
<1>4. /\ Head(task[r].todo) \in ghost.approved /\ ghost \in Ghosts
      /\ disk[Target(task[r].plan)] \in ghost.seen \cup ghost.window
      /\ ghost.imposed = {} /\ ghost.lost = {} /\ disk \in [Paths -> Versions] /\ task[r].plan \in Plans
      /\ calls \in Nat
    BY <1>1, <1>2 DEF Foreground, Shared, TaskType
<1>5. /\ ghost' \in Ghosts /\ ghost'.imposed = {} /\ ghost'.lost = {} /\ ghost'.approved = ghost.approved
      /\ ghost'.seen = ghost.seen /\ ghost'.stopped = ghost.stopped
    <2>1. CASE ghost' = [ghost EXCEPT !.window = {}]
        BY <1>4, <2>1, Zenon DEF Ghosts
    <2>2. ASSUME ghost' = [ghost EXCEPT !.imposed = @ \cup ({Head(task[r].todo)} \ ghost.approved),
                             !.lost = @ \cup ({disk[Target(task[r].plan)]} \ (ghost.seen \cup ghost.window)),
                             !.window = {}]
          PROVE  /\ ghost' \in Ghosts /\ ghost'.imposed = {} /\ ghost'.lost = {} /\ ghost'.approved = ghost.approved
                 /\ ghost'.seen = ghost.seen /\ ghost'.stopped = ghost.stopped
        <3>1. /\ ghost.imposed \cup ({Head(task[r].todo)} \ ghost.approved) = {}
              /\ ghost.lost \cup ({disk[Target(task[r].plan)]} \ (ghost.seen \cup ghost.window)) = {}
            BY <1>4
        <3>2. {} \in SUBSET Versions /\ {} \in SUBSET Nat
            OBVIOUS
        <3>3. ghost' = [ghost EXCEPT !.imposed = {}, !.lost = {}, !.window = {}]
            BY <2>2, <3>1, Zenon
        <3> QED
            BY <1>4, <3>2, <3>3, Zenon DEF Ghosts
    <2> QED
        BY <2>1, <2>2 DEF GuardedWrite, Target
<1>6. disk' \in [Paths -> Versions]
    BY <1>4, RestTyped DEF GuardedWrite, Plans
<1>7. PICK u : /\ u \in {[task[r] EXCEPT !.pc = "result"], [task[r] EXCEPT !.pc = "result", !.landed = TRUE]}
               /\ task' = [task EXCEPT ![r] = u]
    <2>1. task' = [task EXCEPT ![r].pc = "result"] \/ task' = [task EXCEPT ![r].pc = "result", ![r].landed = TRUE]
        BY DEF GuardedWrite
    <2>2. CASE task' = [task EXCEPT ![r].pc = "result"]
        BY <2>2, Zenon
    <2>3. CASE task' = [task EXCEPT ![r].pc = "result", ![r].landed = TRUE]
        <3>1. task' = [task EXCEPT ![r] = [task[r] EXCEPT !.pc = "result", !.landed = TRUE]]
            BY <2>3, Zenon
        <3> QED
            BY <3>1, Zenon
    <2> QED
        BY <2>1, <2>2, <2>3
<1>8. /\ u \in TaskType /\ u.pc = "result" /\ u.todo = task[r].todo /\ u.plan = task[r].plan
      /\ u.answer = task[r].answer /\ u.outcome = task[r].outcome /\ u.told = task[r].told
    <2>1. "result" \in Pcs /\ TRUE \in BOOLEAN
        BY DEF Pcs
    <2>2. CASE u = [task[r] EXCEPT !.pc = "result"]
        BY <1>2, <2>1, <2>2, Zenon DEF TaskType
    <2>3. CASE u = [task[r] EXCEPT !.pc = "result", !.landed = TRUE]
        BY <1>2, <2>1, <2>3, Zenon DEF TaskType
    <2> QED
        BY <1>7, <2>2, <2>3
<1>9. RunOK(u)'
    BY <1>1, <1>2, <1>3, <1>5, <1>8 DEF Foreground, RunOK, Calling, Gated
<1>10. Describes(r, u)' /\ messages' # <<>> /\ Running(u)
    BY <1>1, <1>2, <1>3, <1>8 DEF Foreground, Describes, Running, Gated
<1>11. approvals' = Awaits(u, "approval") /\ pending' = Awaits(u, "proxy")
    BY <1>1, <1>2, <1>3, <1>8 DEF Foreground, Awaits
<1>12. \A n \in DOMAIN u.todo : Asked(messages', u.todo[n])
    BY <1>1, <1>2, <1>3, <1>8 DEF Foreground, Calling
<1>13. /\ ~u.told /\ (u.outcome = "cancelled" => r \in cancelled)
       /\ r \in ghost.stopped => control.deferred
    BY <1>1, <1>2, <1>8 DEF Foreground
<1>14. Foreground(r, u)'
    BY <1>3, <1>5, <1>8, <1>9, <1>10, <1>11, <1>12, <1>13 DEF Foreground, Running, Describes, RunOK, Awaits, Asked
<1>15. Shared'
    BY <1>2, <1>3, <1>5, <1>6 DEF Shared, MessagesOK
<1>16. calls' \in Nat /\ calls <= calls'
    BY <1>3, <1>4
<1> QED
    BY <1>2, <1>3, <1>4, <1>5, <1>7, <1>8, <1>14, <1>15, <1>16, StepAlone

\* The session remembers what it wrote.
LEMMA ResultSession ==
    ASSUME SessionInv, NEW r \in Tasks, TakeResult(r)
    PROVE  SessionInv'
<1>1. /\ task[r].pc = "result"
      /\ snap' = IF task[r].landed THEN Remembered(task[r].plan) ELSE snap
      /\ UNCHANGED <<control, cancelled, approvals, pending, messages, registered, calls, disk, version, ui, ghost>>
    BY DEF TakeResult, vault
<1>2. task[r].pc \notin {"unsent", "spawned", "done"} /\ task[r].pc \in Gated \ {"approval"}
    BY <1>1 DEF Gated
<1>3. /\ task[r] \in TaskType /\ RunOK(task[r]) /\ control \in Controls /\ Describes(r, task[r])
      /\ task[r].outcome = "cancelled" => r \in cancelled
      /\ snap \in [Paths -> Versions] /\ \A p \in Paths : snap[p] \in ghost.seen
      /\ 0 \in ghost.seen
    BY <1>2, RunFacts
<1>4. snap' \in [Paths -> Versions] /\ \A p \in Paths : snap'[p] \in ghost.seen
    <2>1. CASE ~task[r].landed
        BY <1>1, <1>3, <2>1
    <2>2. CASE task[r].landed
        <3>1. PICK plan : plan = task[r].plan
            OBVIOUS
        <3>2. plan \in Plans /\ plan.op # "none" /\ plan.content \in ghost.seen
            BY <1>2, <1>3, <3>1 DEF TaskType, RunOK
        <3>3. snap' = Remembered(plan)
            BY <1>1, <2>2, <3>1
        <3>4. CASE plan.op \in {"create", "replace"}
            <4>1. snap' = [snap EXCEPT ![plan.path] = plan.content]
                BY <3>3, <3>4 DEF Remembered
            <4> QED
                BY <1>3, <3>2, <4>1 DEF Plans
        <3>5. CASE plan.op = "delete"
            <4>1. snap' = [snap EXCEPT ![plan.path] = 0]
                BY <3>3, <3>5 DEF Remembered
            <4> QED
                BY <1>3, <3>2, <4>1, RestTyped DEF Plans
        <3>6. CASE plan.op = "rename"
            <4>1. snap' = [snap EXCEPT ![plan.to] = snap[plan.path], ![plan.path] = 0]
                BY <3>3, <3>6 DEF Remembered
            <4> QED
                BY <1>3, <3>2, <4>1, RestTyped DEF Plans
        <3> QED
            BY <3>2, <3>4, <3>5, <3>6 DEF Plans
    <2> QED
        BY <2>1, <2>2
<1>5. PICK o : o = IF r \in cancelled THEN "cancelled" ELSE task[r].outcome
    OBVIOUS
<1>6. o \in Outcomes /\ (o = "cancelled" => r \in cancelled) /\ "restore" \in Pcs
    BY <1>3, <1>5 DEF TaskType, Outcomes, Pcs
<1>7. PICK u : u = [task[r] EXCEPT !.pc = "restore", !.outcome = o]
    OBVIOUS
<1>8. /\ u \in TaskType /\ u.pc = "restore" /\ u.todo = task[r].todo /\ u.plan = task[r].plan
      /\ u.outcome = o /\ u.told = task[r].told
    BY <1>3, <1>6, <1>7, Zenon DEF TaskType
<1>9. task' = [task EXCEPT ![r] = u]
    <2>1. task' = [task EXCEPT ![r].pc = "restore", ![r].outcome = IF r \in cancelled THEN "cancelled" ELSE @]
        BY DEF TakeResult
    <2> QED
        BY <2>1, <1>5, <1>7, Zenon
<1>10. control.status = "Applying"
    BY <1>2, <1>3 DEF Describes
<1> QED
    BY <1>1, <1>2, <1>3, <1>4, <1>6, <1>8, <1>9, <1>10, GatedStep

\* The session streams again.
LEMMA RestoreSession ==
    ASSUME SessionInv, NEW r \in Tasks, Restore(r)
    PROVE  SessionInv'
<1>1. /\ task[r].pc = "restore" /\ control' = [control EXCEPT !.status = "Streaming"]
      /\ UNCHANGED <<cancelled, approvals, pending, snap, registered, calls, disk, version, ui, ghost>>
    BY DEF Restore, vault
<1>2. task[r].pc \notin {"unsent", "spawned", "done"} /\ task[r].pc \in Calling
    BY <1>1 DEF Calling
<1>3. /\ control \in Controls /\ ghost \in Ghosts
      /\ messages \in Seq(MessageType) /\ MessagesOK(messages) /\ messages # <<>>
      /\ approvals = Awaits(task[r], "approval") /\ pending = Awaits(task[r], "proxy")
      /\ task[r].outcome = "cancelled" => r \in cancelled
      /\ snap \in [Paths -> Versions] /\ \A p \in Paths : snap[p] \in ghost.seen
    BY <1>2, RunFacts
<1>4. pending = {} /\ approvals = {}
    BY <1>1, <1>3 DEF Awaits
<1>5. Streams(control') /\ "cancelled" \in Outcomes
    BY <1>1, <1>3 DEF Streams, Controls, Outcomes
<1>6. CASE task[r].outcome = "cancelled"
    <2>1. task' = [task EXCEPT ![r] = Finish(task[r], "cancelled")] /\ UNCHANGED messages
        BY <1>6 DEF Restore
    <2> QED
        BY <1>1, <1>2, <1>3, <1>4, <1>5, <1>6, <2>1, EndRun
<1>7. CASE task[r].outcome # "cancelled"
    <2>1. Answer(r)
        BY <1>7 DEF Restore
    <2> QED
        BY <1>1, <1>2, <1>3, <1>4, <1>5, <2>1, AnswerRun
<1> QED
    BY <1>6, <1>7

\* The run asks the panel, and waits for its answer.
LEMMA ProxySession ==
    ASSUME SessionInv, NEW r \in Tasks, CallProxy(r) \/ AwaitProxy(r)
    PROVE  SessionInv'
<1>1. task[r].pc \in {"call", "proxy"} /\ UNCHANGED <<control, cancelled, approvals, snap, registered, calls, disk, version, ui, ghost>>
    BY DEF CallProxy, AwaitProxy, vault
<1>2. task[r].pc \notin {"unsent", "spawned", "done"} /\ task[r].pc \in Calling /\ task[r].pc \notin Gated
    BY <1>1 DEF Calling, Gated
<1>3. /\ task[r] \in TaskType /\ RunOK(task[r]) /\ Describes(r, task[r])
      /\ control \in Controls /\ ghost \in Ghosts /\ calls \in Nat
      /\ messages \in Seq(MessageType) /\ MessagesOK(messages) /\ messages # <<>>
      /\ approvals = Awaits(task[r], "approval") /\ pending = Awaits(task[r], "proxy")
      /\ task[r].outcome = "cancelled" => r \in cancelled
      /\ \A n \in DOMAIN task[r].todo : Asked(messages, task[r].todo[n])
      /\ snap \in [Paths -> Versions] /\ \A p \in Paths : snap[p] \in ghost.seen
      /\ Streams(control)
    BY <1>2, RunFacts
<1>4. approvals = {} /\ pending \subseteq {Head(task[r].todo)} /\ Streams(control') /\ "cancelled" \in Outcomes
    BY <1>1, <1>3 DEF Awaits, Outcomes, Streams
<1>5. CASE CallProxy(r)
    <2>1. /\ task[r].pc = "call" /\ pending' = pending \cup {Head(task[r].todo)}
          /\ task' = [task EXCEPT ![r].pc = "proxy"] /\ UNCHANGED messages
        BY <1>5 DEF CallProxy
    <2>2. PICK u : u = [task[r] EXCEPT !.pc = "proxy"]
        OBVIOUS
    <2>3. "proxy" \in Pcs
        BY DEF Pcs
    <2>4. /\ u \in TaskType /\ u.pc = "proxy" /\ u.todo = task[r].todo /\ u.plan = task[r].plan
          /\ u.answer = task[r].answer /\ u.outcome = task[r].outcome /\ u.told = task[r].told
        BY <1>3, <2>2, <2>3, MovedTo
    <2>5. RunOK(u)' /\ u.answer = "none"
        BY <1>1, <1>3, <2>1, <2>4 DEF RunOK, Calling, Gated
    <2>6. Describes(r, u)'
        BY <1>1, <1>3, <2>1, <2>4 DEF Describes, Gated
    <2>7. approvals' = Awaits(u, "approval") /\ pending' = Awaits(u, "proxy")
        BY <1>1, <1>3, <1>4, <2>1, <2>4, <2>5 DEF Awaits
    <2>8. task' = [task EXCEPT ![r] = u] /\ calls' \in Nat /\ calls <= calls'
        BY <1>1, <1>3, <2>1, <2>2
    <2>9. \A n \in DOMAIN u.todo : Asked(messages', u.todo[n])
        BY <1>3, <2>1, <2>4
    <2> QED
        BY <1>1, <1>2, <1>3, <2>1, <2>4, <2>5, <2>6, <2>7, <2>8, <2>9, StepInside
<1>6. CASE AwaitProxy(r)
    <2>1. pending' = {}
        BY <1>4, <1>6 DEF AwaitProxy
    <2>2. ASSUME r \in cancelled, task' = [task EXCEPT ![r] = Finish(@, "cancelled")], UNCHANGED messages
          PROVE  SessionInv'
        BY <1>1, <1>2, <1>3, <1>4, <2>1, <2>2, EndRun
    <2>3. ASSUME Answer(r) PROVE SessionInv'
        BY <1>1, <1>2, <1>3, <1>4, <2>1, <2>3, AnswerRun
    <2> QED
        BY <1>6, <2>2, <2>3 DEF AwaitProxy
<1> QED
    BY <1>5, <1>6

\* The run is over: a cancellation that was deferred is reported now.
LEMMA FinalizeSession ==
    ASSUME SessionInv, NEW r \in Tasks, FinalizeRun(r)
    PROVE  SessionInv'
<1>1. /\ task[r].pc = "finish" /\ control' = [status |-> "Idle", token |-> 0, deferred |-> FALSE]
      /\ ghost' = [ghost EXCEPT !.approved = {}]
      /\ UNCHANGED <<cancelled, approvals, pending, messages, snap, registered, calls, disk, version, ui>>
    BY DEF FinalizeRun, vault
<1>2. /\ Shared /\ ui # "idle" /\ task \in [Tasks -> TaskType] /\ task[r] \in TaskType
      /\ Foreground(r, task[r]) /\ \A s \in Tasks \ {r} : Quiet(s, task[s])
    BY <1>1, BusyAlone
<1>3. /\ Running(task[r]) /\ Describes(r, task[r]) /\ RunOK(task[r]) /\ ghost \in Ghosts /\ calls \in Nat
      /\ ~task[r].told /\ (task[r].outcome = "cancelled" => r \in cancelled)
      /\ r \in ghost.stopped => control.deferred
      /\ approvals = Awaits(task[r], "approval") /\ pending = Awaits(task[r], "proxy")
    BY <1>1, <1>2 DEF Foreground, Running, Shared
<1>4. PICK o : o = IF control.deferred THEN "cancelled" ELSE task[r].outcome
    OBVIOUS
<1>5. /\ o \in Outcomes /\ (o = "cancelled" => r \in cancelled) /\ (r \in ghost.stopped => o = "cancelled")
      /\ "done" \in Pcs
    BY <1>2, <1>3, <1>4 DEF Describes, TaskType, Outcomes, Pcs
<1>6. PICK u : u = [task[r] EXCEPT !.pc = "done", !.outcome = o]
    OBVIOUS
<1>7. /\ u \in TaskType /\ u.pc = "done" /\ u.todo = task[r].todo /\ u.plan = task[r].plan
      /\ u.answer = task[r].answer /\ u.outcome = o /\ u.told = task[r].told
    BY <1>2, <1>5, <1>6, Zenon DEF TaskType
<1>8. task' = [task EXCEPT ![r] = u]
    <2>1. task' = [task EXCEPT ![r].pc = "done", ![r].outcome = IF control.deferred THEN "cancelled" ELSE @]
        BY DEF FinalizeRun
    <2> QED
        BY <2>1, <1>4, <1>6, Zenon
<1>9. /\ ghost' \in Ghosts /\ ghost'.approved = {} /\ ghost'.imposed = ghost.imposed /\ ghost'.lost = ghost.lost
      /\ ghost'.seen = ghost.seen /\ ghost'.stopped = ghost.stopped
    BY <1>1, <1>3, Zenon DEF Ghosts
<1>10. RunOK(u)'
    BY <1>1, <1>3, <1>7, <1>9 DEF RunOK, Calling, Gated
<1>11. ~Running(u) /\ control' \in Controls /\ control'.status = "Idle"
    BY <1>1, <1>7 DEF Running, Controls
<1>12. approvals' = Awaits(u, "approval") /\ pending' = Awaits(u, "proxy") /\ u.pc \notin Calling
    BY <1>1, <1>3, <1>7 DEF Awaits, Calling
<1>13. Foreground(r, u)'
    BY <1>1, <1>3, <1>5, <1>7, <1>9, <1>10, <1>11, <1>12 DEF Foreground, Running, RunOK, Awaits
<1>14. Shared'
    <2>1. UNCHANGED <<cancelled, messages, snap, registered, calls, disk, version, ui>>
        BY <1>1
    <2>2. ghost'.approved \subseteq 1..calls'
        BY <1>9
    <2> QED
        BY <1>2, <1>9, <1>11, <2>1, <2>2 DEF Shared, MessagesOK
<1>15. calls' \in Nat /\ calls <= calls'
    BY <1>1, <1>3
<1> QED
    BY <1>1, <1>2, <1>3, <1>7, <1>8, <1>9, <1>13, <1>14, <1>15, StepAlone

\* The run begins.  No other is busy, so the session is idle and does not refuse it.
LEMMA StartSession ==
    ASSUME SessionInv, NEW r \in Tasks, StartRun(r)
    PROVE  SessionInv'
<1>1. task[r].pc = "spawned"
    BY DEF StartRun
<1>2. /\ Shared /\ ui # "idle" /\ task \in [Tasks -> TaskType] /\ task[r] \in TaskType
      /\ Foreground(r, task[r]) /\ \A s \in Tasks \ {r} : Quiet(s, task[s])
    BY <1>1, BusyAlone
<1>3. ~Running(task[r])
    BY <1>1 DEF Running
<1>4. /\ control.status = "Idle" /\ RunOK(task[r]) /\ ghost \in Ghosts /\ calls \in Nat
      /\ ~task[r].told /\ (task[r].outcome = "cancelled" => r \in cancelled) /\ r \notin ghost.stopped
      /\ approvals = Awaits(task[r], "approval") /\ pending = Awaits(task[r], "proxy")
      /\ snap \in [Paths -> Versions] /\ \A p \in Paths : snap[p] \in ghost.seen
      /\ messages \in Seq(MessageType) /\ MessagesOK(messages) /\ task[r].embedded \in [Paths -> Versions]
    BY <1>1, <1>2, <1>3 DEF Foreground, Shared, TaskType
<1>5. /\ control' = [status |-> "Streaming", token |-> r, deferred |-> FALSE]
      /\ snap' = [p \in Paths |-> IF task[r].embedded[p] # 0 THEN task[r].embedded[p] ELSE snap[p]]
      /\ ghost' = [ghost EXCEPT !.seen = @ \cup {task[r].embedded[p] : p \in Paths}]
      /\ messages' = Append(messages, [kind |-> "user", ids |-> {}])
      /\ \/ task' = [task EXCEPT ![r] = NextRound([@ EXCEPT !.embedded = Unsent.embedded])]
         \/ task' = [task EXCEPT ![r] = Finish(@, "error")]
      /\ UNCHANGED <<cancelled, approvals, pending, registered, calls, disk, version, ui>>
    BY <1>4 DEF StartRun, vault
<1>6. /\ control' \in Controls /\ control'.status = "Streaming" /\ control'.token = r /\ ~control'.deferred
    BY <1>5 DEF Controls
<1>7. ghost.seen \cup {task[r].embedded[p] : p \in Paths} \in SUBSET Versions
    BY <1>4 DEF Ghosts
<1>8. /\ ghost' \in Ghosts /\ ghost'.approved = ghost.approved /\ ghost'.imposed = ghost.imposed
      /\ ghost'.lost = ghost.lost /\ ghost'.stopped = ghost.stopped
      /\ ghost'.seen = ghost.seen \cup {task[r].embedded[p] : p \in Paths}
    BY <1>4, <1>5, <1>7, Zenon DEF Ghosts
<1>9. snap' \in [Paths -> Versions] /\ \A p \in Paths : snap'[p] \in ghost'.seen
    BY <1>4, <1>5, <1>8
<1>10. messages' \in Seq(MessageType) /\ MessagesOK(messages') /\ messages' # <<>>
    <2>1. PICK m : m = [kind |-> "user", ids |-> {}]
        OBVIOUS
    <2>2. m \in MessageType /\ m.kind = "user"
        BY <2>1 DEF MessageType
    <2>3. PICK ms : ms = messages
        OBVIOUS
    <2>4. Append(ms, m) \in Seq(MessageType) /\ MessagesOK(Append(ms, m)) /\ Append(ms, m) # <<>>
        BY <1>4, <2>2, <2>3, AppendMessage
    <2> QED
        BY <1>5, <2>1, <2>3, <2>4
<1>11. PICK u : /\ task' = [task EXCEPT ![r] = u] /\ u \in TaskType /\ u.told = task[r].told
                /\ u.pc \in {"connect", "finish"} /\ u.outcome \in {task[r].outcome, "limit", "error"}
                /\ \/ u.plan = task[r].plan /\ u.todo = task[r].todo /\ u.answer = task[r].answer
                   \/ u.plan = NoPlan /\ u.todo = <<>> /\ u.answer = "none"
    <2>1. PICK t : t = [task[r] EXCEPT !.embedded = Unsent.embedded]
        OBVIOUS
    <2>2. Unsent.embedded \in [Paths -> Versions] /\ "error" \in Outcomes
        BY RestTyped DEF Outcomes
    <2>3. /\ t \in TaskType /\ t.told = task[r].told /\ t.plan = task[r].plan /\ t.todo = task[r].todo
          /\ t.answer = task[r].answer /\ t.outcome = task[r].outcome
        BY <1>2, <2>1, <2>2, Zenon DEF TaskType
    <2>4. PICK v : v = NextRound(t)
        OBVIOUS
    <2>5. /\ v \in TaskType /\ v.told = t.told
          /\ \/ v.pc = "connect" /\ v.outcome = t.outcome /\ v.plan = t.plan /\ v.todo = t.todo
                /\ v.answer = t.answer
             \/ v.pc = "finish" /\ v.outcome = "limit" /\ v.plan = NoPlan /\ v.todo = <<>> /\ v.answer = "none"
        BY <2>3, <2>4, RoundFacts
    <2>6. PICK w : w = Finish(task[r], "error")
        OBVIOUS
    <2>7. /\ w \in TaskType /\ w.pc = "finish" /\ w.outcome = "error" /\ w.plan = NoPlan
          /\ w.todo = <<>> /\ w.answer = "none" /\ w.told = task[r].told
        BY <1>2, <2>2, <2>6, FinishFacts
    <2>8. task' = [task EXCEPT ![r] = v] \/ task' = [task EXCEPT ![r] = w]
        BY <1>5, <2>1, <2>4, <2>6, Zenon
    <2>9. CASE task' = [task EXCEPT ![r] = v]
        BY <2>3, <2>5, <2>9
    <2>10. CASE task' = [task EXCEPT ![r] = w]
        BY <2>7, <2>10
    <2> QED
        BY <2>8, <2>9, <2>10
<1>12. RunOK(u)'
    <2>1. UNCHANGED calls /\ 0 \in ghost.seen /\ ghost.seen \subseteq ghost'.seen
        BY <1>2, <1>5, <1>8 DEF Shared
    <2>2. CASE u.plan = task[r].plan /\ u.todo = task[r].todo /\ u.answer = task[r].answer
        BY <1>1, <1>4, <1>11, <2>1, <2>2 DEF RunOK, Calling, Gated
    <2>3. CASE u.plan = NoPlan /\ u.todo = <<>> /\ u.answer = "none"
        BY <1>11, <2>1, <2>3, RestTyped DEF RunOK, Calling, Gated
    <2> QED
        BY <1>11, <2>2, <2>3
<1>13. Describes(r, u)' /\ Running(u)
    BY <1>6, <1>11 DEF Describes, Running, Gated
<1>14. approvals' = Awaits(u, "approval") /\ pending' = Awaits(u, "proxy") /\ u.pc \notin Calling
    BY <1>1, <1>4, <1>5, <1>11 DEF Awaits, Calling
<1>15. u.outcome = "cancelled" => r \in cancelled'
    BY <1>4, <1>5, <1>11
<1>16. Foreground(r, u)'
    BY <1>4, <1>8, <1>10, <1>11, <1>12, <1>13, <1>14, <1>15 DEF Foreground, Running, RunOK, Awaits, Describes
<1>17. Shared'
    BY <1>2, <1>5, <1>6, <1>8, <1>9, <1>10 DEF Shared, MessagesOK
<1>18. calls' \in Nat /\ calls <= calls' /\ ghost.seen \subseteq ghost'.seen
    BY <1>4, <1>5, <1>8
<1> QED
    BY <1>2, <1>4, <1>5, <1>8, <1>11, <1>16, <1>17, <1>18, StepAlone

-----------------------------------------------------------------------------
(* What the panel and the user do.                                         *)

\* A message is sent only while no run is busy.
LEMMA SendSession ==
    ASSUME SessionInv, NEW r \in Tasks, NEW mode \in Modes, NEW active \in Paths, NEW attached,
           SendMessage(r, mode, active, attached)
    PROVE  SessionInv'
<1>1. /\ ui = "idle" /\ task[r].pc = "unsent" /\ ui' = "busy"
      /\ UNCHANGED <<control, cancelled, approvals, pending, snap, messages, registered, calls, disk, version, ghost>>
    BY DEF SendMessage, session, vault
<1>2. task \in [Tasks -> TaskType] /\ Shared /\ Nobody
    BY <1>1 DEF SessionInv, Alone
<1>3. /\ task[r] \in TaskType /\ Quiet(r, task[r]) /\ \A s \in Tasks \ {r} : Quiet(s, task[s])
      /\ control.status = "Idle" /\ approvals = {} /\ pending = {} /\ calls \in Nat /\ disk \in [Paths -> Versions]
    BY <1>2 DEF Nobody, Shared
<1>4. PICK em : em = [p \in Paths |-> IF p \in attached THEN disk[p] ELSE 0]
    OBVIOUS
<1>5. em \in [Paths -> Versions] /\ "spawned" \in Pcs
    BY <1>3, <1>4, RestTyped DEF Pcs
<1>6. PICK u : u = [task[r] EXCEPT !.pc = "spawned", !.mode = mode, !.active = active, !.embedded = em]
    OBVIOUS
<1>7. /\ u \in TaskType /\ u.pc = "spawned" /\ u.todo = task[r].todo /\ u.plan = task[r].plan
      /\ u.answer = task[r].answer /\ u.outcome = task[r].outcome /\ u.told = task[r].told
    BY <1>3, <1>5, <1>6, Zenon DEF TaskType
<1>8. task' = [task EXCEPT ![r] = u]
    <2>1. task' = [task EXCEPT ![r] = [@ EXCEPT !.pc = "spawned", !.mode = mode, !.active = active,
                    !.embedded = [p \in Paths |-> IF p \in attached THEN disk[p] ELSE 0]]]
        BY DEF SendMessage
    <2> QED
        BY <2>1, <1>4, <1>6, Zenon
<1>9. RunOK(u)' /\ ~u.told
    BY <1>1, <1>3, <1>7 DEF Quiet, RunOK, Calling, Gated
<1>10. ~Running(u) /\ approvals' = Awaits(u, "approval") /\ pending' = Awaits(u, "proxy") /\ u.pc \notin Calling
    BY <1>1, <1>3, <1>7 DEF Running, Awaits, Calling
<1>11. (u.outcome = "cancelled" => r \in cancelled) /\ r \notin ghost.stopped
    BY <1>1, <1>3, <1>7 DEF Quiet
<1>12. Foreground(r, u)'
    BY <1>1, <1>3, <1>7, <1>9, <1>10, <1>11 DEF Foreground, Running, RunOK, Awaits
<1>13. Shared'
    BY <1>1, <1>2 DEF Shared, MessagesOK
<1>14. calls' \in Nat /\ calls <= calls'
    BY <1>1, <1>3
<1> QED
    BY <1>1, <1>2, <1>3, <1>7, <1>8, <1>12, <1>13, <1>14, StepAlone

\* The panel learns of the end of a run: then no run is busy.
LEMMA ToldSession ==
    ASSUME SessionInv, NEW r \in Tasks, FinishSession(r)
    PROVE  SessionInv'
<1>1. /\ task[r].pc = "done" /\ ~task[r].told /\ task' = [task EXCEPT ![r].told = TRUE]
      /\ ui' = IF task[r].outcome = "error" THEN "error" ELSE "idle"
      /\ UNCHANGED <<control, cancelled, approvals, pending, snap, messages, registered, calls, disk, version, ghost>>
    BY DEF FinishSession, session, vault
<1>2. ~Quiet(r, task[r])
    BY <1>1 DEF Quiet
<1>3. /\ task \in [Tasks -> TaskType] /\ task[r] \in TaskType /\ Shared /\ Foreground(r, task[r])
      /\ \A s \in Tasks \ {r} : Quiet(s, task[s])
    BY <1>2 DEF SessionInv, Nobody, Alone
<1>4. PICK u : u = [task[r] EXCEPT !.told = TRUE]
    OBVIOUS
<1>5. /\ u \in TaskType /\ u.pc = "done" /\ u.todo = task[r].todo /\ u.plan = task[r].plan
      /\ u.answer = task[r].answer /\ u.outcome = task[r].outcome /\ u.told
    <2>1. TRUE \in BOOLEAN
        OBVIOUS
    <2> QED
        BY <1>1, <1>3, <1>4, <2>1, Zenon DEF TaskType
<1>6. /\ task' \in [Tasks -> TaskType] /\ task'[r] = u /\ \A s \in Tasks \ {r} : task'[s] = task[s]
    <2>1. task' = [task EXCEPT ![r] = u]
        BY <1>1, <1>4, Zenon
    <2> QED
        BY <1>3, <1>5, <2>1
<1>7. Quiet(r, u)'
    <2>1. RunOK(u)'
        BY <1>1, <1>3, <1>5 DEF Foreground, RunOK, Calling, Gated
    <2>2. /\ u.outcome = "cancelled" => r \in cancelled
          /\ r \in ghost.stopped => u.outcome = "cancelled"
        BY <1>1, <1>3, <1>5 DEF Foreground, Running
    <2> QED
        BY <1>1, <1>5, <2>1, <2>2 DEF Quiet
<1>8. ASSUME NEW s \in Tasks PROVE Quiet(s, task[s])'
    <2>1. CASE s = r
        BY <1>6, <1>7, <2>1 DEF Quiet, RunOK
    <2>2. CASE s # r
        BY <1>1, <1>3, <1>6, <2>2 DEF Quiet, RunOK
    <2> QED
        BY <2>1, <2>2
<1>9. ~Running(task[r])
    BY <1>1 DEF Running
<1>10. control'.status = "Idle" /\ approvals' = {} /\ pending' = {}
    BY <1>1, <1>3, <1>9 DEF Foreground, Awaits
<1>11. Shared'
    BY <1>1, <1>3 DEF Shared, MessagesOK
<1> QED
    BY <1>6, <1>8, <1>10, <1>11 DEF SessionInv, Nobody

\* The panel answers a proxied call.
LEMMA SubmitSession ==
    ASSUME SessionInv, NEW r \in Tasks, SubmitProxyToolResult(r)
    PROVE  SessionInv'
<1>1. /\ task[r].pc = "proxy" /\ pending' = pending \ {Head(task[r].todo)}
      /\ task' = [task EXCEPT ![r].answer = "output"]
      /\ UNCHANGED <<control, cancelled, approvals, messages, snap, registered, calls, disk, version, ui, ghost>>
    BY DEF SubmitProxyToolResult, vault
<1>2. /\ task[r] \in TaskType /\ RunOK(task[r]) /\ Describes(r, task[r])
      /\ control \in Controls /\ ghost \in Ghosts /\ calls \in Nat
      /\ messages \in Seq(MessageType) /\ MessagesOK(messages) /\ messages # <<>>
      /\ approvals = Awaits(task[r], "approval") /\ pending = Awaits(task[r], "proxy")
      /\ task[r].outcome = "cancelled" => r \in cancelled
      /\ task[r].pc \in Calling => \A n \in DOMAIN task[r].todo : Asked(messages, task[r].todo[n])
      /\ snap \in [Paths -> Versions] /\ \A p \in Paths : snap[p] \in ghost.seen
    BY <1>1, RunFacts
<1>3. PICK u : u = [task[r] EXCEPT !.answer = "output"]
    OBVIOUS
<1>4. /\ u \in TaskType /\ u.pc = task[r].pc /\ u.todo = task[r].todo /\ u.plan = task[r].plan
      /\ u.answer = "output" /\ u.outcome = task[r].outcome /\ u.told = task[r].told
    <2>1. "output" \in {"none", "approve", "reject", "output"}
        OBVIOUS
    <2> QED
        BY <1>2, <1>3, <2>1, Zenon DEF TaskType
<1>5. task' = [task EXCEPT ![r] = u]
    BY <1>1, <1>3, Zenon
<1>6. RunOK(u)'
    BY <1>1, <1>2, <1>4 DEF RunOK, Calling, Gated
<1>7. Describes(r, u)'
    BY <1>1, <1>2, <1>4 DEF Describes, Gated
<1>8. approvals' = Awaits(u, "approval") /\ pending' = Awaits(u, "proxy")
    BY <1>1, <1>2, <1>4 DEF Awaits
<1>9. \A n \in DOMAIN u.todo : Asked(messages', u.todo[n])
    BY <1>1, <1>2, <1>4 DEF Calling
<1>10. calls' \in Nat /\ calls <= calls'
    BY <1>1, <1>2
<1> QED
    BY <1>1, <1>2, <1>4, <1>5, <1>6, <1>7, <1>8, <1>9, <1>10, StepInside

\* The user decides: an approval is of the call that the run waits with.
LEMMA ResolveSession ==
    ASSUME SessionInv, NEW r \in Tasks, NEW decision \in {"approve", "reject"}, ResolveApproval(r, decision)
    PROVE  SessionInv'
<1>1. /\ task[r].pc = "approval" /\ Head(task[r].todo) \in approvals
      /\ approvals' = approvals \ {Head(task[r].todo)}
      /\ task' = [task EXCEPT ![r].answer = decision]
      /\ ghost' = IF decision = "approve" THEN [ghost EXCEPT !.approved = @ \cup {Head(task[r].todo)}] ELSE ghost
      /\ UNCHANGED <<control, cancelled, pending, messages, snap, registered, calls, disk, version, ui>>
    BY DEF ResolveApproval, vault
<1>2. /\ Shared /\ ui # "idle" /\ task \in [Tasks -> TaskType] /\ task[r] \in TaskType
      /\ Foreground(r, task[r]) /\ \A s \in Tasks \ {r} : Quiet(s, task[s])
    BY <1>1, BusyAlone
<1>3. /\ Running(task[r]) /\ Describes(r, task[r]) /\ RunOK(task[r]) /\ ghost \in Ghosts /\ calls \in Nat
      /\ ghost.approved \subseteq 1..calls /\ messages # <<>> /\ approvals = Awaits(task[r], "approval")
      /\ pending = Awaits(task[r], "proxy") /\ (task[r].outcome = "cancelled" => r \in cancelled) /\ ~task[r].told
      /\ r \in ghost.stopped => control.deferred
      /\ \A n \in DOMAIN task[r].todo : Asked(messages, task[r].todo[n])
    BY <1>1, <1>2 DEF Foreground, Running, Shared, Calling
<1>4. task[r].todo \in Seq(Nat) /\ task[r].todo # <<>>
    BY <1>1, <1>2, <1>3 DEF TaskType, RunOK, Calling
<1>5. Head(task[r].todo) \in 1..calls
    <2>1. 1 \in DOMAIN task[r].todo /\ Head(task[r].todo) = task[r].todo[1]
        BY <1>4
    <2> QED
        BY <1>3, <2>1 DEF RunOK
<1>6. /\ ghost' \in Ghosts /\ ghost'.imposed = ghost.imposed /\ ghost'.lost = ghost.lost /\ ghost'.seen = ghost.seen
      /\ ghost'.stopped = ghost.stopped /\ ghost'.approved \subseteq 1..calls
      /\ decision = "approve" => Head(task[r].todo) \in ghost'.approved
    <2>1. CASE decision = "reject"
        BY <1>1, <1>3, <2>1
    <2>2. CASE decision = "approve"
        <3>1. PICK A : A = ghost.approved \cup {Head(task[r].todo)}
            OBVIOUS
        <3>2. A \in SUBSET Nat /\ A \subseteq 1..calls /\ Head(task[r].todo) \in A
            BY <1>3, <1>5, <3>1
        <3>3. ghost' = [ghost EXCEPT !.approved = A]
            BY <1>1, <2>2, <3>1
        <3>4. /\ ghost' \in Ghosts /\ ghost'.imposed = ghost.imposed /\ ghost'.lost = ghost.lost
              /\ ghost'.seen = ghost.seen /\ ghost'.stopped = ghost.stopped /\ ghost'.approved = A
            BY <1>3, <3>2, <3>3, Zenon DEF Ghosts
        <3> QED
            BY <3>2, <3>4
    <2> QED
        BY <2>1, <2>2
<1>7. PICK u : u = [task[r] EXCEPT !.answer = decision]
    OBVIOUS
<1>8. /\ u \in TaskType /\ u.pc = task[r].pc /\ u.todo = task[r].todo /\ u.plan = task[r].plan
      /\ u.answer = decision /\ u.outcome = task[r].outcome /\ u.told = task[r].told
    <2>1. decision \in {"none", "approve", "reject", "output"}
        OBVIOUS
    <2> QED
        BY <1>2, <1>7, <2>1, Zenon DEF TaskType
<1>9. task' = [task EXCEPT ![r] = u]
    BY <1>1, <1>7, Zenon
<1>10. UNCHANGED <<control, cancelled, pending, messages, snap, registered, calls, disk, version, ui>>
    BY <1>1
<1>11. RunOK(u)'
    BY <1>1, <1>3, <1>6, <1>8, <1>10 DEF RunOK, Calling, Gated
<1>12. Describes(r, u)' /\ Running(u) /\ messages' # <<>>
    BY <1>1, <1>3, <1>8, <1>10 DEF Describes, Gated, Running
<1>13. approvals' = Awaits(u, "approval") /\ pending' = Awaits(u, "proxy")
    BY <1>1, <1>3, <1>8, <1>10 DEF Awaits
<1>14. \A n \in DOMAIN u.todo : Asked(messages', u.todo[n])
    BY <1>3, <1>8, <1>10
<1>15. (u.answer = "approve" => Head(u.todo) \in ghost'.approved) /\ u.pc = "approval"
    BY <1>1, <1>6, <1>8
<1>16. Foreground(r, u)'
    BY <1>3, <1>6, <1>8, <1>10, <1>11, <1>12, <1>13, <1>14, <1>15
       DEF Foreground, Running, RunOK, Describes, Awaits, Asked
<1>17. Shared'
    BY <1>2, <1>6, <1>10 DEF Shared, MessagesOK
<1>18. calls' \in Nat /\ calls <= calls'
    BY <1>3, <1>10
<1> QED
    BY <1>2, <1>3, <1>6, <1>8, <1>9, <1>10, <1>16, <1>17, <1>18, StepAlone

\* The user cancels, or resets the session: the token of the busy run is cancelled
\* by then, and a run that is applying a change is marked.
LEMMA CancelSession ==
    ASSUME SessionInv, Cancel, registered' \in BOOLEAN, ui' \in {ui, "error"},
           UNCHANGED <<task, approvals, pending, messages, snap, calls, disk, version>>
    PROVE  SessionInv'
<1>1. task \in [Tasks -> TaskType] /\ Shared /\ control \in Controls /\ ghost \in Ghosts /\ calls \in Nat
    BY DEF SessionInv, Shared
<1>2. cancelled' = cancelled \cup ({control.token} \ {0}) /\ cancelled \subseteq cancelled' /\ cancelled' \in SUBSET Tasks
    BY <1>1 DEF Cancel, Shared, Controls
<1>3. CASE control.status # "Applying"
    <2>1. control' = [control EXCEPT !.token = 0] /\ UNCHANGED ghost
        BY <1>3 DEF Cancel
    <2>2. /\ control' \in Controls /\ control'.status = control.status /\ control'.deferred = control.deferred
        BY <1>1, <2>1 DEF Controls
    <2>3. Shared'
        BY <1>1, <1>2, <2>1, <2>2 DEF Shared, MessagesOK
    <2>4. CASE Nobody
        BY <1>1, <1>2, <2>1, <2>2, <2>3, <2>4, StepNobody DEF Nobody
    <2>5. ASSUME NEW r \in Tasks, Alone(r) PROVE SessionInv'
        <3>1. /\ ui' # "idle" /\ Foreground(r, task[r]) /\ \A s \in Tasks \ {r} : Quiet(s, task[s])
            BY <2>5 DEF Alone
        <3>2. task[r] \in TaskType /\ task' = [task EXCEPT ![r] = task[r]]
            BY <1>1
        <3>3. PICK u : u = task[r]
            OBVIOUS
        <3>4. RunOK(u)'
            BY <2>1, <3>1, <3>3 DEF Foreground, RunOK
        <3>5. Running(u) => Describes(r, u)'
            BY <1>2, <2>2, <3>1, <3>3 DEF Foreground, Describes, Tasks
        <3>6. Foreground(r, u)'
            BY <1>2, <2>1, <2>2, <3>1, <3>3, <3>4, <3>5 DEF Foreground, Running, Describes, RunOK, Awaits, Asked
        <3>7. calls' \in Nat /\ calls <= calls'
            BY <1>1
        <3> QED
            BY <1>1, <1>2, <2>1, <2>3, <3>1, <3>2, <3>3, <3>6, <3>7, StepAlone
    <2> QED
        BY <2>4, <2>5 DEF SessionInv
<1>4. CASE control.status = "Applying"
    <2>1. PICK r \in Tasks : Alone(r)
        BY <1>4 DEF SessionInv, Nobody
    <2>2. /\ ui' # "idle" /\ Foreground(r, task[r]) /\ \A s \in Tasks \ {r} : Quiet(s, task[s])
        BY <2>1 DEF Alone
    <2>3. PICK u : u = task[r]
        OBVIOUS
    <2>4. u \in TaskType /\ task' = [task EXCEPT ![r] = u]
        BY <1>1, <2>3
    <2>5. Running(u) /\ Describes(r, u) /\ u.pc \in Gated \ {"approval"}
        BY <1>4, <2>2, <2>3 DEF Foreground, Describes
    <2>6. PICK S : S = {s \in Tasks : task[s].pc \in {"precheck", "check", "write", "result", "restore"}}
        OBVIOUS
    <2>7. S \subseteq {r} /\ ghost.stopped \cup S \in SUBSET Tasks
        BY <1>1, <2>2, <2>6 DEF Quiet, Ghosts
    <2>8. control' = [control EXCEPT !.deferred = TRUE] /\ ghost' = [ghost EXCEPT !.stopped = @ \cup S]
        BY <1>4, <2>6 DEF Cancel
    <2>9. /\ control' \in Controls /\ control'.status = control.status /\ control'.deferred
          /\ control'.token = control.token
        BY <1>1, <2>8 DEF Controls
    <2>10. /\ ghost' \in Ghosts /\ ghost'.imposed = ghost.imposed /\ ghost'.lost = ghost.lost
           /\ ghost'.seen = ghost.seen /\ ghost'.approved = ghost.approved /\ ghost'.window = ghost.window
           /\ ghost'.stopped = ghost.stopped \cup S
        BY <1>1, <2>7, <2>8, Zenon DEF Ghosts
    <2>11. Shared'
        BY <1>1, <1>2, <2>2, <2>9, <2>10 DEF Shared, MessagesOK
    <2>12. RunOK(u)'
        BY <2>2, <2>3, <2>10 DEF Foreground, RunOK
    <2>13. r \in cancelled'
        BY <1>2, <2>5 DEF Describes, Tasks
    <2>14. Describes(r, u)'
        BY <2>5, <2>9, <2>13 DEF Describes
    <2>15. Foreground(r, u)'
        BY <1>2, <2>2, <2>3, <2>5, <2>9, <2>10, <2>12, <2>13, <2>14
           DEF Foreground, Running, Describes, RunOK, Awaits, Asked
    <2>16. calls' \in Nat /\ calls <= calls' /\ ghost'.stopped \subseteq ghost.stopped \cup {r}
        BY <1>1, <2>7, <2>10
    <2> QED
        BY <1>1, <1>2, <2>2, <2>4, <2>10, <2>11, <2>15, <2>16, StepAlone
<1> QED
    BY <1>3, <1>4

\* Someone else changes a file: if that is after the check of a change under way,
\* it is in the window.
LEMMA UserWriteSession ==
    ASSUME SessionInv, NEW p \in Paths, NEW content \in {0, version + 1}, UserWrites(p, content)
    PROVE  SessionInv'
<1>1. /\ version < MaxVersion /\ disk' = [disk EXCEPT ![p] = content] /\ version' = version + 1
      /\ UNCHANGED <<task, control, cancelled, approvals, pending, snap, messages, registered, calls, ui>>
    BY DEF UserWrites, session
<1>2. /\ task \in [Tasks -> TaskType] /\ Shared /\ ghost \in Ghosts /\ calls \in Nat
      /\ disk \in [Paths -> Versions] /\ version \in Versions
    BY DEF SessionInv, Shared
<1>3. content \in Versions /\ version' \in Versions
    BY <1>1, <1>2, SessionAssumption DEF Versions, Draft
<1>4. disk' \in [Paths -> Versions]
    BY <1>1, <1>2, <1>3
<1>5. ghost' = IF \E s \in Tasks : task[s].pc = "write" THEN [ghost EXCEPT !.window = @ \cup {content}] ELSE ghost
    BY DEF UserWrites
<1>6. /\ ghost' \in Ghosts /\ ghost'.imposed = ghost.imposed /\ ghost'.lost = ghost.lost
      /\ ghost'.seen = ghost.seen /\ ghost'.approved = ghost.approved /\ ghost'.stopped = ghost.stopped
      /\ (\E s \in Tasks : task[s].pc = "write") => ghost'.window = ghost.window \cup {content}
    <2>1. CASE \E s \in Tasks : task[s].pc = "write"
        <3>1. PICK W : W = ghost.window \cup {content}
            OBVIOUS
        <3>2. W \in SUBSET Versions /\ ghost' = [ghost EXCEPT !.window = W]
            BY <1>2, <1>3, <1>5, <2>1, <3>1 DEF Ghosts
        <3>3. /\ ghost' \in Ghosts /\ ghost'.imposed = ghost.imposed /\ ghost'.lost = ghost.lost
              /\ ghost'.seen = ghost.seen /\ ghost'.approved = ghost.approved /\ ghost'.stopped = ghost.stopped
              /\ ghost'.window = W
            BY <1>2, <3>2, Zenon DEF Ghosts
        <3> QED
            BY <3>1, <3>3
    <2>2. CASE ~\E s \in Tasks : task[s].pc = "write"
        <3>1. ghost' = ghost
            BY <1>5, <2>2
        <3> QED
            BY <1>2, <2>2, <3>1
    <2> QED
        BY <2>1, <2>2
<1>7. Shared'
    BY <1>1, <1>2, <1>3, <1>4, <1>6 DEF Shared, MessagesOK
<1>8. CASE Nobody
    BY <1>1, <1>2, <1>6, <1>7, <1>8, StepNobody DEF Nobody
<1>9. ASSUME NEW r \in Tasks, Alone(r) PROVE SessionInv'
    <2>1. /\ ui' # "idle" /\ Foreground(r, task[r]) /\ \A s \in Tasks \ {r} : Quiet(s, task[s])
        BY <1>1, <1>9 DEF Alone
    <2>2. PICK u : u = task[r]
        OBVIOUS
    <2>3. u \in TaskType /\ task' = [task EXCEPT ![r] = u]
        BY <1>1, <1>2, <2>2
    <2>4. RunOK(u)'
        BY <1>1, <1>6, <2>1, <2>2 DEF Foreground, RunOK
    <2>5. u.pc = "write" => disk'[Target(u.plan)] \in ghost'.seen \cup ghost'.window
        <3> SUFFICES ASSUME u.pc = "write" PROVE disk'[Target(u.plan)] \in ghost'.seen \cup ghost'.window
            OBVIOUS
        <3>1. ghost'.window = ghost.window \cup {content}
            BY <1>6, <2>2
        <3>2. PICK q : q = Target(u.plan)
            OBVIOUS
        <3>3. q \in Paths /\ disk[q] \in ghost.seen \cup ghost.window
            BY <2>1, <2>2, <2>3, <3>2 DEF Foreground, Target, TaskType, Plans
        <3>4. disk'[q] \in {content, disk[q]}
            BY <1>1, <1>2, <3>3
        <3> QED
            BY <1>6, <3>1, <3>2, <3>3, <3>4
    <2>6. Foreground(r, u)'
        BY <1>1, <1>6, <2>1, <2>2, <2>4, <2>5 DEF Foreground, Running, Describes, RunOK, Awaits, Asked
    <2>7. calls' \in Nat /\ calls <= calls'
        BY <1>1, <1>2
    <2> QED
        BY <1>1, <1>2, <1>6, <1>7, <2>1, <2>3, <2>6, <2>7, StepAlone
<1> QED
    BY <1>8, <1>9 DEF SessionInv

\* Every step keeps the invariant.
LEMMA NextSession == SessionInv /\ [Next]_vars => SessionInv'
<1> SUFFICES ASSUME SessionInv, [Next]_vars PROVE SessionInv'
    OBVIOUS
<1>1. ASSUME NEW r \in Tasks, Step(r) PROVE SessionInv'
    BY <1>1, StartSession, StreamSession, ToolSession, ProposeSession, DecideSession, PrecheckSession, CheckSession,
       WriteSession, ResultSession, RestoreSession, ProxySession, FinalizeSession DEF Step
<1>2. CASE AiCancel
    <2>1. registered \in BOOLEAN
        BY DEF SessionInv, Shared
    <2> QED
        BY <1>2, <2>1, CancelSession DEF AiCancel, vault
<1>3. CASE ResetState
    BY <1>3, CancelSession DEF ResetState, vault
<1>4. CASE User
    BY <1>2, <1>3, <1>4, SendSession, ToldSession, SubmitSession, ResolveSession, UserWriteSession DEF User
<1>5. CASE UNCHANGED vars
    <2>1. /\ UNCHANGED <<task, control, cancelled, approvals, pending, messages, snap, registered, calls>>
          /\ UNCHANGED <<disk, version, ui, ghost>>
        BY <1>5 DEF vars
    <2>2. Shared'
        BY <2>1 DEF SessionInv, Shared, MessagesOK
    <2>3. Nobody => Nobody'
        BY <2>1 DEF Nobody, Quiet, RunOK
    <2>4. ASSUME NEW r \in Tasks, Alone(r) PROVE Alone(r)'
        <3>1. Foreground(r, task[r])'
            BY <2>1, <2>4 DEF Alone, Foreground, RunOK, Running, Describes, Awaits, Asked
        <3>2. \A s \in Tasks \ {r} : Quiet(s, task[s])'
            BY <2>1, <2>4 DEF Alone, Quiet, RunOK
        <3> QED
            BY <2>1, <2>4, <3>1, <3>2 DEF Alone
    <2> QED
        BY <2>1, <2>2, <2>3, <2>4 DEF SessionInv
<1> QED
    BY <1>1, <1>4, <1>5 DEF Next

\* The session's invariant holds for any number of messages, files and calls.
THEOREM SessionInvariant == Spec => []SessionInv
BY InitSession, NextSession, PTL DEF Spec

-----------------------------------------------------------------------------
(* What the invariant says of the session.                                 *)

\* Every variable has its type.
THEOREM SessionTypeOK == Spec => []TypeOK
<1>1. SessionInv => TypeOK
    <2> SUFFICES ASSUME SessionInv PROVE TypeOK
        OBVIOUS
    <2>1. task \in [Tasks -> TaskType] /\ Shared
        BY DEF SessionInv
    <2>2. approvals \subseteq 1..calls /\ pending \subseteq 1..calls
        <3>1. CASE Nobody
            BY <3>1 DEF Nobody
        <3>2. ASSUME NEW r \in Tasks, Alone(r) PROVE approvals \subseteq 1..calls /\ pending \subseteq 1..calls
            <4>1. /\ approvals = Awaits(task[r], "approval") /\ pending = Awaits(task[r], "proxy")
                  /\ RunOK(task[r]) /\ task[r].todo \in Seq(Nat)
                BY <2>1, <3>2 DEF Alone, Foreground, TaskType
            <4>2. task[r].pc \in {"approval", "proxy"} => Head(task[r].todo) \in 1..calls
                <5> SUFFICES ASSUME task[r].pc \in {"approval", "proxy"} PROVE Head(task[r].todo) \in 1..calls
                    OBVIOUS
                <5>1. task[r].todo # <<>>
                    BY <4>1 DEF RunOK, Calling
                <5>2. 1 \in DOMAIN task[r].todo /\ Head(task[r].todo) = task[r].todo[1]
                    BY <4>1, <5>1
                <5> QED
                    BY <4>1, <5>2 DEF RunOK
            <4> QED
                BY <4>1, <4>2 DEF Awaits
        <3> QED
            BY <3>1, <3>2 DEF SessionInv
    <2>3. /\ ghost.approved \subseteq 1..calls /\ ghost.imposed \subseteq 1..calls
          /\ ghost["seen"] \subseteq Versions /\ ghost["window"] \subseteq Versions /\ ghost["lost"] \subseteq Versions
          /\ ghost.stopped \subseteq Tasks
        BY <2>1 DEF Shared, Ghosts
    <2> QED
        BY <2>1, <2>2, <2>3 DEF TypeOK, Shared, Controls
<1> QED
    BY <1>1, SessionInvariant, PTL

\* The control block and the senders describe the one run there is.
THEOREM ControlIsOfRun == Spec => []ControlDescribesRun
<1>1. SessionInv => ControlDescribesRun
    <2> SUFFICES ASSUME SessionInv PROVE ControlDescribesRun
        OBVIOUS
    <2>1. CASE Nobody
        <3>1. \A s \in Tasks : task[s].pc \in {"unsent", "done"}
            BY <2>1 DEF Nobody, Quiet
        <3>2. control.status = "Idle" /\ approvals = {} /\ pending = {}
            BY <2>1 DEF Nobody
        <3>3. \A s \in Tasks : ~Live(s)
            BY <3>1 DEF Live
        <3>4. SendersAreAwaited
            BY <3>1, <3>2 DEF SendersAreAwaited
        <3> QED
            BY <3>2, <3>3, <3>4 DEF ControlDescribesRun
    <2>2. ASSUME NEW r \in Tasks, Alone(r) PROVE ControlDescribesRun
        <3>1. Foreground(r, task[r]) /\ \A s \in Tasks \ {r} : task[s].pc \in {"unsent", "done"}
            BY <2>2 DEF Alone, Quiet
        <3>2. (\A s \in Tasks \ {r} : ~Live(s)) /\ (Live(r) <=> Running(task[r]))
            BY <3>1 DEF Live, Running
        <3>3. control.status = "Idle" <=> ~Live(r)
            BY <3>1, <3>2 DEF Foreground, Describes
        <3>4. Live(r) => /\ control.status = "AwaitingApproval" <=> task[r].pc = "approval"
                         /\ control.status = "Applying" <=> Applying(r)
                         /\ control.token = r \/ r \in cancelled
            BY <3>1, <3>2 DEF Foreground, Describes, Applying, Gated
        <3>5. SendersAreAwaited
            <4>1. approvals = Awaits(task[r], "approval") /\ pending = Awaits(task[r], "proxy")
                BY <3>1 DEF Foreground
            <4>2. ASSUME NEW pc \in {"approval", "proxy"}
                  PROVE  {Head(task[s].todo) : s \in {s \in Tasks : task[s].pc = pc /\ task[s].answer = "none"}}
                            = Awaits(task[r], pc)
                BY <3>1, <4>2 DEF Awaits
            <4> QED
                BY <4>1, <4>2 DEF SendersAreAwaited
        <3> QED
            BY <3>2, <3>3, <3>4, <3>5 DEF ControlDescribesRun
    <2> QED
        BY <2>1, <2>2 DEF SessionInv
<1> QED
    BY <1>1, SessionInvariant, PTL

\* A plan reaches the disk only if the user approved that very call.
THEOREM ApprovedChanges == Spec => []ChangesAreApproved
<1>1. SessionInv => ChangesAreApproved
    BY DEF SessionInv, Shared, ChangesAreApproved
<1> QED
    BY <1>1, SessionInvariant, PTL

\* No operation destroys what the session has not seen, but in the one window.
THEOREM SeenIsLost == Spec => []OnlySeenIsLost
<1>1. SessionInv => OnlySeenIsLost
    BY DEF SessionInv, Shared, OnlySeenIsLost
<1> QED
    BY <1>1, SessionInvariant, PTL

\* A run reports "cancelled" only if it was, and always when it was while applying.
THEOREM ReportedCancel == Spec => []CancelIsReported
<1>1. SessionInv => CancelIsReported
    <2> SUFFICES ASSUME SessionInv, NEW s \in Tasks, task[s].pc = "done"
                 PROVE  /\ task[s].outcome = "cancelled" => s \in cancelled
                        /\ s \in ghost.stopped => task[s].outcome = "cancelled"
        BY DEF CancelIsReported
    <2>1. Quiet(s, task[s]) \/ Foreground(s, task[s])
        BY DEF SessionInv, Nobody, Alone
    <2> QED
        BY <2>1 DEF Quiet, Foreground, Running
<1> QED
    BY <1>1, SessionInvariant, PTL

\* A request as the model expects it.
WellFormed(q) ==
    /\ q # <<>> /\ q[1].kind = "user"
    /\ \A i \in 1..Len(q) : q[i].kind = "result" =>
        \E j \in 1..i - 1 :
            /\ q[j].kind = "assistant" /\ q[i].ids \subseteq q[j].ids
            /\ \A k \in j..i : q[k].kind # "user"

\* What is kept of the messages from one of the user's on is well formed.
LEMMA SuffixWellFormed ==
    ASSUME NEW m \in Seq(MessageType), MessagesOK(m), NEW c \in 1..Len(m), m[c].kind = "user",
           NEW q, q = SubSeq(m, c, Len(m))
    PROVE  WellFormed(q)
<1>1. /\ Len(m) \in Nat /\ c \in Nat /\ DOMAIN m = 1..Len(m) /\ q \in Seq(MessageType)
      /\ Len(q) = Len(m) - c + 1 /\ \A i \in 1..Len(q) : q[i] = m[c + i - 1]
    OBVIOUS
<1>2. q # <<>> /\ q[1].kind = "user"
    <2>1. 1 \in 1..Len(q) /\ c + 1 - 1 = c /\ Len(<<>>) = 0
        BY <1>1
    <2>2. q[1] = m[c] /\ Len(q) # 0
        BY <1>1, <2>1
    <2> QED
        BY <2>1, <2>2
<1>3. ASSUME NEW i \in 1..Len(q), q[i].kind = "result"
      PROVE  \E j \in 1..i - 1 : /\ q[j].kind = "assistant" /\ q[i].ids \subseteq q[j].ids
                                 /\ \A k \in j..i : q[k].kind # "user"
    <2>1. PICK h : h = c + i - 1
        OBVIOUS
    <2>2. h \in 1..Len(m) /\ q[i] = m[h] /\ c <= h
        BY <1>1, <2>1
    <2>3. PICK g \in 1..h - 1 : /\ m[g].kind = "assistant" /\ m[h].ids \subseteq m[g].ids
                                /\ \A k \in g..h : m[k].kind # "user"
        BY <1>1, <1>3, <2>2 DEF MessagesOK
    <2>4. c < g
        <3>1. ~(c \in g..h)
            BY <2>3
        <3> QED
            BY <1>1, <2>2, <3>1
    <2>5. PICK j : j = g - c + 1
        OBVIOUS
    <2>6. j \in 1..i - 1 /\ j \in 1..Len(q) /\ q[j] = m[g]
        BY <1>1, <2>1, <2>2, <2>4, <2>5
    <2>7. ASSUME NEW k \in j..i PROVE q[k].kind # "user"
        <3>1. k \in 1..Len(q) /\ c + k - 1 \in g..h
            BY <1>1, <2>1, <2>2, <2>4, <2>5
        <3> QED
            BY <1>1, <2>3, <3>1
    <2> QED
        BY <2>2, <2>3, <2>6, <2>7
<1> QED
    BY <1>2, <1>3 DEF WellFormed

\* Compaction cuts at a user's message.
LEMMA CutAtUser ==
    ASSUME NEW m \in Seq(MessageType), MessagesOK(m), m # <<>>,
           NEW n \in 0..Len(m), n = 0 \/ UserTurns(SubSeq(m, n + 1, Len(m))) >= MinRawTurns
    PROVE  Cut(m, n) \in 1..Len(m) /\ m[Cut(m, n)].kind = "user"
<1>1. Len(m) \in Nat /\ n \in Nat
    OBVIOUS
<1>2. CASE n = 0
    <2>1. Cut(m, n) = 1
        BY <1>2 DEF Cut
    <2> QED
        BY <1>1, <2>1 DEF MessagesOK
<1>3. CASE n # 0
    <2>1. PICK i \in n + 1..Len(m) : m[i].kind = "user"
        <3>1. PICK q : q = SubSeq(m, n + 1, Len(m))
            OBVIOUS
        <3>2. /\ q \in Seq(MessageType) /\ Len(q) \in Nat
              /\ \A i \in 1..Len(q) : n + i \in n + 1..Len(m) /\ q[i] = m[n + i]
            BY <1>1, <3>1
        <3>3. {i \in 1..Len(q) : q[i].kind = "user"} # {}
            <4>1. Cardinality({}) = 0
                BY FS_EmptySet
            <4>2. UserTurns(q) >= MinRawTurns
                BY <1>3, <3>1
            <4>3. ~(0 >= MinRawTurns)
                BY SessionAssumption
            <4> QED
                BY <4>1, <4>2, <4>3 DEF UserTurns
        <3> QED
            BY <3>2, <3>3
    <2>2. PICK S : S = {k \in n + 1..Len(m) : m[k].kind = "user"}
        OBVIOUS
    <2>3. S \subseteq Nat /\ i \in S
        BY <1>1, <2>1, <2>2
    <2>4. PICK k \in S : \A j \in S : k <= j
        BY <2>3, LeastNatural
    <2>5. /\ k \in n + 1..Len(m) /\ m[k].kind = "user"
          /\ \A j \in n + 1..k - 1 : m[j].kind # "user"
        <3>1. k \in n + 1..Len(m) /\ m[k].kind = "user"
            BY <2>2
        <3>2. ASSUME NEW j \in n + 1..k - 1 PROVE m[j].kind # "user"
            <4>1. j \in n + 1..Len(m) /\ ~(k <= j)
                BY <1>1, <3>1
            <4> QED
                BY <2>2, <2>4, <4>1
        <3> QED
            BY <3>1, <3>2
    <2>6. Cut(m, n) = CHOOSE h \in n + 1..Len(m) :
            m[h].kind = "user" /\ \A j \in n + 1..h - 1 : m[j].kind # "user"
        BY <1>3 DEF Cut
    <2>7. Cut(m, n) \in n + 1..Len(m) /\ m[Cut(m, n)].kind = "user"
        BY <2>5, <2>6, Zenon
    <2> QED
        BY <1>1, <2>7
<1> QED
    BY <1>2, <1>3

\* Every request to the model is well formed, compacted or not.
THEOREM WellFormedRequests == Spec => []RequestsAreWellFormed
<1>1. SessionInv => RequestsAreWellFormed
    <2> SUFFICES ASSUME SessionInv, NEW r \in Tasks, task[r].pc = "connect", NEW q \in Requests(messages)
                 PROVE  WellFormed(q)
        BY DEF RequestsAreWellFormed, WellFormed
    <2>1. PICK m : m = messages
        OBVIOUS
    <2>2. m \in Seq(MessageType) /\ MessagesOK(m) /\ m # <<>>
        BY <2>1, RunFacts
    <2>3. PICK n \in 0..Len(m) : /\ n = 0 \/ UserTurns(SubSeq(m, n + 1, Len(m))) >= MinRawTurns
                                 /\ q = SubSeq(m, Cut(m, n), Len(m))
        BY <2>1 DEF Requests
    <2>4. PICK c : c = Cut(m, n)
        OBVIOUS
    <2>5. c \in 1..Len(m) /\ m[c].kind = "user"
        BY <2>2, <2>3, <2>4, CutAtUser
    <2>6. q = SubSeq(m, c, Len(m))
        BY <2>3, <2>4
    <2> QED
        BY <2>2, <2>5, <2>6, SuffixWellFormed
<1> QED
    BY <1>1, SessionInvariant, PTL
=============================================================================
