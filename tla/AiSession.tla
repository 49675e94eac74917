------------------------------ MODULE AiSession ------------------------------
(***************************************************************************)
(* A chat session of crates/kuku-ai with the desktop's host and file tools: *)
(* the turns a user sends, each a spawned task that streams from a model,  *)
(* runs the tools it asks for, waits for the user to approve a change to   *)
(* the vault and applies it; cancellation and reset at any moment.         *)
(*                                                                         *)
(* A step of a task is what it does between two awaits, or between two     *)
(* takings of the session's locks.  The user, other programs and the panel *)
(* act in between.  A file's content is a version number, which is also    *)
(* its checksum; 0 is "no such file", and the model writes one and the     *)
(* same text throughout.  Directories, several operations in one plan (no  *)
(* tool builds one) and the text of messages are left out.                 *)
(***************************************************************************)
EXTENDS Integers, Sequences, FiniteSets

CONSTANTS
    MaxRuns,        \* bound: messages the user sends
    Paths,          \* files of the vault
    MaxVersion,     \* bound: changes that users make to the vault, plus one
    RoundLimit,     \* AiConfig.round_limit
    MaxCalls,       \* bound: tool calls the model makes
    MinRawTurns     \* HISTORY_MIN_RAW_USER_TURNS

ASSUME SessionAssumption ==
    /\ MaxRuns \in Nat /\ MaxVersion \in Nat /\ RoundLimit \in Nat /\ MaxCalls \in Nat
    /\ MinRawTurns \in Nat \ {0} /\ Paths # {}

Tasks == 1..MaxRuns
Draft == MaxVersion + 1      \* the content the model writes
Versions == 0..Draft
Modes == {"Ask", "Agent", "Inline"}
Tools == {"read_file", "proxy", "edit_file", "create_file", "delete_file", "move_file"}
ReadOnly == {"read_file", "proxy"}

Plans == [op : {"none", "replace", "create", "delete", "rename"},
          path : Paths, to : Paths, content : Versions, expected : Versions]

VARIABLES
    task,       \* of each message sent: where its run is and what it holds
    control,    \* SessionControl: status, whose token it holds (0: None), deferred_cancel
    cancelled,  \* runs whose token is cancelled
    approvals,  \* call ids with a sender in SessionRuntime.approvals
    pending,    \* call ids with a sender in ProxyBroker.pending
    messages,   \* SessionRuntime.messages
    snap,       \* path_snapshots, 0 for none
    registered, \* the session is in AiState.sessions
    calls,      \* call ids handed out so far
    disk,       \* the vault
    version,    \* number of the last change by a user
    ui,         \* ChatSessionState.status: "idle", or anything that refuses a message
    ghost       \* history variables, see InitGhost

vars == <<task, control, cancelled, approvals, pending, messages, snap, registered, calls,
          disk, version, ui, ghost>>
session == <<control, cancelled, approvals, pending, snap>>
vault == <<disk, version>>

\* approved: calls of the live run that the user approved; imposed: calls that
\* reached the disk without that; seen: contents the session read or wrote;
\* window: contents that someone else wrote since the check of the operation under
\* way; lost: other contents an operation destroyed unseen; stopped: runs
\* cancelled while Applying.
InitGhost == [approved |-> {}, imposed |-> {}, seen |-> {0, Draft}, window |-> {}, lost |-> {}, stopped |-> {}]

Pcs == {"unsent", "spawned", "connect", "stream", "call", "approval", "precheck", "check", "write",
        "result", "restore", "proxy", "finish", "done"}
Outcomes == {"none", "stop", "limit", "error", "cancelled"}

\* todo: ids of the calls still to answer, the one under way first.  landed: the
\* operation took effect.  told: the panel has handled the done event.
TaskType == [pc : Pcs, mode : Modes, active : Paths, embedded : [Paths -> Versions], round : 0..RoundLimit,
             todo : Seq(Nat), plan : Plans, answer : {"none", "approve", "reject", "output"},
             landed : BOOLEAN, outcome : Outcomes, told : BOOLEAN]

NoPlan == LET p == CHOOSE p \in Paths : TRUE
          IN  [op |-> "none", path |-> p, to |-> p, content |-> 0, expected |-> 0]
Unsent == [pc |-> "unsent", mode |-> "Ask", active |-> NoPlan.path, embedded |-> [p \in Paths |-> 0],
           round |-> 0, todo |-> <<>>, plan |-> NoPlan, answer |-> "none", landed |-> FALSE,
           outcome |-> "none", told |-> FALSE]

\* ids: the calls an assistant message makes, or the one a result answers.
MessageType == [kind : {"user", "assistant", "result"}, ids : SUBSET Nat]

TypeOK ==
    /\ task \in [Tasks -> TaskType]
    /\ control \in [status : {"Idle", "Streaming", "AwaitingApproval", "Applying"},
                    token : {0} \cup Tasks, deferred : BOOLEAN]
    /\ cancelled \subseteq Tasks
    /\ approvals \subseteq 1..calls /\ pending \subseteq 1..calls /\ calls \in Nat
    /\ messages \in Seq(MessageType)
    /\ snap \in [Paths -> Versions] /\ disk \in [Paths -> Versions] /\ version \in Versions
    /\ registered \in BOOLEAN
    /\ ui \in {"idle", "busy", "error"}
    /\ ghost.approved \subseteq 1..calls /\ ghost.imposed \subseteq 1..calls
    /\ \A f \in {"seen", "window", "lost"} : ghost[f] \subseteq Versions
    /\ ghost.stopped \subseteq Tasks

\* ai_new_session, in a vault whose first file exists.
Init ==
    /\ task = [r \in Tasks |-> Unsent]
    /\ control = [status |-> "Idle", token |-> 0, deferred |-> FALSE]
    /\ cancelled = {} /\ approvals = {} /\ pending = {}
    /\ messages = <<>>
    /\ snap = [p \in Paths |-> 0]
    /\ registered = TRUE
    /\ calls = 0
    /\ disk = [p \in Paths |-> IF p = NoPlan.path THEN 1 ELSE 0]
    /\ version = 1
    /\ ui = "idle"
    /\ ghost = InitGhost

-----------------------------------------------------------------------------
(* The panel and the user.                                                 *)

\* Mutant: the panel does not wait for the run before.
SendMessageAtOnce(r, mode, active, attached) ==
    /\ registered /\ task[r].pc = "unsent" /\ (r > 1 => task[r - 1].pc # "unsent")
    /\ task' = [task EXCEPT ![r] = [@ EXCEPT !.pc = "spawned", !.mode = mode, !.active = active]]
    /\ ui' = "busy"
    /\ UNCHANGED <<session, messages, registered, calls, vault, ghost>>

\* sendMessage and ai_send_message: the panel refuses unless the session is
\* idle; the command spawns the run.  A file may be attached with its checksum.
SendMessage(r, mode, active, attached) ==
    /\ ui = "idle" /\ registered
    /\ mode # "Inline" => active = NoPlan.path     \* tools may name any path then
    /\ task[r].pc = "unsent" /\ (r > 1 => task[r - 1].pc # "unsent")
    /\ task' = [task EXCEPT ![r] = [@ EXCEPT !.pc = "spawned", !.mode = mode, !.active = active,
                    !.embedded = [p \in Paths |-> IF p \in attached THEN disk[p] ELSE 0]]]
    /\ ui' = "busy"
    /\ UNCHANGED <<session, messages, registered, calls, vault, ghost>>

\* finishSession, on the done event.
FinishSession(r) ==
    /\ task[r].pc = "done" /\ ~task[r].told
    /\ task' = [task EXCEPT ![r].told = TRUE]
    /\ ui' = IF task[r].outcome = "error" THEN "error" ELSE "idle"
    /\ UNCHANGED <<session, messages, registered, calls, vault, ghost>>

\* SessionRuntime::cancel: a run that is applying keeps its token.
Cancel ==
    /\ cancelled' = cancelled \cup ({control.token} \ {0})
    /\ IF control.status = "Applying"
       THEN /\ control' = [control EXCEPT !.deferred = TRUE]
            /\ ghost' = [ghost EXCEPT !.stopped =
                            @ \cup {r \in Tasks : task[r].pc \in {"precheck", "check", "write", "result", "restore"}}]
       ELSE /\ control' = [control EXCEPT !.token = 0]
            /\ UNCHANGED ghost

AiCancel ==
    /\ registered
    /\ Cancel
    /\ UNCHANGED <<task, approvals, pending, messages, snap, registered, calls, vault, ui>>

\* AiState::reset_state, then resetChatState.
ResetState ==
    /\ registered
    /\ registered' = FALSE
    /\ Cancel
    /\ ui' = "error"
    /\ UNCHANGED <<task, approvals, pending, messages, snap, calls, vault>>

\* ai_resolve_approval: a call id that is not in the map is refused.
ResolveApproval(r, decision) ==
    /\ registered
    /\ task[r].pc = "approval" /\ Head(task[r].todo) \in approvals
    /\ approvals' = approvals \ {Head(task[r].todo)}
    /\ task' = [task EXCEPT ![r].answer = decision]
    /\ ghost' = IF decision = "approve" THEN [ghost EXCEPT !.approved = @ \cup {Head(task[r].todo)}] ELSE ghost
    /\ UNCHANGED <<control, cancelled, pending, messages, snap, registered, calls, vault, ui>>

\* ai_submit_proxy_tool_result.
SubmitProxyToolResult(r) ==
    /\ task[r].pc = "proxy" /\ Head(task[r].todo) \in pending
    /\ pending' = pending \ {Head(task[r].todo)}
    /\ task' = [task EXCEPT ![r].answer = "output"]
    /\ UNCHANGED <<control, cancelled, approvals, messages, snap, registered, calls, vault, ui, ghost>>

\* The user, or another program, writes or deletes a file.
UserWrites(p, content) ==
    /\ version < MaxVersion
    /\ content # disk[p]
    /\ disk' = [disk EXCEPT ![p] = content]
    /\ version' = version + 1
    /\ ghost' = IF \E r \in Tasks : task[r].pc = "write" THEN [ghost EXCEPT !.window = @ \cup {content}] ELSE ghost
    /\ UNCHANGED <<task, session, messages, registered, calls, ui>>

-----------------------------------------------------------------------------
(* What the model may be sent.                                             *)

UserTurns(m) == Cardinality({i \in 1..Len(m) : m[i].kind = "user"})

\* Mutant: what is kept begins where the budget ran out.
CutAnywhere(m, omitted) == omitted + 1

\* compact_history_for_model: the first kept message.  Dropping stops as soon as
\* MinRawTurns user messages are kept and the next one would not fit; how much
\* fits depends on sizes that are left open.  Then on to the next user message.
\* (A summary of what is dropped goes before it: a user message and an answer.)
Cut(m, omitted) ==
    IF omitted = 0 THEN 1
    ELSE CHOOSE i \in omitted + 1..Len(m) :
            m[i].kind = "user" /\ \A j \in omitted + 1..i - 1 : m[j].kind # "user"

Requests(m) ==
    {SubSeq(m, Cut(m, n), Len(m)) :
        n \in {n \in 0..Len(m) : n = 0 \/ UserTurns(SubSeq(m, n + 1, Len(m))) >= MinRawTurns}}

-----------------------------------------------------------------------------
(* The run of a message: run_turn.                                         *)

Finish(t, outcome) == [t EXCEPT !.pc = "finish", !.outcome = outcome, !.plan = NoPlan, !.todo = <<>>,
                                !.answer = "none", !.landed = FALSE, !.round = 0, !.mode = "Ask",
                                !.active = NoPlan.path, !.embedded = Unsent.embedded]

\* Mutant: one round more than round_limit.
NextRoundOffByOne(t) ==
    IF t.round > RoundLimit THEN Finish(t, "limit")
    ELSE [t EXCEPT !.pc = "connect", !.round = @ + 1]

NextRound(t) ==
    IF t.round = RoundLimit THEN Finish(t, "limit")
    ELSE [t EXCEPT !.pc = "connect", !.round = @ + 1]

\* The call under way is answered; on to the next call, or the next round.
Answered(t) ==
    LET u == [t EXCEPT !.todo = Tail(@), !.plan = NoPlan, !.answer = "none", !.landed = FALSE, !.pc = "call"]
    IN  IF u.todo = <<>> THEN NextRound(u) ELSE u

Result(t) == [kind |-> "result", ids |-> {Head(t.todo)}]
Answer(r) ==
    /\ task' = [task EXCEPT ![r] = Answered(@)]
    /\ messages' = Append(messages, Result(task[r]))

\* start_run and the first part of run_turn_inner; a busy session refuses.  The
\* backend may not be configured.
StartRun(r) ==
    /\ task[r].pc = "spawned"
    /\ \/ /\ control.status # "Idle"
          /\ task' = [task EXCEPT ![r] = Finish(@, "error")]
          /\ UNCHANGED <<control, snap, messages, ghost>>
       \/ /\ control.status = "Idle"
          /\ control' = [status |-> "Streaming", token |-> r, deferred |-> FALSE]
          /\ snap' = [p \in Paths |-> IF task[r].embedded[p] # 0 THEN task[r].embedded[p] ELSE snap[p]]
          /\ ghost' = [ghost EXCEPT !.seen = @ \cup {task[r].embedded[p] : p \in Paths}]
          /\ messages' = Append(messages, [kind |-> "user", ids |-> {}])
          /\ \/ task' = [task EXCEPT ![r] = NextRound([@ EXCEPT !.embedded = Unsent.embedded])]
             \/ task' = [task EXCEPT ![r] = Finish(@, "error")]
    /\ UNCHANGED <<cancelled, approvals, pending, registered, calls, vault, ui>>

\* authorization header, stream_turn, one refresh and retry: not cancellable.
Connect(r) ==
    /\ task[r].pc = "connect"
    /\ \/ task' = [task EXCEPT ![r].pc = "stream"]
       \/ task' = [task EXCEPT ![r] = Finish(@, "error")]
    /\ UNCHANGED <<session, messages, registered, calls, vault, ui, ghost>>

\* The stream ends with text or nothing, with n tool calls, with an error, or is cancelled.
Stream(r) ==
    /\ task[r].pc = "stream"
    /\ \/ /\ r \in cancelled
          /\ task' = [task EXCEPT ![r] = Finish(@, "cancelled")]
          /\ UNCHANGED <<messages, calls>>
       \/ /\ task' = [task EXCEPT ![r] = Finish(@, "error")]
          /\ UNCHANGED <<messages, calls>>
       \/ /\ task' = [task EXCEPT ![r] = Finish(@, "stop")]
          /\ messages' \in {messages, Append(messages, [kind |-> "assistant", ids |-> {}])}
          /\ UNCHANGED calls
       \/ \E n \in 1..MaxCalls - calls :
          /\ task' = [task EXCEPT ![r].pc = "call", ![r].todo = [i \in 1..n |-> calls + i]]
          /\ messages' = Append(messages, [kind |-> "assistant", ids |-> calls + 1..calls + n])
          /\ calls' = calls + n
    /\ UNCHANGED <<session, registered, vault, ui, ghost>>

-----------------------------------------------------------------------------
(* Tool calls: handle_tool_call.                                           *)

allowed_tools(mode) ==
    CASE mode = "Agent" -> Tools
      [] mode = "Ask" -> ReadOnly
      [] mode = "Inline" -> ReadOnly \cup {"edit_file"}

\* A tool that is not allowed, one that fails, and a read of a path that is not there.
FailingTool(r) ==
    /\ task[r].pc = "call"
    /\ Answer(r)
    /\ UNCHANGED <<session, registered, calls, vault, ui, ghost>>

\* read_file: the snapshot is kept only while the session is registered.
ReadFile(r, p) ==
    /\ task[r].pc = "call" /\ "read_file" \in allowed_tools(task[r].mode)
    /\ disk[p] # 0 /\ registered
    /\ snap' = [snap EXCEPT ![p] = disk[p]]
    /\ ghost' = [ghost EXCEPT !.seen = @ \cup {disk[p]}]
    /\ Answer(r)
    /\ UNCHANGED <<control, cancelled, approvals, pending, registered, calls, vault, ui>>

\* What the mutating tools propose: edit and delete need a snapshot, an inline
\* edit is of the active file, a move needs its source.
Proposals(t) ==
    LET Plan(op, p, q, c, e) == [op |-> op, path |-> p, to |-> q, content |-> c, expected |-> e]
    IN  {Plan("replace", p, p, Draft, snap[p]) :
                    p \in {p \in Paths : registered /\ snap[p] # 0 /\ (t.mode = "Inline" => p = t.active)}}
        \cup {Plan("create", p, p, Draft, 0) : p \in {p \in Paths : t.mode = "Agent"}}
        \cup {Plan("delete", p, p, 0, snap[p]) : p \in {p \in Paths : t.mode = "Agent" /\ registered /\ snap[p] # 0}}
        \cup {Plan("rename", pq[1], pq[2], 0, 0) :
                    pq \in {pq \in Paths \X Paths : t.mode = "Agent" /\ pq[1] # pq[2] /\ disk[pq[1]] # 0}}

\* execute_native_tool of a mutating tool, into gate_and_apply: the sender is
\* registered, the status set, the user asked.
Propose(r, plan) ==
    /\ task[r].pc = "call" /\ task[r].mode # "Ask"
    /\ plan \in Proposals(task[r])
    /\ approvals' = approvals \cup {Head(task[r].todo)}
    /\ control' = [control EXCEPT !.status = "AwaitingApproval"]
    /\ task' = [task EXCEPT ![r].pc = "approval", ![r].plan = plan]
    /\ UNCHANGED <<cancelled, pending, messages, snap, registered, calls, vault, ui, ghost>>

\* Mutant: any decision is an approval.
DecideAny(r) ==
    /\ task[r].pc = "approval" /\ task[r].answer # "none"
    /\ control' = [control EXCEPT !.status = "Applying"]
    /\ task' = [task EXCEPT ![r].pc = "precheck"]
    /\ UNCHANGED <<approvals, messages, cancelled, pending, snap, registered, calls, vault, ui, ghost>>

\* Mutant: the wait for the user ignores the token.
DecideUncancelled(r) ==
    /\ task[r].pc = "approval" /\ task[r].answer = "reject"
    /\ control' = [control EXCEPT !.status = "Streaming"]
    /\ Answer(r)
    /\ UNCHANGED <<approvals, cancelled, pending, snap, registered, calls, vault, ui, ghost>>

\* The select on the approval: either branch when both are ready.
Decide(r) ==
    /\ task[r].pc = "approval"
    /\ \/ /\ r \in cancelled
          /\ approvals' = approvals \ {Head(task[r].todo)}
          /\ control' = [control EXCEPT !.status = "Streaming"]
          /\ task' = [task EXCEPT ![r] = Finish(@, "cancelled")]
          /\ UNCHANGED messages
       \/ /\ task[r].answer = "reject"
          /\ control' = [control EXCEPT !.status = "Streaming"]
          /\ Answer(r)
          /\ UNCHANGED approvals
       \/ /\ task[r].answer = "approve"
          /\ control' = [control EXCEPT !.status = "Applying"]
          /\ task' = [task EXCEPT ![r].pc = "precheck"]
          /\ UNCHANGED <<approvals, messages>>
    /\ UNCHANGED <<cancelled, pending, snap, registered, calls, vault, ui, ghost>>

Conflicts(plan) ==
    CASE plan.op = "create" -> disk[plan.path] # 0
      [] plan.op = "rename" -> disk[plan.path] = 0 \/ disk[plan.to] # 0
      [] OTHER -> disk[plan.path] # plan.expected

\* apply_mutation up to the operation: a guard may refuse the path (an error,
\* not a conflict), a file may have changed since it was read.
Precheck(r) ==
    /\ task[r].pc = "precheck"
    /\ \/ task' = [task EXCEPT ![r].pc = "restore"]
       \/ task' = [task EXCEPT ![r].pc = IF Conflicts(task[r].plan) THEN "result" ELSE "check"]
    /\ UNCHANGED <<session, messages, registered, calls, vault, ui, ghost>>

\* Mutant: no check after apply_mutation's own.
GuardedCheckSkipped(r) ==
    /\ task[r].pc = "check"
    /\ task' = [task EXCEPT ![r].pc = "write"]
    /\ UNCHANGED <<session, messages, registered, calls, vault, ui, ghost>>

\* The check of guarded_write and its siblings; the write is another await.
GuardedCheck(r) ==
    /\ task[r].pc = "check"
    /\ task' = [task EXCEPT ![r].pc = IF Conflicts(task[r].plan) THEN "result" ELSE "write"]
    /\ UNCHANGED <<session, messages, registered, calls, vault, ui, ghost>>

\* The write, which may fail; a file that is gone can be neither deleted nor renamed.
GuardedWrite(r) ==
    LET plan == task[r].plan
        gone == plan.op \in {"delete", "rename"} /\ disk[plan.path] = 0
        target == IF plan.op = "rename" THEN plan.to ELSE plan.path
    IN  /\ task[r].pc = "write"
        /\ \/ /\ task' = [task EXCEPT ![r].pc = "result"]
              /\ ghost' = [ghost EXCEPT !.window = {}]
              /\ UNCHANGED disk
           \/ /\ ~gone
              /\ disk' = CASE plan.op = "rename" -> [disk EXCEPT ![plan.to] = disk[plan.path], ![plan.path] = 0]
                           [] OTHER -> [disk EXCEPT ![plan.path] = plan.content]
              /\ ghost' = [ghost EXCEPT !.imposed = @ \cup ({Head(task[r].todo)} \ ghost.approved),
                                        !.lost = @ \cup ({disk[target]} \ (ghost.seen \cup ghost.window)),
                                        !.window = {}]
              /\ task' = [task EXCEPT ![r].pc = "result", ![r].landed = TRUE]
        /\ UNCHANGED <<session, messages, registered, calls, version, ui>>

\* apply_successful_mutation.
Remembered(plan) ==
    CASE plan.op \in {"create", "replace"} -> [snap EXCEPT ![plan.path] = plan.content]
      [] plan.op = "delete" -> [snap EXCEPT ![plan.path] = 0]
      [] plan.op = "rename" -> [snap EXCEPT ![plan.to] = snap[plan.path], ![plan.path] = 0]

\* gate_and_apply after the host's answer: snapshots, then is_cancelled.
TakeResult(r) ==
    /\ task[r].pc = "result"
    /\ snap' = IF task[r].landed THEN Remembered(task[r].plan) ELSE snap
    /\ task' = [task EXCEPT ![r].pc = "restore",
                            ![r].outcome = IF r \in cancelled THEN "cancelled" ELSE @]
    /\ UNCHANGED <<control, cancelled, approvals, pending, messages, registered, calls, vault, ui, ghost>>

\* Dropping RestoreStreaming.
Restore(r) ==
    /\ task[r].pc = "restore"
    /\ control' = [control EXCEPT !.status = "Streaming"]
    /\ IF task[r].outcome = "cancelled"
       THEN task' = [task EXCEPT ![r] = Finish(@, "cancelled")] /\ UNCHANGED messages
       ELSE Answer(r)
    /\ UNCHANGED <<cancelled, approvals, pending, snap, registered, calls, vault, ui, ghost>>

\* execute_proxy_tool: ask the panel, then wait.
CallProxy(r) ==
    /\ task[r].pc = "call"
    /\ pending' = pending \cup {Head(task[r].todo)}
    /\ task' = [task EXCEPT ![r].pc = "proxy"]
    /\ UNCHANGED <<control, cancelled, approvals, messages, snap, registered, calls, vault, ui, ghost>>

\* Mutant: no timeout.
AwaitProxyForever(r) ==
    /\ task[r].pc = "proxy" /\ task[r].answer = "output"
    /\ Answer(r)
    /\ UNCHANGED <<control, cancelled, approvals, pending, snap, registered, calls, vault, ui, ghost>>

\* Cancelled, answered, or timed out.
AwaitProxy(r) ==
    /\ task[r].pc = "proxy"
    /\ \/ /\ r \in cancelled
          /\ pending' = pending \ {Head(task[r].todo)}
          /\ task' = [task EXCEPT ![r] = Finish(@, "cancelled")]
          /\ UNCHANGED messages
       \/ /\ pending' = pending \ {Head(task[r].todo)}
          /\ Answer(r)
    /\ UNCHANGED <<control, cancelled, approvals, snap, registered, calls, vault, ui, ghost>>

\* Mutant: deferred_cancel is not looked at.
FinalizeRunPlain(r) ==
    /\ task[r].pc = "finish"
    /\ control' = [status |-> "Idle", token |-> 0, deferred |-> FALSE]
    /\ task' = [task EXCEPT ![r].pc = "done"]
    /\ ghost' = [ghost EXCEPT !.approved = {}]
    /\ UNCHANGED <<cancelled, approvals, pending, messages, snap, registered, calls, vault, ui>>

\* finalize_run, whatever run_turn_inner returned.
FinalizeRun(r) ==
    /\ task[r].pc = "finish"
    /\ control' = [status |-> "Idle", token |-> 0, deferred |-> FALSE]
    /\ task' = [task EXCEPT ![r].pc = "done",
                            ![r].outcome = IF control.deferred THEN "cancelled" ELSE @]
    /\ ghost' = [ghost EXCEPT !.approved = {}]
    /\ UNCHANGED <<cancelled, approvals, pending, messages, snap, registered, calls, vault, ui>>

-----------------------------------------------------------------------------
Step(r) ==
    \/ StartRun(r) \/ Connect(r) \/ Stream(r)
    \/ FailingTool(r) \/ (\E p \in Paths : ReadFile(r, p))
    \/ (\E plan \in Proposals(task[r]) : Propose(r, plan)) \/ Decide(r)
    \/ Precheck(r) \/ GuardedCheck(r) \/ GuardedWrite(r) \/ TakeResult(r) \/ Restore(r)
    \/ CallProxy(r) \/ AwaitProxy(r) \/ FinalizeRun(r)

User ==
    \/ \E r \in Tasks, mode \in Modes, p, q \in Paths : \E attached \in {{}, {q}} : SendMessage(r, mode, p, attached)
    \/ \E r \in Tasks : FinishSession(r) \/ SubmitProxyToolResult(r)
    \/ \E r \in Tasks, decision \in {"approve", "reject"} : ResolveApproval(r, decision)
    \/ AiCancel \/ ResetState
    \/ \E p \in Paths, content \in {0, version + 1} : UserWrites(p, content)

Next == User \/ \E r \in Tasks : Step(r)

\* Every await of a run but the approval ends: the provider answers or closes
\* the connection, file operations return, a proxy call has a timeout, and the
\* executor polls a task that can go on.  Nothing is assumed of the user.
Spec == Init /\ [][Next]_vars /\ \A r \in Tasks : WF_vars(Step(r))

-----------------------------------------------------------------------------
(* Properties.                                                             *)

Live(r) == task[r].pc \notin {"unsent", "spawned", "done"}
Applying(r) == task[r].pc \in {"precheck", "check", "write", "result", "restore"}

\* No sender outlives its wait: what the two maps hold is exactly what a run
\* waits for, so a late answer from the panel is refused, never kept for later.
SendersAreAwaited ==
    /\ approvals = {Head(task[r].todo) : r \in {r \in Tasks : task[r].pc = "approval" /\ task[r].answer = "none"}}
    /\ pending = {Head(task[r].todo) : r \in {r \in Tasks : task[r].pc = "proxy" /\ task[r].answer = "none"}}

\* The session's control block and its senders always describe the one run there
\* is: the status says what the run waits for, and cancel still reaches it unless
\* it has been cancelled.  finalize_run resets the block even for a run that start_run
\* refused, so this rests on the panel sending one message at a time.
ControlDescribesRun ==
    /\ \A r, s \in Tasks : Live(r) /\ Live(s) => r = s
    /\ control.status = "Idle" <=> \A r \in Tasks : ~Live(r)
    /\ \A r \in Tasks : Live(r) =>
        /\ control.status = "AwaitingApproval" <=> task[r].pc = "approval"
        /\ control.status = "Applying" <=> Applying(r)
        /\ control.token = r \/ r \in cancelled
    /\ SendersAreAwaited

\* A plan reaches the disk only if the user approved that very call, whatever
\* the order in which cancel, decision and reset arrive (gate_and_apply).
ChangesAreApproved == ghost.imposed = {}

\* An operation destroys only contents the session has read or written itself;
\* what another writer put there in between is kept, except in the window
\* between the check of a guarded operation and its write.
OnlySeenIsLost == ghost.lost = {}

\* A run reports "cancelled" only if the user cancelled that run, and always when
\* the user did so while a change was being applied (deferred_cancel).
CancelIsReported ==
    \A r \in Tasks : task[r].pc = "done" =>
        /\ task[r].outcome = "cancelled" => r \in cancelled
        /\ r \in ghost.stopped => task[r].outcome = "cancelled"

\* Every request to the model, compacted or not, begins with a user message, and
\* a tool result in it follows the assistant message that made the call, in the
\* same turn (compact_history_for_model).
RequestsAreWellFormed ==
    (\E r \in Tasks : task[r].pc = "connect") =>
        \A q \in Requests(messages) :
            /\ q # <<>> /\ q[1].kind = "user"
            /\ \A i \in 1..Len(q) : q[i].kind = "result" =>
                \E j \in 1..i - 1 :
                    /\ q[j].kind = "assistant" /\ q[i].ids \subseteq q[j].ids
                    /\ \A k \in j..i : q[k].kind # "user"

\* A run that was cancelled ends, also when the user never answers its approval.
CancelledRunsEnd == \A r \in Tasks : (Live(r) /\ r \in cancelled) ~> (task[r].pc = "done")

\* Nothing but a question to the user holds up a run: in particular a proxy tool
\* that never answers does not (execute_proxy_tool's timeout).
RunsReachEndOrUser == \A r \in Tasks : Live(r) ~> (task[r].pc \in {"done", "approval"})

=============================================================================
