------------------------------ MODULE AgentLoop ------------------------------
(***************************************************************************)
(* llm/AgentLoop: the workers' side of a chat.  An agent calls the LLM     *)
(* with the session's history, saves what the LLM asks for and what the    *)
(* tools answer, and calls again, until the LLM answers without tools, a   *)
(* call fails, the rounds are used up or the client is gone.  Agents of    *)
(* one session run side by side: an action is a piece of execute_loop with *)
(* at most one access to the session.                                      *)
(***************************************************************************)
EXTENDS SessionManager

VARIABLES
  pc,            (* where execute_loop stands                              *)
  iteration,     (* iteration_                                             *)
  message,       (* the user's message is not empty                        *)
  request,       (* the messages of the running call                       *)
  text,          (* result.content is not empty and there are no tool_calls *)
  calls,         (* the number of result.tool_calls                        *)
  next,          (* the tool call that is executed next                    *)
  closed,        (* the last chunk an agent has emitted is done            *)
  dones,         (* how many done chunks it has emitted                    *)
  canceled,      (* ctx.canceled                                           *)
  shared         (* history variable: two agents have been under way       *)

chunkVars == <<closed, dones>>
agentVars == <<pc, iteration, message, request, text, calls, next, chunkVars>>
sessionVars == <<history, quiet>>
vars == <<sessionVars, agentVars, canceled, shared>>

PCs == {"idle", "loop", "calling", "save", "tools", "ended"}

User(a)         == [role |-> "user", by |-> a, round |-> 1, n |-> 0]
Answer(a, r, k) == [role |-> "assistant", by |-> a, round |-> r, n |-> k]
Tool(a, r, k)   == [role |-> "tool", by |-> a, round |-> r, n |-> k]

UnderWay(a) == pc[a] \notin {"idle", "ended"}
To(a, place) == pc' = [pc EXCEPT ![a] = place]

(* A chunk that is not done; and the end: the error, if any, and then done.*)
Emit(a) == closed' = [closed EXCEPT ![a] = FALSE] /\ UNCHANGED dones
emit_terminal(a) ==
  closed' = [closed EXCEPT ![a] = TRUE] /\ dones' = [dones EXCEPT ![a] = @ + 1]

----------------------------------------------------------------------------
(* A worker takes the task the chat handler enqueued: run().               *)
Start(a) ==
  /\ pc[a] = "idle" /\ To(a, "loop")
  /\ \E m \in BOOLEAN : message' = [message EXCEPT ![a] = m]
  /\ shared' = (shared \/ \E b \in Agents : UnderWay(b))
  /\ UNCHANGED <<sessionVars, iteration, request, text, calls, next, chunkVars, canceled>>

(* The head of the loop.                                                   *)
GiveUp(a) ==
  /\ pc[a] = "loop" /\ iteration[a] >= MaxIterations
  /\ To(a, "ended") /\ emit_terminal(a)
  /\ UNCHANGED <<sessionVars, iteration, message, request, text, calls, next, canceled, shared>>

NoticeCancel(a) ==
  /\ pc[a] = "loop" /\ iteration[a] < MaxIterations /\ canceled[a]
  /\ To(a, "ended")
  /\ UNCHANGED <<sessionVars, iteration, message, request, text, calls, next, chunkVars, canceled, shared>>

(* The question travels with the first call, and in the history later.     *)
build_request_body(a) ==
  IF iteration[a] = 0 /\ message[a] THEN Append(history, User(a)) ELSE history

CallLlm_Faulty(a) ==                          \* one round too many
  /\ pc[a] = "loop" /\ iteration[a] <= MaxIterations /\ ~canceled[a]
  /\ To(a, "calling")
  /\ iteration' = [iteration EXCEPT ![a] = @ + 1]
  /\ request' = [request EXCEPT ![a] = build_request_body(a)]
  /\ UNCHANGED <<sessionVars, message, text, calls, next, chunkVars, canceled, shared>>

CallLlm(a) ==
  /\ pc[a] = "loop" /\ iteration[a] < MaxIterations /\ ~canceled[a]
  /\ To(a, "calling")
  /\ iteration' = [iteration EXCEPT ![a] = @ + 1]
  /\ request' = [request EXCEPT ![a] = build_request_body(a)]
  /\ UNCHANGED <<sessionVars, message, text, calls, next, chunkVars, canceled, shared>>

----------------------------------------------------------------------------
(* The call returns, having emitted what it streamed.                      *)

Returns(a, place) ==
  /\ pc[a] = "calling" /\ To(a, place)
  /\ request' = [request EXCEPT ![a] = <<>>]
  /\ UNCHANGED <<iteration, message, next, canceled, shared>>

(* The locals of a round.                                                  *)
Forget(a) == text' = [text EXCEPT ![a] = FALSE] /\ calls' = [calls EXCEPT ![a] = 0]

CallCanceled(a) ==
  /\ canceled[a] /\ Returns(a, "ended") /\ Forget(a)
  /\ UNCHANGED <<sessionVars, chunkVars>>

CallFailed_Faulty(a) ==                       \* reports, but leaves the stream open
  /\ ~canceled[a] /\ Returns(a, "ended") /\ Forget(a)
  /\ Emit(a)
  /\ UNCHANGED sessionVars

CallFailed_Retry(a) ==                        \* tries again, without a limit
  /\ ~canceled[a] /\ pc[a] = "calling" /\ To(a, "loop") /\ Forget(a)
  /\ iteration' = [iteration EXCEPT ![a] = @ - 1]
  /\ request' = [request EXCEPT ![a] = <<>>]
  /\ UNCHANGED <<sessionVars, message, next, chunkVars, canceled, shared>>

(* A transfer that fails, times out or has no key.                         *)
CallFailed(a) ==
  /\ ~canceled[a] /\ Returns(a, "ended") /\ Forget(a)
  /\ emit_terminal(a)
  /\ UNCHANGED sessionVars

CallSucceeds_Faulty(a, k, content) ==         \* the question is kept with the answer only
  /\ ~canceled[a] /\ Returns(a, "save")
  /\ text' = [text EXCEPT ![a] = content /\ k = 0] /\ calls' = [calls EXCEPT ![a] = k]
  /\ IF iteration[a] = 1 /\ message[a] /\ k = 0
     THEN append_message(User(a)) ELSE UNCHANGED sessionVars
  /\ Emit(a)

(* The user's message is saved after the first successful call.            *)
CallSucceeds(a, k, content) ==
  /\ ~canceled[a] /\ Returns(a, "save")
  /\ text' = [text EXCEPT ![a] = content /\ k = 0] /\ calls' = [calls EXCEPT ![a] = k]
  /\ IF iteration[a] = 1 /\ message[a]
     THEN append_message(User(a)) ELSE UNCHANGED sessionVars
  /\ Emit(a)

----------------------------------------------------------------------------
(* What the call brought.                                                  *)

(* No tools: the answer is saved and, unless the client is gone, done sent.*)
SaveAnswer(a) ==
  /\ pc[a] = "save" /\ calls[a] = 0 /\ To(a, "ended") /\ Forget(a)
  /\ IF text[a] THEN append_message(Answer(a, iteration[a], 0)) ELSE UNCHANGED sessionVars
  /\ IF canceled[a] THEN UNCHANGED chunkVars ELSE emit_terminal(a)
  /\ UNCHANGED <<iteration, message, request, next, canceled, shared>>

(* execute_tools.                                                          *)
SaveCalls(a) ==
  /\ pc[a] = "save" /\ calls[a] > 0 /\ To(a, "tools")
  /\ append_message(Answer(a, iteration[a], calls[a]))
  /\ next' = [next EXCEPT ![a] = 1]
  /\ UNCHANGED <<iteration, message, request, text, calls, chunkVars, canceled, shared>>

SaveTool_Faulty(a) ==                         \* looks for cancellation after every tool
  /\ pc[a] = "tools" /\ Emit(a)
  /\ append_message(Tool(a, iteration[a], next[a]))
  /\ To(a, IF canceled[a] THEN "ended" ELSE IF next[a] < calls[a] THEN "tools" ELSE "loop")
  /\ IF next[a] < calls[a] THEN next' = [next EXCEPT ![a] = @ + 1] /\ UNCHANGED <<text, calls>>
     ELSE next' = [next EXCEPT ![a] = 0] /\ Forget(a)
  /\ UNCHANGED <<iteration, message, request, canceled, shared>>

SaveTool(a) ==
  /\ pc[a] = "tools" /\ Emit(a)
  /\ append_message(Tool(a, iteration[a], next[a]))
  /\ To(a, IF next[a] < calls[a] THEN "tools" ELSE IF canceled[a] THEN "ended" ELSE "loop")
  /\ IF next[a] < calls[a] THEN next' = [next EXCEPT ![a] = @ + 1] /\ UNCHANGED <<text, calls>>
     ELSE next' = [next EXCEPT ![a] = 0] /\ Forget(a)
  /\ UNCHANGED <<iteration, message, request, canceled, shared>>

----------------------------------------------------------------------------
(* The rest of the process.                                                *)

(* The reactor closes the connection of a request.                         *)
Cancel(a) ==
  /\ pc[a] # "ended" /\ ~canceled[a]
  /\ canceled' = [canceled EXCEPT ![a] = TRUE]
  /\ UNCHANGED <<sessionVars, agentVars, shared>>

(* A call takes a minute at most, so no hour passes between two messages   *)
(* of one agent.                                                           *)
HourPasses ==
  /\ history # <<>> /\ ~quiet /\ quiet' = TRUE
  /\ \A a \in Agents : UnderWay(a) =>
       \/ pc[a] = "loop" /\ iteration[a] = 0
       \/ pc[a] = "calling" /\ iteration[a] = 1
  /\ UNCHANGED <<history, agentVars, canceled, shared>>

Cleanup == cleanup_expired_sessions /\ UNCHANGED <<agentVars, canceled, shared>>

----------------------------------------------------------------------------
Init ==
  /\ SessionInit
  /\ pc = [a \in Agents |-> "idle"] /\ iteration = [a \in Agents |-> 0]
  /\ message = [a \in Agents |-> FALSE]
  /\ request = [a \in Agents |-> <<>>] /\ text = [a \in Agents |-> FALSE]
  /\ calls = [a \in Agents |-> 0] /\ next = [a \in Agents |-> 0]
  /\ closed = [a \in Agents |-> FALSE] /\ dones = [a \in Agents |-> 0]
  /\ canceled = [a \in Agents |-> FALSE]
  /\ shared = FALSE

Returned(a) ==
  \/ CallCanceled(a) \/ CallFailed(a)
  \/ \E k \in ToolCounts, content \in BOOLEAN : CallSucceeds(a, k, content)

Step(a) ==
  \/ GiveUp(a) \/ NoticeCancel(a) \/ CallLlm(a) \/ Returned(a)
  \/ SaveAnswer(a) \/ SaveCalls(a) \/ SaveTool(a)

Next ==
  \/ \E a \in Agents : Start(a) \/ Step(a) \/ Cancel(a)
  \/ HourPasses \/ Cleanup

(* Workers run, and every call returns within its timeout.                 *)
Spec == Init /\ [][Next]_vars
FairSpec == Spec /\ \A a \in Agents : WF_vars(Step(a))

----------------------------------------------------------------------------
(* Safety.                                                                 *)

TypeOK ==
  /\ SessionTypeOK
  /\ pc \in [Agents -> PCs] /\ iteration \in [Agents -> 0..MaxIterations]
  /\ message \in [Agents -> BOOLEAN]
  /\ request \in [Agents -> Seq(Message)] /\ text \in [Agents -> BOOLEAN]
  /\ calls \in [Agents -> ToolCounts \cup {0}] /\ next \in [Agents -> Nat]
  /\ closed \in [Agents -> BOOLEAN] /\ dones \in [Agents -> Nat]
  /\ canceled \in [Agents -> BOOLEAN]
  /\ shared \in BOOLEAN

(* However agents of a session interleave, are cut off, trimmed or cleaned *)
(* up, a history never begins with the answer of a tool nobody called.     *)
NeverStartsWithTool == history # <<>> => history[1].role # "tool"

(* A history above its limit is one turn that is not finished: trimming    *)
(* was put off only for want of a later user message to cut at.            *)
OverLimitIsOneTurn ==
  Len(history) > MaxHistory =>
    \A i \in Len(history) - MaxHistory + 1 .. Len(history) : history[i].role # "user"

(* Requests to one session that do not overlap: every call of the LLM gets *)
(* a history it accepts, with each tool call answered right behind it and  *)
(* no other tool message, also after turns that failed or were cancelled.  *)
Valid(h) ==
  /\ \A i \in DOMAIN h : h[i].role = "assistant" =>
       \A k \in 1..h[i].n : i + k \in DOMAIN h /\ h[i + k] = Tool(h[i].by, h[i].round, k)
  /\ \A i \in DOMAIN h : h[i].role = "tool" =>
       /\ i > h[i].n
       /\ h[i - h[i].n].role = "assistant" /\ h[i - h[i].n].n >= h[i].n
SerialRequestsAreValid ==
  ~shared => \A a \in Agents : pc[a] = "calling" => Valid(request[a])

(* ... and it gets the question once and all earlier rounds of the turn,   *)
(* although they travel through a history that is trimmed meanwhile.       *)
OwnTurnIsSent ==
  ~shared => \A a \in Agents : pc[a] = "calling" =>
    LET mine == {i \in DOMAIN request[a] : request[a][i].by = a} IN
    /\ message[a] => Cardinality({i \in mine : request[a][i].role = "user"}) = 1
    /\ \A r \in 1..iteration[a] - 1 :
         \E i \in mine : request[a][i].role = "assistant" /\ request[a][i].round = r

(* A client that stays gets exactly one done, as the last chunk; one that  *)
(* left gets at most that.                                                 *)
DoneIsLastAndOnce ==
  \A a \in Agents :
    /\ pc[a] # "ended" => dones[a] = 0
    /\ pc[a] = "ended" => dones[a] <= 1 /\ (dones[a] = 1 <=> closed[a])
    /\ pc[a] = "ended" /\ ~canceled[a] => dones[a] = 1

(* Trimming goes by whole turns, so that a tool's answer is never          *)
(* separated from the call it answers.                                     *)
ToolsKeepTheirCalls ==
  \A i \in DOMAIN history : history[i].role = "tool" =>
    \E j \in 1..i - 1 : /\ history[j].role = "assistant" /\ history[j].n >= history[i].n
                        /\ history[j].by = history[i].by /\ history[j].round = history[i].round

----------------------------------------------------------------------------
(* Liveness: an agent that started comes to an end and frees its worker,   *)
(* whatever the LLM answers and the other agents do.                       *)
AgentEnds == \A a \in Agents : UnderWay(a) ~> pc[a] = "ended"
=============================================================================
