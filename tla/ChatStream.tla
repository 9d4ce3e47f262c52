----------------------------- MODULE ChatStream -----------------------------
(***************************************************************************)
(* A chat from the LLM to the client: the agent of AgentLoop, whose call   *)
(* of the LLM is no longer one step but LLMService's, the completions that *)
(* carry its chunks to the reactor thread, and the connection they are     *)
(* written to.  One chat; the interest of the socket and its descriptor    *)
(* are EpollLoop's.                                                        *)
(***************************************************************************)
EXTENDS AgentLoop, LLMService

CONSTANTS
  A,             (* the one agent: Agents = {A}                            *)
  Tools,         (* ToolRegistry::functions_, the names registered         *)
  MaxWrite       (* MAX_WRITE_BUFFER, in chunks                            *)

ASSUME ChatAssumption == Agents = {A} /\ MaxWrite \in Nat \ {0, 1}

(* ToolCounts has the numbers of tool calls that the answers ask for.      *)
ASSUME ToolCountAssumption == \A r \in Replies : Cardinality(Named(r)) \in ToolCounts

VARIABLES
  completions,   (* the agent's chunks in the pool's completion queue      *)
  conn,          (* "open", "closing" (close_requested_), "closed"         *)
  write_buffer_, (* chunks that send() has not taken                       *)
  view,          (* what the client has got                                *)
  said           (* history variable: everything the agent has emitted     *)

connVars == <<conn, write_buffer_, view>>
chatVars == <<completions, connVars, said>>
allVars  == <<vars, callVars, chatVars>>

ChunkTypes == {"header", "content", "reasoning", "tool_result", "error", "done", "end"}
Header == <<"header", "200">>
Error  == <<"error", "failed">>
Done   == <<"done", "[DONE]">>
End    == <<"end", "0">>

ChatTypeOK ==
  /\ TypeOK
  /\ step \in Steps /\ coming \in 0..Size(reply) /\ waited \in 0..MaxWait
  /\ {running, failed, aborted, ok, success} \subseteq BOOLEAN
  /\ step # "lines" => LineEndsAt = {}
  /\ conn \in {"open", "closing", "closed"}
  /\ Len(write_buffer_) <= MaxWrite /\ (conn = "closing" => write_buffer_ # <<>>)
  /\ \A c \in ToSet(completions \o write_buffer_ \o view \o said) : c[1] \in ChunkTypes

(* emit: post_completion.                                                  *)
Emits(cs) == completions' = completions \o cs /\ said' = said \o cs
Silent    == UNCHANGED <<completions, said>>

Terminal_Faulty(error) == IF error THEN <<Error>> ELSE <<Done>>  \* returns after the error

(* emit_terminal.                                                          *)
Terminal(error) == IF error THEN <<Error, Done>> ELSE <<Done>>

----------------------------------------------------------------------------
(* The worker.                                                             *)
Flag == canceled[A]

StartChat == Start(A) /\ message'[A] /\ UNCHANGED <<callVars, chatVars>>
GiveUpChat == GiveUp(A) /\ Emits(Terminal(TRUE)) /\ UNCHANGED <<callVars, connVars>>
StopChat   == NoticeCancel(A) /\ UNCHANGED <<callVars, chatVars>>

(* The call; LLMService::call looks at the flag once more.                 *)
BeginChatCall ==
  /\ CallLlm(A) /\ UNCHANGED chatVars
  /\ RefuseCall \/ \E r \in Replies : BeginCall(r)

CallStep ==
  /\ pc[A] = "calling"
  /\ \/ \E n \in 0..coming : DataArrives(n) /\ Silent
     \/ OnLine /\ Emits(SubSeq(told', Len(told) + 1, Len(told')))
     \/ OnDataEnds /\ Silent
     \/ (Check(Flag) \/ Poll(Flag) \/ PostResult) /\ UNCHANGED parseVars /\ Silent
     \/ Leftover(Flag) /\ Emits(SubSeq(told', Len(told) + 1, Len(told')))
     \/ Merge /\ Silent
  /\ UNCHANGED <<vars, connVars>>

CallOver ==
  /\ step = "over"
  /\ \/ CallCanceled(A) /\ Silent
     \/ ~success /\ CallFailed(A) /\ Emits(Terminal(TRUE))
     \/ success /\ Silent
          /\ CallSucceeds(A, Len(tool_calls), \E i \in DOMAIN told : told[i][1] = "content")
  /\ UNCHANGED <<callVars, connVars>>

FinishChat ==
  /\ SaveAnswer(A)
  /\ IF Flag THEN Silent ELSE Emits(Terminal(FALSE))
  /\ UNCHANGED <<callVars, connVars>>

SaveChatCalls == SaveCalls(A) /\ UNCHANGED <<callVars, chatVars>>

(* The tool's answer; that there is no such tool is an answer too.         *)
execute(name) == IF Len(name) = 1 /\ name[1] \in Tools THEN name[1] ELSE "not found"
ToolAnswer(c) == <<"tool_result", execute(c.name)>>

RunTool ==
  /\ SaveTool(A) /\ Emits(<<ToolAnswer(tool_calls[next[A]])>>)
  /\ UNCHANGED <<callVars, connVars>>

Worker ==
  \/ GiveUpChat \/ StopChat \/ BeginChatCall \/ CallStep \/ CallOver
  \/ FinishChat \/ SaveChatCalls \/ RunTool

----------------------------------------------------------------------------
(* The reactor thread and the client.                                      *)

(* close_connection: the flag is seen by an agent that still runs.         *)
CloseNow ==
  /\ conn' = "closed" /\ write_buffer_' = <<>>
  /\ IF pc[A] = "ended" THEN UNCHANGED canceled ELSE canceled' = [canceled EXCEPT ![A] = TRUE]

(* send_data and, behind done, request_close; an empty buffer is sent at   *)
(* once as far as the socket takes it.                                     *)
Framed(c) == IF c = Done THEN <<Done, End>> ELSE <<c>>

Deliver_Faulty ==                             \* sends past what is buffered
  /\ completions # <<>> /\ completions' = Tail(completions)
  /\ IF conn # "open" THEN UNCHANGED <<connVars, canceled>>
     ELSE /\ view' = view \o Framed(Head(completions))
          /\ IF Head(completions) = Done THEN CloseNow ELSE UNCHANGED <<conn, write_buffer_, canceled>>
  /\ UNCHANGED <<sessionVars, agentVars, shared, callVars, said>>

Deliver ==
  /\ completions # <<>> /\ completions' = Tail(completions)
  /\ LET all == write_buffer_ \o Framed(Head(completions)) IN
     IF conn # "open" THEN UNCHANGED <<connVars, canceled>>
     ELSE IF Len(all) > MaxWrite THEN CloseNow /\ UNCHANGED view
     ELSE \E n \in (IF write_buffer_ = <<>> THEN 0..Len(all) ELSE {0}) :
            /\ view' = view \o SubSeq(all, 1, n)
            /\ IF Head(completions) # Done
               THEN write_buffer_' = SubSeq(all, n + 1, Len(all)) /\ UNCHANGED <<conn, canceled>>
               ELSE IF n = Len(all) THEN CloseNow
               ELSE /\ write_buffer_' = SubSeq(all, n + 1, Len(all))
                    /\ conn' = "closing" /\ UNCHANGED canceled
  /\ UNCHANGED <<sessionVars, agentVars, shared, callVars, said>>

(* EPOLLOUT: the client has read.                                          *)
HandleWrite ==
  /\ conn # "closed" /\ write_buffer_ # <<>>
  /\ \E n \in 1..Len(write_buffer_) :
       /\ view' = view \o SubSeq(write_buffer_, 1, n)
       /\ IF conn = "closing" /\ n = Len(write_buffer_) THEN CloseNow
          ELSE /\ write_buffer_' = SubSeq(write_buffer_, n + 1, Len(write_buffer_))
               /\ UNCHANGED <<conn, canceled>>
  /\ UNCHANGED <<sessionVars, agentVars, shared, callVars, completions, said>>

(* The client closes its end.                                              *)
ClientLeaves ==
  /\ conn # "closed" /\ CloseNow
  /\ UNCHANGED <<view, sessionVars, agentVars, shared, callVars, completions, said>>

(* The idle sweep: 60 s without output, which an LLM that says nothing     *)
(* until the call times out fills by itself.                               *)
IdleClose ==
  /\ conn = "open" /\ completions = <<>>
  /\ pc[A] = "calling" /\ waited = MaxWait /\ told = <<>>
  /\ IF write_buffer_ = <<>> THEN CloseNow
     ELSE conn' = "closing" /\ UNCHANGED <<write_buffer_, canceled>>
  /\ UNCHANGED <<view, sessionVars, agentVars, shared, callVars, completions, said>>

Reactor == Deliver \/ HandleWrite

----------------------------------------------------------------------------
(* The stream's header is sent before the agent is enqueued.               *)
ChatInit ==
  /\ Init /\ LLMInit
  /\ completions = <<>> /\ conn = "open" /\ said = <<>>
  /\ \/ view = <<Header>> /\ write_buffer_ = <<>>
     \/ view = <<>> /\ write_buffer_ = <<Header>>

ChatNext == StartChat \/ Worker \/ Reactor \/ ClientLeaves \/ IdleClose

(* A worker is free, it runs; so does the reactor; and the client reads.   *)
(* Nothing is assumed of the LLM: its silence ends in the timeout.         *)
ChatSpec ==
  /\ ChatInit /\ [][ChatNext]_allVars
  /\ WF_allVars(StartChat) /\ WF_allVars(Worker) /\ WF_allVars(Deliver) /\ WF_allVars(HandleWrite)

----------------------------------------------------------------------------
(* The client gets what the agent said, from the header on, nothing        *)
(* missing between: what is lost is lost at the end.  The closing chunk    *)
(* tells it that nothing is, and without an error before it the answer is  *)
(* the whole of what the LLM said last.                                    *)
Closed(s) == IF s # <<>> /\ Last(s) = Done THEN Append(s, End) ELSE s

ClientSeesReply ==
  /\ IsPrefix(view, <<Header>> \o Closed(said))
  /\ view # <<>> /\ Last(view) = End =>
       /\ view = <<Header>> \o Closed(said) /\ pc[A] = "ended"
       /\ Error \notin ToSet(view) =>
            success /\ IsSuffix(Events(reply) \o <<Done, End>>, view)

(* Whatever the LLM does, a client that reads is not left waiting: the     *)
(* connection of every chat is closed in the end, by the server.           *)
ChatEnds == <>(conn = "closed")
=============================================================================
