----------------------------- MODULE LLMService -----------------------------
(***************************************************************************)
(* llm/LLMService: one call of the LLM.  The response is a stream of       *)
(* server-sent events that arrives in pieces: on_data cuts it into lines,  *)
(* a line's content and reasoning are emitted at once, and the fragments   *)
(* of tool calls are put together by their index until the call is over.   *)
(***************************************************************************)
EXTENDS HttpClient, SequencesExt, FiniteSetsExt

VARIABLES
  pending_line,  (* tokens of a line that has not ended                    *)
  told,          (* the chunks this call has emitted                       *)
  tool_call_acc, (* per index: the id, name and arguments so far           *)
  tool_calls,    (* result.tool_calls                                      *)
  success        (* result.success                                         *)

parseVars == <<pending_line, told, tool_call_acc, tool_calls, success>>
callVars  == <<step, postVars, parseVars>>

(* A line [content, reasoning, tools] of a reply; "" is absent or empty.   *)
(* Lines that carry no delta have neither.  A fragment [index, id, name,   *)
(* args] may lack an id, which is more than an empty one, and has "" for a *)
(* piece of its name or arguments that is absent or empty.                 *)
NoId   == "null"
Lines  == [content : STRING, reasoning : STRING,
           tools : Seq([index : Int, id : STRING, name : STRING, args : STRING])]

ASSUME ReplyAssumption == Replies \subseteq [code : Nat, lines : Seq(Lines), lastEnds : BOOLEAN]

Chunks(line) ==
  (IF line.content = "" THEN <<>> ELSE <<<<"content", line.content>>>>)
  \o (IF line.reasoning = "" THEN <<>> ELSE <<<<"reasoning", line.reasoning>>>>)

NoCall == [id |-> "", name |-> <<>>, arguments |-> <<>>]
Piece(p) == IF p = "" THEN <<>> ELSE <<p>>

Fragment(acc, f) ==
  LET old == IF f.index \in DOMAIN acc THEN acc[f.index] ELSE NoCall IN
  [i \in DOMAIN acc \cup {f.index} |->
     IF i # f.index THEN acc[i]
     ELSE [id |-> IF f.id = NoId THEN old.id ELSE f.id,
           name |-> old.name \o Piece(f.name), arguments |-> old.arguments \o Piece(f.args)]]

(* The tool calls of a line, one fragment after the other.                 *)
Gather(acc, fs) ==
  LET g[n \in 0..Len(fs)] == IF n = 0 THEN acc ELSE Fragment(g[n - 1], fs[n])
  IN  g[Len(fs)]

(* process_sse_line: the line, when it is whole; half a line is no JSON,   *)
(* and is skipped.                                                         *)
IsWhole(line) == line # <<>> /\ line = SubSeq(LineTokens(line[1][1]), 1, 2)

process_sse_line(line) ==
  IF IsWhole(line)
  THEN LET r == reply.lines[line[1][1]] IN
       /\ told' = told \o Chunks(r)
       /\ tool_call_acc' = Gather(tool_call_acc, r.tools)
  ELSE UNCHANGED <<told, tool_call_acc>>

----------------------------------------------------------------------------
(* call and call_deepseek up to the transfer.                              *)
Forgotten ==
  /\ pending_line' = <<>> /\ told' = <<>> /\ tool_call_acc' = <<>>
  /\ tool_calls' = <<>> /\ success' = FALSE

BeginCall(r) == PostBegin(r) /\ Forgotten
RefuseCall   == PostRefused /\ Forgotten

(* on_data gets n tokens, and takes line after line off them.              *)
DataArrives(n) ==
  /\ Perform(n)
  /\ pending_line' = pending_line \o [i \in 1..n |-> TokenAt(Delivered + i)]
  /\ UNCHANGED <<told, tool_call_acc, tool_calls, success>>

LineEndsAt == {i \in DOMAIN pending_line : pending_line[i][2] = "LF"}

OnLine_Faulty ==                              \* what follows the line is lost
  /\ step = "lines" /\ LineEndsAt # {}
  /\ process_sse_line(SubSeq(pending_line, 1, Min(LineEndsAt) - 1))
  /\ pending_line' = <<>>
  /\ UNCHANGED <<step, postVars, tool_calls, success>>

OnLine ==
  /\ step = "lines" /\ LineEndsAt # {}
  /\ process_sse_line(SubSeq(pending_line, 1, Min(LineEndsAt) - 1))
  /\ pending_line' = SubSeq(pending_line, Min(LineEndsAt) + 1, Len(pending_line))
  /\ UNCHANGED <<step, postVars, tool_calls, success>>

OnDataEnds_Faulty ==                          \* one line per callback
  /\ step = "lines" /\ step' = "check"
  /\ UNCHANGED <<postVars, parseVars>>

OnDataEnds ==
  /\ step = "lines" /\ LineEndsAt = {} /\ step' = "check"
  /\ UNCHANGED <<postVars, parseVars>>

(* After post: result.success, unless cancelled meanwhile.                 *)
Leftover(flag) ==
  /\ step = "leftover" /\ step' = "merge"
  /\ success' = (ok /\ ~flag)
  /\ process_sse_line(pending_line) /\ pending_line' = <<>>
  /\ UNCHANGED <<postVars, tool_calls>>

(* The accumulators that have a name, in the order of an unordered_map.    *)
Merge_Faulty ==                               \* the last index only
  LET named == {i \in DOMAIN tool_call_acc : tool_call_acc[i].name # <<>>} IN
  /\ step = "merge" /\ step' = "over"
  /\ tool_calls' = IF named = {} THEN <<>> ELSE <<tool_call_acc[Max(named)]>>
  /\ UNCHANGED <<postVars, pending_line, told, tool_call_acc, success>>

Merge ==
  LET named == {i \in DOMAIN tool_call_acc : tool_call_acc[i].name # <<>>} IN
  /\ step = "merge" /\ step' = "over"
  /\ \E order \in SetToSeqs(named) :
       tool_calls' = [k \in DOMAIN order |-> tool_call_acc[order[k]]]
  /\ UNCHANGED <<postVars, pending_line, told, tool_call_acc, success>>

LLMInit ==
  /\ HttpClientInit
  /\ pending_line = <<>> /\ told = <<>> /\ tool_call_acc = <<>> /\ tool_calls = <<>>
  /\ success = FALSE

----------------------------------------------------------------------------
Events(r) == FlattenSeq([i \in DOMAIN r.lines |-> Chunks(r.lines[i])])

(* Wherever the network cuts the response, and whenever it breaks off: the *)
(* client is told what the LLM said, in order, nothing twice, and a call   *)
(* counts as a success only when all of it was told.                       *)
ReplyIsRelayed ==
  step # "none" => IsPrefix(told, Events(reply)) /\ (success => told = Events(reply))

(* The tool calls of the reply by their indexes, each with the last id and *)
(* the pieces of its name and arguments in the order they were sent.       *)
Fragments(r) == FlattenSeq([i \in DOMAIN r.lines |-> r.lines[i].tools])
Given(f, field) ==
  IF f[field] = (IF field = "id" THEN NoId ELSE "") THEN <<>> ELSE <<f[field]>>
Pieces(fs, index, field) ==
  FlattenSeq([k \in DOMAIN fs |-> IF fs[k].index = index THEN Given(fs[k], field) ELSE <<>>])

CallIn(fs, index) ==
  LET ids == Pieces(fs, index, "id") IN
  [id |-> IF ids = <<>> THEN "" ELSE Last(ids),
   name |-> Pieces(fs, index, "name"), arguments |-> Pieces(fs, index, "args")]

Indexes(fs) == {fs[k].index : k \in DOMAIN fs}
Named(r)    == {i \in Indexes(Fragments(r)) : CallIn(Fragments(r), i).name # <<>>}

(* A successful call yields every tool call of the reply once and whole:   *)
(* the fragments of two calls may come mixed, and split at any byte.       *)
CallsAreWhole ==
  step = "over" /\ success =>
    \E order \in SetToSeqs(Named(reply)) :
      tool_calls = [k \in DOMAIN order |-> CallIn(Fragments(reply), order[k])]

(* A client that leaves frees the worker within one poll: no second wait   *)
(* of 100 ms begins once the flag is set.                                  *)
CancelIsPrompt == late <= 1
=============================================================================
