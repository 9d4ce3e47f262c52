--------------------------- MODULE SessionManager ---------------------------
(***************************************************************************)
(* llm/SessionManager: one session's history, which several workers append *)
(* to and copy, each under mutex_.  The entries of sessions_ do not touch  *)
(* each other, so the module has one; a missing entry is an empty history. *)
(***************************************************************************)
EXTENDS Integers, Sequences, FiniteSetsExt

CONSTANTS
  Agents,        (* the chat requests for the session                      *)
  MaxIterations, (* AgentLoop::MAX_ITERATIONS                              *)
  ToolCounts,    (* bound: the numbers of tool calls an answer may have    *)
  MaxHistory     (* max_history_                                           *)

ASSUME SessionAssumption ==
  /\ MaxIterations \in Nat \ {0} /\ ToolCounts \subseteq Nat /\ MaxHistory \in Nat \ {0}

VARIABLES
  history,       (* sessions_[id]                                          *)
  quiet          (* last_activity_[id] is more than an hour ago            *)

(* A message and who appended it.  In an assistant message n is the number *)
(* of its tool_calls, in a tool message the number of the call it answers; *)
(* agent, round and n stand for the tool_call_id.                          *)
Message == [role : {"system", "user", "assistant", "tool"}, by : Agents,
            round : 1..MaxIterations, n : Nat]

(* Names ending in _Faulty are slips a change to the code could make; no   *)
(* specification uses them.                                                *)

LeadingSystem(h) == Min({i \in 0..Len(h) : i = Len(h) \/ h[i + 1].role # "system"})

trim_history_Faulty(h) ==                     \* cuts anywhere
  IF Len(h) <= MaxHistory THEN h
  ELSE SubSeq(h, Len(h) - MaxHistory + 1, Len(h))

(* Drops the oldest turns: what stays begins with a user message, after    *)
(* the leading system messages.  Without such a message nothing is dropped.*)
trim_history(h) ==
  LET system == LeadingSystem(h)
      starts == {i \in 1..Len(h) :
                   h[i].role = "user" /\ i > system /\ i > Len(h) - MaxHistory}
  IN IF Len(h) <= MaxHistory \/ starts = {} THEN h
     ELSE SubSeq(h, 1, system) \o SubSeq(h, Min(starts), Len(h))

append_message_Faulty(m) ==                   \* trims before it appends
  /\ history' = Append(IF Len(history) > MaxHistory THEN trim_history(history) ELSE history, m)
  /\ quiet' = FALSE

append_message(m) ==
  LET h == Append(history, m) IN
  /\ history' = IF Len(h) > MaxHistory THEN trim_history(h) ELSE h
  /\ quiet' = FALSE

(* The reactor calls it once a minute.                                     *)
cleanup_expired_sessions ==
  /\ quiet
  /\ history' = <<>> /\ quiet' = FALSE

SessionInit == history = <<>> /\ quiet = FALSE

SessionTypeOK == history \in Seq(Message) /\ quiet \in BOOLEAN
=============================================================================
