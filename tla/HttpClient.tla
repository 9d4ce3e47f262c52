----------------------------- MODULE HttpClient -----------------------------
(***************************************************************************)
(* llm/HttpClient: post() drives one transfer with curl_multi on a worker  *)
(* thread: perform, look at the cancellation flag, wait 100 ms at most for *)
(* the socket, and again.  The response reaches on_data in pieces of any   *)
(* size; libcurl, the network and the server upstream are the environment. *)
(***************************************************************************)
EXTENDS Integers, Sequences

CONSTANTS
  Replies,       (* what the server may answer: [code, lines, lastEnds]    *)
  MaxWait        (* bound: polls without data that make CURLOPT_TIMEOUT_MS *)

ASSUME ClientAssumption == MaxWait \in Nat \ {0}

VARIABLES
  step,          (* where post() and its caller stand, see Steps           *)
  reply,         (* the server's answer to the running call                *)
  coming,        (* how many tokens of it on_data has not got yet          *)
  running,       (* curl_multi_perform: the transfer is not over           *)
  failed,        (* mc # CURLM_OK, or the transfer's CURLcode # CURLE_OK   *)
  aborted,
  ok,            (* what post() returned                                   *)
  waited,        (* polls of the call that brought nothing                 *)
  late           (* history variable: polls that ended after cancellation  *)

postVars == <<reply, coming, running, failed, aborted, ok, waited, late>>

(* "perform", "check" and "poll" are the loop of post(), "lines" is on_data*)
(* below perform; "result" leads back to the caller, whose steps follow.   *)
Steps == {"none", "perform", "lines", "check", "poll", "result", "leftover", "merge", "over"}

(* A line of the response is two halves and the line end.                  *)
LineTokens(i) == <<<<i, "first">>, <<i, "second">>, <<i, "LF">>>>
TokenAt(n)    == LineTokens((n + 2) \div 3)[((n + 2) % 3) + 1]
Size(r)       == 3 * Len(r.lines) - (IF r.lines = <<>> \/ r.lastEnds THEN 0 ELSE 1)
Delivered     == Size(reply) - coming

NoReply == [code |-> 0, lines |-> <<>>, lastEnds |-> TRUE]

(* The handles and options; without them, or without an API key, the call  *)
(* fails at once.                                                          *)
PostBegin(r) ==
  /\ step' = "perform"
  /\ reply' = r /\ coming' = Size(r)
  /\ running' = TRUE /\ failed' = FALSE /\ aborted' = FALSE /\ ok' = FALSE
  /\ waited' = 0 /\ late' = 0

PostRefused ==
  /\ step' = "over"
  /\ reply' = NoReply /\ coming' = 0
  /\ running' = FALSE /\ failed' = TRUE /\ aborted' = FALSE /\ ok' = FALSE
  /\ waited' = 0 /\ late' = 0

(* curl_multi_perform: passes n tokens to write_callback, and finds the    *)
(* transfer complete, broken, timed out, or still running.  A response cut *)
(* short counts as broken: libcurl knows its length, or its last chunk.    *)
Perform(n) ==
  /\ step = "perform" /\ n <= coming
  /\ coming' = coming - n
  /\ step' = IF n > 0 THEN "lines" ELSE "check"
  /\ \/ running' = FALSE /\ failed' \in {coming' > 0, TRUE} /\ UNCHANGED waited
     \/ /\ UNCHANGED <<running, failed>>
        /\ IF n > 0 THEN UNCHANGED waited ELSE waited < MaxWait /\ waited' = waited + 1
  /\ UNCHANGED <<reply, aborted, ok, late>>

Check_Faulty(flag) ==                         \* a transfer with data is not aborted
  /\ step = "check"
  /\ aborted' = (running /\ flag /\ waited = MaxWait)
  /\ step' = IF running /\ ~aborted' THEN "poll" ELSE "result"
  /\ UNCHANGED <<reply, coming, running, failed, ok, waited, late>>

(* The head of the loop, with canceled->load().                            *)
Check(flag) ==
  /\ step = "check"
  /\ aborted' = (running /\ flag)
  /\ step' = IF running /\ ~flag THEN "poll" ELSE "result"
  /\ UNCHANGED <<reply, coming, running, failed, ok, waited, late>>

(* curl_multi_poll, 100 ms at most.                                        *)
Poll(flag) ==
  /\ step = "poll"
  /\ \/ step' = "perform" /\ UNCHANGED failed
     \/ step' = "result" /\ failed' = TRUE
  /\ late' = late + (IF flag THEN 1 ELSE 0)
  /\ UNCHANGED <<reply, coming, running, aborted, ok, waited>>

(* curl_multi_info_read and the status.                                    *)
PostResult ==
  /\ step = "result" /\ step' = "leftover"
  /\ ok' = (~aborted /\ ~failed /\ reply.code < 400)
  /\ UNCHANGED <<reply, coming, running, failed, aborted, waited, late>>

HttpClientInit ==
  /\ step = "none" /\ reply = NoReply /\ coming = 0 /\ running = FALSE
  /\ failed = FALSE /\ aborted = FALSE /\ ok = FALSE /\ waited = 0 /\ late = 0
=============================================================================
