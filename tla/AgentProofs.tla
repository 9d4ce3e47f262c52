----------------------------- MODULE AgentProofs -----------------------------
(***************************************************************************)
(* Theorems about AgentLoop and SessionManager for any number of agents of *)
(* a session, any limit of the history, any number of rounds and tools.    *)
(***************************************************************************)
EXTENDS AgentLoop, SequenceTheorems, FiniteSetTheorems, WellFoundedInduction, TLAPS

----------------------------------------------------------------------------
(* Trimming.                                                               *)

(* Min is defined on every set of naturals that is not empty.              *)
LEMMA MinIsLeast ==
  ASSUME NEW S, S \subseteq Nat, S # {}
  PROVE  Min(S) \in S /\ \A i \in S : Min(S) <= i
<1> DEFINE Less == OpToRel(<, Nat)
<1>1. PICK k \in S : \A i \in S : <<i, k>> \notin Less
  BY NatLessThanWellFounded, WFMin
<1>2. \A i, j \in Nat : i < j => <<i, j>> \in Less
  BY DEF OpToRel
<1> HIDE DEF Less
<1>3. ASSUME NEW i \in S PROVE k <= i
  <2>1. i \in Nat /\ k \in Nat
    OBVIOUS
  <2>2. ~(i < k)
    BY <1>1, <1>2, <2>1
  <2> QED
    BY <2>1, <2>2
<1> QED
  BY <1>1, <1>3 DEF Min

NoSystem(h) == \A i \in 1..Len(h) : h[i].role # "system"

(* A history without system messages is kept or cut before a user message. *)
LEMMA Trimmed ==
  ASSUME NEW h \in Seq(Message), NoSystem(h)
  PROVE  \/ /\ trim_history(h) = h
            /\ Len(h) > MaxHistory =>
                 \A i \in 1..Len(h) : h[i].role = "user" => i <= Len(h) - MaxHistory
         \/ \E s \in 1..Len(h) : /\ h[s].role = "user" /\ s > Len(h) - MaxHistory
                                 /\ trim_history(h) = SubSeq(h, s, Len(h))
<1> DEFINE system == LeadingSystem(h)
           starts == {i \in 1..Len(h) :
                        h[i].role = "user" /\ i > system /\ i > Len(h) - MaxHistory}
<1>0. Len(h) \in Nat
  BY LenProperties
<1>1. system = 0
  <2> DEFINE S == {i \in 0..Len(h) : i = Len(h) \/ h[i + 1].role # "system"}
  <2>1. 0 \in S
    BY <1>0 DEF NoSystem
  <2>2. S \subseteq Nat
    BY <1>0
  <2>3. Min(S) \in S /\ Min(S) <= 0
    BY <2>1, <2>2, MinIsLeast
  <2> QED
    BY <2>2, <2>3 DEF LeadingSystem
<1>2. trim_history(h) = IF Len(h) <= MaxHistory \/ starts = {} THEN h
                        ELSE SubSeq(h, 1, system) \o SubSeq(h, Min(starts), Len(h))
  BY DEF trim_history
<1>3. \A i \in starts : i > system
  OBVIOUS
<1>4. \A i \in 1..Len(h) : h[i].role = "user" /\ i > Len(h) - MaxHistory => i \in starts
  BY <1>0, <1>1
<1> HIDE DEF system
<1>5. CASE Len(h) <= MaxHistory
  BY <1>0, <1>2, <1>5, SessionAssumption
<1>6. CASE Len(h) > MaxHistory /\ starts = {}
  <2>1. trim_history(h) = h
    BY <1>2, <1>6
  <2>2. \A i \in 1..Len(h) : h[i].role = "user" => i <= Len(h) - MaxHistory
    BY <1>0, <1>4, <1>6, SessionAssumption
  <2> QED
    BY <2>1, <2>2
<1>7. CASE Len(h) > MaxHistory /\ starts # {}
  <2> DEFINE s == Min(starts)
  <2>1. s \in starts
    <3>1. starts \subseteq Nat
      BY <1>0
    <3> HIDE DEF starts
    <3> QED
      BY <1>7, <3>1, MinIsLeast
  <2>2. SubSeq(h, s, Len(h)) \in Seq(Message)
    <3>1. s \in 1..Len(h)
      BY <2>1
    <3> HIDE DEF s
    <3>2. \A i \in s..Len(h) : i \in 1..Len(h)
      BY <1>0, <3>1
    <3>3. \A i \in s..Len(h) : h[i] \in Message
      BY <3>2, ElementOfSeq
    <3> QED
      BY <1>0, <3>1, <3>3, SubSeqProperties
  <2>3. SubSeq(h, 1, system) = <<>>
    BY <1>1, SubSeqEmpty
  <2>4. trim_history(h) = SubSeq(h, s, Len(h))
    <3>1. ~(Len(h) <= MaxHistory)
      BY <1>0, <1>7, SessionAssumption
    <3> QED
      BY <1>2, <1>7, <3>1, <2>2, <2>3, ConcatEmptySeq
  <2> QED
    BY <2>1, <2>4
<1> QED
  BY <1>0, <1>5, <1>6, <1>7, SessionAssumption

Good(h) ==
  /\ h \in Seq(Message) /\ NoSystem(h)
  /\ h # <<>> => h[1].role # "tool"
  /\ Len(h) > MaxHistory =>
       \A i \in 1..Len(h) : h[i].role = "user" => i <= Len(h) - MaxHistory

(* Appending, with the trimming it may bring about, keeps a history good.  *)
LEMMA Appended ==
  ASSUME NEW h, Good(h), NEW m \in Message, m.role # "system", m.role = "tool" => h # <<>>,
         NEW g, g = IF Len(Append(h, m)) > MaxHistory THEN trim_history(Append(h, m))
                    ELSE Append(h, m)
  PROVE  Good(g) /\ g # <<>>
<1> DEFINE e == Append(h, m)
           n == Len(e)
<1>0. /\ h \in Seq(Message) /\ Len(h) \in Nat /\ MaxHistory \in Nat /\ MaxHistory > 0
      /\ e \in Seq(Message) /\ e # <<>> /\ n = Len(h) + 1
      /\ (\A i \in 1..Len(h) : e[i] = h[i]) /\ e[Len(h) + 1] = m
  BY AppendProperties, LenProperties, SessionAssumption DEF Good
<1>1. NoSystem(e)
  BY <1>0 DEF NoSystem, Good
<1>2. e[1].role # "tool"
  <2>1. CASE h = <<>>
    <3>1. Len(h) = 0
      BY <2>1, EmptySeq
    <3> QED
      BY <1>0, <2>1, <3>1
  <2>2. CASE h # <<>>
    <3>1. 1 \in 1..Len(h)
      BY <1>0, <2>2, EmptySeq
    <3> QED
      BY <1>0, <2>2, <3>1 DEF Good
  <2> QED
    BY <2>1, <2>2
<1>3. g = IF n > MaxHistory THEN trim_history(e) ELSE e
  OBVIOUS
<1> HIDE DEF e
<1>4. CASE g = e /\ (n > MaxHistory =>
                       \A i \in 1..n : e[i].role = "user" => i <= n - MaxHistory)
  BY <1>0, <1>1, <1>2, <1>4 DEF Good
<1>5. ASSUME NEW s \in 1..n, e[s].role = "user", s > n - MaxHistory, g = SubSeq(e, s, n)
      PROVE  Good(g) /\ g # <<>>
  <2>1. n \in Nat /\ s \in Int /\ \A i \in s..n : i \in 1..n
    BY <1>0
  <2>2. \A i \in s..n : e[i] \in Message
    BY <1>0, <2>1, ElementOfSeq
  <2>3. /\ g \in Seq(Message) /\ Len(g) = n - s + 1
        /\ \A i \in 1..n - s + 1 : g[i] = e[s + i - 1]
    <3>1. n \in Int /\ s <= n
      BY <2>1
    <3> HIDE DEF n
    <3>2. /\ SubSeq(e, s, n) \in Seq(Message)
          /\ Len(SubSeq(e, s, n)) = IF s <= n THEN n - s + 1 ELSE 0
          /\ \A i \in 1..n - s + 1 : SubSeq(e, s, n)[i] = e[s + i - 1]
      BY <2>1, <2>2, <3>1, SubSeqProperties
    <3> QED
      BY <1>5, <3>1, <3>2
  <2>4. g[1].role = "user"
    BY <1>5, <2>1, <2>3
  <2>5. NoSystem(g)
    <3> SUFFICES ASSUME NEW i \in 1..Len(g) PROVE g[i].role # "system"
      BY DEF NoSystem
    <3>1. i \in 1..n - s + 1
      BY <2>3
    <3>2. g[i] = e[s + i - 1]
      BY <2>3, <3>1
    <3>3. n \in Int /\ s >= 1
      BY <2>1
    <3>4. s + i - 1 \in 1..n
      <4> HIDE DEF n
      <4> QED
        BY <2>1, <3>1, <3>3
    <3> QED
      BY <1>1, <3>2, <3>4 DEF NoSystem
  <2>6. ~(Len(g) > MaxHistory) /\ Len(g) # 0
    BY <1>0, <1>5, <2>1, <2>3
  <2>7. g # <<>>
    BY <2>6
  <2> QED
    BY <2>3, <2>4, <2>5, <2>6, <2>7 DEF Good
<1>6. CASE n > MaxHistory
  BY <1>0, <1>1, <1>3, <1>4, <1>5, <1>6, Trimmed
<1>7. CASE ~(n > MaxHistory)
  BY <1>3, <1>4, <1>7
<1> QED
  BY <1>6, <1>7

LEMMA AppendStep ==
  ASSUME Good(history), NEW m \in Message, m.role # "system",
         m.role = "tool" => history # <<>>, append_message(m)
  PROVE  Good(history') /\ history' # <<>> /\ quiet' = FALSE
  BY Appended DEF append_message

----------------------------------------------------------------------------
(* The invariant of the session and its agents.                            *)

(* An agent that calls or has called is in a round; one that executes      *)
(* tools has just appended the calls, so the session is in use.            *)
RoundInv == \A a \in Agents : pc[a] \in {"calling", "save", "tools"} => iteration[a] >= 1
ToolsInv == \A a \in Agents : pc[a] = "tools" => history # <<>> /\ ~quiet

SessionInv == TypeOK /\ Good(history) /\ RoundInv /\ ToolsInv

LEMMA MessageTypes ==
  ASSUME NEW a \in Agents, NEW r \in 1..MaxIterations, NEW k \in Nat
  PROVE  /\ User(a) \in Message /\ Answer(a, r, k) \in Message /\ Tool(a, r, k) \in Message
         /\ User(a).role = "user" /\ Answer(a, r, k).role = "assistant"
         /\ Tool(a, r, k).role = "tool"
  BY SessionAssumption DEF User, Answer, Tool, Message

LEMMA SessionInvariant == Spec => []SessionInv
<1> USE DEF sessionVars, agentVars, chunkVars
<1>1. Init => SessionInv
  <2> SUFFICES ASSUME Init PROVE SessionInv
    OBVIOUS
  <2>1. history = <<>> /\ Len(history) = 0 /\ history \in Seq(Message)
    BY EmptySeq DEF Init, SessionInit
  <2>2. TypeOK
    <3>1. <<>> \in Seq(Message) /\ 0 \in 0..MaxIterations
      BY EmptySeq, SessionAssumption
    <3>2. SessionTypeOK
      BY <2>1 DEF Init, SessionInit, SessionTypeOK
    <3>3. request \in [Agents -> Seq(Message)]
      BY <3>1 DEF Init
    <3>4. iteration \in [Agents -> 0..MaxIterations]
      BY <3>1 DEF Init
    <3> QED
      BY <3>2, <3>3, <3>4 DEF Init, TypeOK, PCs
  <2>3. Good(history)
    BY <2>1, SessionAssumption DEF Good, NoSystem
  <2> QED
    BY <2>2, <2>3 DEF Init, SessionInv, RoundInv, ToolsInv
<1>2. SessionInv /\ [Next]_vars => SessionInv'
  <2> SUFFICES ASSUME SessionInv, [Next]_vars PROVE SessionInv'
    OBVIOUS
  <2> USE DEF SessionInv, To, Emit, emit_terminal, Forget, Returns
  <2>0. /\ Good(history) /\ history \in Seq(Message) /\ quiet \in BOOLEAN
        /\ MaxIterations \in Nat /\ ToolCounts \subseteq Nat
        /\ iteration \in [Agents -> 0..MaxIterations] /\ pc \in [Agents -> PCs]
    BY SessionAssumption DEF TypeOK, SessionTypeOK
  (* What an append leaves of the invariant to show. *)
  <2>a. ASSUME Good(history'), history' # <<>>, quiet' = FALSE
        PROVE  SessionTypeOK' /\ Good(history)' /\ ToolsInv'
    BY <2>a DEF SessionTypeOK, Good, ToolsInv
  <2>b. ASSUME UNCHANGED sessionVars, \A a \in Agents : pc'[a] = "tools" => pc[a] = "tools"
        PROVE  SessionTypeOK' /\ Good(history)' /\ ToolsInv'
    BY <2>b DEF TypeOK, SessionTypeOK, ToolsInv
  <2>c. /\ dones \in [Agents -> Nat]
        /\ \A a \in Agents : [dones EXCEPT ![a] = dones[a] + 1] \in [Agents -> Nat]
    BY DEF TypeOK
  <2>1. ASSUME NEW a \in Agents,
               Start(a) \/ GiveUp(a) \/ NoticeCancel(a) \/ CallCanceled(a)
               \/ CallFailed(a) \/ Cancel(a)
        PROVE  SessionInv'
    <3>1. /\ UNCHANGED sessionVars
          /\ \A b \in Agents : pc'[b] = "tools" => pc[b] = "tools"
          /\ iteration' = iteration
          /\ \A b \in Agents : pc'[b] \in {"calling", "save", "tools"} => pc'[b] = pc[b]
      BY <2>1, <2>0 DEF Start, GiveUp, NoticeCancel, CallCanceled, CallFailed, Cancel, PCs
    <3>2. TypeOK'
      <4>1. request' \in [Agents -> Seq(Message)]
        <5>1. <<>> \in Seq(Message)
          BY EmptySeq
        <5> QED
          BY <2>1, <5>1 DEF Start, GiveUp, NoticeCancel, CallCanceled, CallFailed,
                            Cancel, TypeOK
      <4>2. pc' \in [Agents -> PCs] /\ shared' \in BOOLEAN
        BY <2>1 DEF Start, GiveUp, NoticeCancel, CallCanceled, CallFailed, Cancel,
                    TypeOK, PCs
      <4>3. text' \in [Agents -> BOOLEAN] /\ calls' \in [Agents -> ToolCounts \cup {0}]
        BY <2>1 DEF Start, GiveUp, NoticeCancel, CallCanceled, CallFailed, Cancel,
                    TypeOK
      <4>4. closed' \in [Agents -> BOOLEAN]
        BY <2>1 DEF Start, GiveUp, NoticeCancel, CallCanceled, CallFailed, Cancel,
                    TypeOK
      <4>5. dones' \in [Agents -> Nat]
        BY <2>1, <2>c DEF Start, GiveUp, NoticeCancel, CallCanceled, CallFailed, Cancel
      <4>6. canceled' \in [Agents -> BOOLEAN] /\ next' = next
        BY <2>1 DEF Start, GiveUp, NoticeCancel, CallCanceled, CallFailed, Cancel,
                    TypeOK
      <4>7. message' \in [Agents -> BOOLEAN]
        BY <2>1 DEF Start, GiveUp, NoticeCancel, CallCanceled, CallFailed, Cancel,
                    TypeOK
      <4> QED
        BY <2>b, <3>1, <4>1, <4>2, <4>3, <4>4, <4>5, <4>6, <4>7 DEF TypeOK
    <3> QED
      BY <2>b, <3>1, <3>2 DEF RoundInv
  <2>2. ASSUME NEW a \in Agents, CallLlm(a) PROVE SessionInv'
    <3>1. /\ UNCHANGED sessionVars /\ iteration[a] + 1 \in 1..MaxIterations
          /\ \A b \in Agents : pc'[b] = "tools" => pc[b] = "tools"
          /\ \A b \in Agents \ {a} : pc'[b] = pc[b] /\ iteration'[b] = iteration[b]
          /\ iteration'[a] = iteration[a] + 1
      BY <2>2, <2>0 DEF CallLlm, PCs
    <3>2. Append(history, User(a)) \in Seq(Message)
      BY <2>0, MessageTypes, <3>1, AppendProperties
    <3>3. TypeOK'
      BY <2>2, <2>b, <3>1, <3>2, <2>0 DEF CallLlm, build_request_body, TypeOK, PCs
    <3>4. RoundInv'
      BY <3>1, <2>0 DEF RoundInv
    <3> QED
      BY <2>b, <3>1, <3>3, <3>4
  <2>3. ASSUME NEW a \in Agents, NEW k \in ToolCounts, NEW content \in BOOLEAN,
               CallSucceeds(a, k, content)
        PROVE  SessionInv'
    <3>1. SessionTypeOK' /\ Good(history)' /\ ToolsInv'
      <4>1. CASE iteration[a] = 1 /\ message[a]
        <5>1. User(a) \in Message /\ User(a).role = "user" /\ append_message(User(a))
          BY <2>3, <2>0, <4>1, MessageTypes DEF CallSucceeds
        <5> QED
          BY <2>a, <2>0, <5>1, AppendStep
      <4>2. CASE ~(iteration[a] = 1 /\ message[a])
        BY <2>3, <2>0, <2>b, <4>2 DEF CallSucceeds, PCs
      <4> QED
        BY <4>1, <4>2
    <3>2. TypeOK'
      BY <2>3, <3>1, <2>0, EmptySeq DEF CallSucceeds, TypeOK, PCs
    <3>3. RoundInv'
      BY <2>3, <2>0 DEF CallSucceeds, RoundInv, PCs
    <3> QED
      BY <3>1, <3>2, <3>3
  <2>4. ASSUME NEW a \in Agents, SaveAnswer(a) PROVE SessionInv'
    <3>0. iteration[a] \in 1..MaxIterations
      BY <2>4, <2>0 DEF SaveAnswer, RoundInv
    <3>1. SessionTypeOK' /\ Good(history)' /\ ToolsInv'
      <4>1. CASE text[a]
        <5> DEFINE m == Answer(a, iteration[a], 0)
        <5>1. m \in Message /\ m.role = "assistant" /\ append_message(m)
          BY <2>4, <3>0, <4>1, MessageTypes DEF SaveAnswer
        <5> QED
          BY <2>a, <2>0, <5>1, AppendStep
      <4>2. CASE ~text[a]
        BY <2>4, <2>0, <2>b, <4>2 DEF SaveAnswer, PCs
      <4> QED
        BY <4>1, <4>2
    <3>2. TypeOK'
      <4>1. pc' \in [Agents -> PCs] /\ text' \in [Agents -> BOOLEAN]
        BY <2>4 DEF SaveAnswer, TypeOK, PCs
      <4>2. calls' \in [Agents -> ToolCounts \cup {0}]
        BY <2>4 DEF SaveAnswer, TypeOK
      <4>3. closed' \in [Agents -> BOOLEAN]
        BY <2>4 DEF SaveAnswer, TypeOK
      <4>4. dones' \in [Agents -> Nat]
        BY <2>4, <2>c DEF SaveAnswer
      <4> QED
        BY <2>4, <3>1, <4>1, <4>2, <4>3, <4>4 DEF SaveAnswer, TypeOK
    <3>3. RoundInv'
      BY <2>4, <2>0 DEF SaveAnswer, RoundInv, PCs
    <3> QED
      BY <3>1, <3>2, <3>3
  <2>5. ASSUME NEW a \in Agents, SaveCalls(a) PROVE SessionInv'
    <3>0. iteration[a] \in 1..MaxIterations /\ calls[a] \in Nat
      <4>1. calls[a] \in ToolCounts \cup {0}
        BY DEF TypeOK
      <4>2. iteration[a] \in 1..MaxIterations
        BY <2>5, <2>0 DEF SaveCalls, RoundInv
      <4>3. \A k \in ToolCounts \cup {0} : k \in Nat
        BY <2>0
      <4> QED
        BY <4>1, <4>2, <4>3
    <3> DEFINE m == Answer(a, iteration[a], calls[a])
    <3>1. m \in Message /\ m.role = "assistant" /\ append_message(m)
      BY <2>5, <3>0, MessageTypes DEF SaveCalls
    <3>2. SessionTypeOK' /\ Good(history)' /\ ToolsInv'
      BY <2>a, <2>0, <3>1, AppendStep
    <3>3. TypeOK'
      BY <2>5, <3>2, <2>0 DEF SaveCalls, TypeOK, PCs
    <3>4. RoundInv'
      BY <2>5, <2>0 DEF SaveCalls, RoundInv, PCs
    <3> QED
      BY <3>2, <3>3, <3>4
  <2>6. ASSUME NEW a \in Agents, SaveTool(a) PROVE SessionInv'
    <3>0. iteration[a] \in 1..MaxIterations /\ next[a] \in Nat /\ history # <<>>
      BY <2>6, <2>0 DEF SaveTool, RoundInv, ToolsInv, TypeOK
    <3> DEFINE m == Tool(a, iteration[a], next[a])
    <3>1. m \in Message /\ m.role = "tool" /\ append_message(m)
      BY <2>6, <3>0, MessageTypes DEF SaveTool
    <3>2. SessionTypeOK' /\ Good(history)' /\ ToolsInv'
      BY <2>a, <2>0, <3>0, <3>1, AppendStep
    <3>3. TypeOK'
      <4>1. pc' \in [Agents -> PCs] /\ closed' \in [Agents -> BOOLEAN]
        BY <2>6 DEF SaveTool, TypeOK, PCs
      <4>2. text' \in [Agents -> BOOLEAN] /\ calls' \in [Agents -> ToolCounts \cup {0}]
        BY <2>6 DEF SaveTool, TypeOK
      <4>3. next' \in [Agents -> Nat]
        <5>1. next \in [Agents -> Nat] /\ next[a] + 1 \in Nat
          BY <3>0 DEF TypeOK
        <5>2. \/ next' = [next EXCEPT ![a] = next[a] + 1]
              \/ next' = [next EXCEPT ![a] = 0]
          BY <2>6 DEF SaveTool
        <5> QED
          BY <5>1, <5>2
      <4> QED
        BY <2>6, <3>2, <4>1, <4>2, <4>3 DEF SaveTool, TypeOK
    <3>4. RoundInv'
      BY <2>6, <2>0 DEF SaveTool, RoundInv, PCs
    <3> QED
      BY <3>2, <3>3, <3>4
  <2>7. CASE HourPasses
    <3>1. ToolsInv'
      BY <2>7, <2>0 DEF HourPasses, UnderWay, ToolsInv, PCs
    <3>2. TypeOK' /\ Good(history)' /\ RoundInv'
      BY <2>7 DEF HourPasses, TypeOK, SessionTypeOK, RoundInv
    <3> QED
      BY <3>1, <3>2
  <2>8. CASE Cleanup
    <3>1. /\ history' = <<>> /\ quiet' = FALSE /\ quiet
          /\ UNCHANGED <<agentVars, canceled, shared>>
      BY <2>8 DEF Cleanup, cleanup_expired_sessions
    <3>2. history' \in Seq(Message) /\ Len(history') = 0
      BY <3>1, EmptySeq
    <3>3. Good(history)'
      BY <3>1, <3>2, SessionAssumption DEF Good, NoSystem
    <3>4. ToolsInv'
      BY <3>1 DEF ToolsInv
    <3> QED
      BY <3>1, <3>2, <3>3, <3>4 DEF TypeOK, SessionTypeOK, RoundInv
  <2>9. CASE UNCHANGED vars
    BY <2>9 DEF vars, TypeOK, SessionTypeOK, RoundInv, ToolsInv
  <2> QED
    BY <2>1, <2>2, <2>3, <2>4, <2>5, <2>6, <2>7, <2>8, <2>9 DEF Next, Step, Returned
<1> QED
  BY <1>1, <1>2, PTL DEF Spec

(* Every variable keeps its type, trimming included.                       *)
THEOREM TypeCorrect == Spec => []TypeOK
  BY SessionInvariant, PTL DEF SessionInv

(* A history never begins with a tool's answer, however agents, trimming   *)
(* and cleaning up interleave.                                             *)
THEOREM HistoryStartsWell == Spec => []NeverStartsWithTool
<1>1. SessionInv => NeverStartsWithTool
  BY DEF SessionInv, Good, NeverStartsWithTool
<1> QED
  BY <1>1, SessionInvariant, PTL

(* The history exceeds its limit only by the end of one turn.              *)
THEOREM OnlyOneTurnIsOver == Spec => []OverLimitIsOneTurn
<1>1. SessionInv => OverLimitIsOneTurn
  <2> SUFFICES ASSUME SessionInv, Len(history) > MaxHistory,
                      NEW i \in Len(history) - MaxHistory + 1 .. Len(history)
               PROVE  history[i].role # "user"
    BY DEF OverLimitIsOneTurn
  <2>1. Len(history) \in Nat /\ MaxHistory \in Nat
    BY LenProperties, SessionAssumption DEF SessionInv, Good
  <2>2. i \in 1..Len(history) /\ ~(i <= Len(history) - MaxHistory)
    BY <2>1
  <2> QED
    BY <2>2 DEF SessionInv, Good
<1> QED
  BY <1>1, SessionInvariant, PTL

(* A client that stays gets exactly one done, and nothing after it.        *)
(* Inductive with the types: every way out of the loop is one step that    *)
(* emits done or has seen the cancellation, which is never taken back.     *)
THEOREM DoneOnce == Spec => []DoneIsLastAndOnce
<1> USE DEF sessionVars, agentVars, chunkVars, DoneIsLastAndOnce
<1> DEFINE DoneInv == /\ DoneIsLastAndOnce
                      /\ \A a \in Agents : pc[a] # "ended" => closed[a] = FALSE
<1>1. Init => DoneInv
  BY DEF Init
<1>2. TypeOK /\ DoneInv /\ [Next]_vars => DoneInv'
  <2> SUFFICES ASSUME TypeOK, DoneInv, [Next]_vars PROVE DoneInv'
    OBVIOUS
  <2> USE DEF To, Emit, emit_terminal, Returns
  <2>0. /\ pc \in [Agents -> PCs] /\ dones \in [Agents -> Nat]
        /\ closed \in [Agents -> BOOLEAN] /\ canceled \in [Agents -> BOOLEAN]
    BY DEF TypeOK
  <2>1. ASSUME NEW a \in Agents, Start(a) \/ CallLlm(a) \/ SaveCalls(a) PROVE DoneInv'
    <3>1. /\ closed' = closed /\ dones' = dones /\ canceled' = canceled
          /\ pc[a] # "ended" /\ pc'[a] # "ended" /\ \A b \in Agents \ {a} : pc'[b] = pc[b]
      BY <2>0, <2>1 DEF Start, CallLlm, SaveCalls
    <3> QED
      BY <3>1
  <2>2. ASSUME NEW a \in Agents, GiveUp(a) \/ CallFailed(a) PROVE DoneInv'
    <3>1. /\ closed' = [closed EXCEPT ![a] = TRUE] /\ dones' = [dones EXCEPT ![a] = @ + 1]
          /\ canceled' = canceled /\ pc[a] # "ended" /\ pc' = [pc EXCEPT ![a] = "ended"]
      BY <2>2 DEF GiveUp, CallFailed
    <3>2. dones[a] = 0 /\ dones'[a] = 1 /\ closed'[a] = TRUE /\ pc'[a] = "ended"
      BY <2>0, <3>1
    <3>3. \A b \in Agents \ {a} : pc'[b] = pc[b] /\ dones'[b] = dones[b] /\ closed'[b] = closed[b]
      BY <2>0, <3>1
    <3> QED
      BY <3>1, <3>2, <3>3
  <2>3. ASSUME NEW a \in Agents, NoticeCancel(a) \/ CallCanceled(a) PROVE DoneInv'
    BY <2>0, <2>3 DEF NoticeCancel, CallCanceled
  <2>4. ASSUME NEW a \in Agents, SaveTool(a) PROVE DoneInv'
    BY <2>0, <2>4 DEF SaveTool
  <2>5. ASSUME NEW a \in Agents, NEW k \in ToolCounts, NEW content \in BOOLEAN,
               CallSucceeds(a, k, content)
        PROVE  DoneInv'
    BY <2>0, <2>5 DEF CallSucceeds
  <2>6. ASSUME NEW a \in Agents, SaveAnswer(a) PROVE DoneInv'
    <3>1. CASE canceled[a]
      BY <2>0, <2>6, <3>1 DEF SaveAnswer
    <3>2. CASE ~canceled[a]
      BY <2>0, <2>6, <3>2 DEF SaveAnswer
    <3> QED
      BY <3>1, <3>2
  <2>7. ASSUME NEW a \in Agents, Cancel(a) PROVE DoneInv'
    BY <2>0, <2>7 DEF Cancel
  <2>8. CASE HourPasses \/ Cleanup \/ UNCHANGED vars
    BY <2>8 DEF HourPasses, Cleanup, vars
  <2> QED
    BY <2>1, <2>2, <2>3, <2>4, <2>5, <2>6, <2>7, <2>8 DEF Next, Step, Returned
<1>3. DoneInv => DoneIsLastAndOnce
  OBVIOUS
<1> QED
  BY <1>1, <1>2, <1>3, TypeCorrect, PTL DEF Spec

----------------------------------------------------------------------------
(* What is sent to the LLM while no two requests to the session overlap.   *)

(* The shape of a history.                                                 *)

(* Every tool message behind an assistant message, as far as its calls     *)
(* reach, answers them in turn, and every tool message answers one.        *)
Ordered(h) ==
  /\ \A i \in 1..Len(h) : h[i].role = "assistant" =>
       \A k \in 1..h[i].n : i + k <= Len(h) => h[i + k] = Tool(h[i].by, h[i].round, k)
  /\ \A i \in 1..Len(h) : h[i].role = "tool" =>
       i > h[i].n /\ h[i - h[i].n].role = "assistant" /\ h[i - h[i].n].n >= h[i].n

(* The calls of the message m wait for their answers from the n-th on; no  *)
(* other calls wait.                                                       *)
Pending(h, m, n) ==
  LET p == Len(h) - n + 1 IN
  /\ Ordered(h) /\ p \in 1..Len(h) /\ h[p] = m
  /\ \A i \in 1..Len(h) : h[i].role = "assistant" /\ i + h[i].n > Len(h) => i = p

(* No question is behind position i, so no cut can be.                     *)
Newest(h, i) == \A j \in 1..Len(h) : j > i => h[j].role # "user"

IsQuestion(m, a) == m.by = a /\ m.role = "user"
IsRound(m, a, r) == m.by = a /\ m.role = "assistant" /\ m.round = r

Unheard(h, a) == \A i \in 1..Len(h) : h[i].by # a
Asked(h, a) ==
  /\ \E i \in 1..Len(h) : IsQuestion(h[i], a) /\ Newest(h, i)
  /\ \A i, j \in 1..Len(h) : IsQuestion(h[i], a) /\ IsQuestion(h[j], a) => i = j
HasRound(h, a, r) == \E i \in 1..Len(h) : IsRound(h[i], a, r) /\ Newest(h, i)

LEMMA Elements ==
  ASSUME NEW h \in Seq(Message)
  PROVE  /\ Len(h) \in Nat /\ DOMAIN h = 1..Len(h)
         /\ \A i \in 1..Len(h) : h[i] \in Message /\ h[i].n \in Nat
<1>1. Len(h) \in Nat /\ DOMAIN h = 1..Len(h)
  BY LenProperties
<1>2. \A i \in 1..Len(h) : h[i] \in Message
  BY ElementOfSeq
<1> QED
  BY <1>1, <1>2 DEF Message

(* In a valid history no call waits.                                       *)
LEMMA ValidIsOrdered ==
  ASSUME NEW h \in Seq(Message)
  PROVE  Valid(h) <=>
           /\ Ordered(h)
           /\ \A i \in 1..Len(h) : h[i].role = "assistant" => i + h[i].n <= Len(h)
<1>0. /\ Len(h) \in Nat /\ DOMAIN h = 1..Len(h) /\ \A i \in 1..Len(h) : h[i].n \in Nat
  BY Elements
<1>1. ASSUME Valid(h) PROVE Ordered(h)
  BY <1>0, <1>1 DEF Valid, Ordered
<1>2. ASSUME Valid(h), NEW i \in 1..Len(h), h[i].role = "assistant" PROVE i + h[i].n <= Len(h)
  <2>1. CASE h[i].n = 0
    BY <1>0, <2>1
  <2>2. CASE h[i].n # 0
    <3>1. h[i].n \in 1..h[i].n
      BY <1>0, <2>2
    <3>2. i + h[i].n \in DOMAIN h
      BY <1>0, <1>2, <3>1 DEF Valid
    <3> QED
      BY <1>0, <3>2
  <2> QED
    BY <2>1, <2>2
<1>3. ASSUME Ordered(h), \A i \in 1..Len(h) : h[i].role = "assistant" => i + h[i].n <= Len(h)
      PROVE  Valid(h)
  <2>1. ASSUME NEW i \in 1..Len(h), h[i].role = "assistant", NEW k \in 1..h[i].n
        PROVE  i + k \in 1..Len(h) /\ h[i + k] = Tool(h[i].by, h[i].round, k)
    <3>1. i + h[i].n <= Len(h) /\ h[i].n \in Nat
      BY <1>0, <1>3, <2>1
    <3>2. i + k <= Len(h) /\ i + k \in 1..Len(h)
      BY <1>0, <3>1
    <3> QED
      BY <1>3, <2>1, <3>2 DEF Ordered
  <2> QED
    BY <1>0, <1>3, <2>1 DEF Valid, Ordered
<1> QED
  BY <1>1, <1>2, <1>3

----------------------------------------------------------------------------
(* What trimming leaves is a tail that begins with a question.             *)

IsTail(g, h, s) ==
  /\ s \in 1..Len(h) /\ (s = 1 \/ h[s].role = "user")
  /\ g \in Seq(Message) /\ Len(g) = Len(h) - s + 1
  /\ \A i \in 1..Len(g) : g[i] = h[s + i - 1]

LEMMA TrimmedIsTail ==
  ASSUME NEW h \in Seq(Message), NoSystem(h), h # <<>>,
         NEW g, g = IF Len(h) > MaxHistory THEN trim_history(h) ELSE h
  PROVE  \E s \in 1..Len(h) : IsTail(g, h, s)
<1>0. Len(h) \in Nat /\ 1 \in 1..Len(h) /\ \A i \in 1..Len(h) : h[i] \in Message
  BY Elements, EmptySeq
<1>1. CASE g = h
  <2>1. IsTail(g, h, 1)
    BY <1>0, <1>1 DEF IsTail
  <2> QED
    BY <1>0, <2>1
<1>2. ASSUME NEW s \in 1..Len(h), h[s].role = "user", g = SubSeq(h, s, Len(h))
      PROVE  IsTail(g, h, s)
  <2>1. s \in Int /\ Len(h) \in Int /\ s <= Len(h) /\ \A i \in s..Len(h) : h[i] \in Message
    BY <1>0
  <2>2. /\ SubSeq(h, s, Len(h)) \in Seq(Message)
        /\ Len(SubSeq(h, s, Len(h))) = IF s <= Len(h) THEN Len(h) - s + 1 ELSE 0
        /\ \A i \in 1..Len(h) - s + 1 : SubSeq(h, s, Len(h))[i] = h[s + i - 1]
    BY <2>1, SubSeqProperties
  <2> QED
    BY <1>2, <2>1, <2>2 DEF IsTail
<1> QED
  BY <1>1, <1>2, Trimmed

LEMMA TailFacts ==
  ASSUME NEW h \in Seq(Message), NEW g, NEW s, IsTail(g, h, s)
  PROVE  /\ Len(h) \in Nat /\ s \in 1..Len(h) /\ Len(g) = Len(h) - s + 1 /\ g \in Seq(Message)
         /\ \A i \in 1..Len(g) : s + i - 1 \in 1..Len(h) /\ g[i] = h[s + i - 1]
         /\ \A i \in 1..Len(h) : h[i].n \in Nat
<1>1. Len(h) \in Nat /\ \A i \in 1..Len(h) : h[i].n \in Nat
  BY Elements
<1>2. s \in 1..Len(h) /\ Len(g) = Len(h) - s + 1 /\ g \in Seq(Message)
  BY DEF IsTail
<1>3. \A i \in 1..Len(g) : g[i] = h[s + i - 1]
  BY DEF IsTail
<1> QED
  BY <1>1, <1>2, <1>3

LEMMA TailIsOrdered ==
  ASSUME NEW h \in Seq(Message), NEW g, NEW s, IsTail(g, h, s), Ordered(h)
  PROVE  Ordered(g)
<1>0. /\ Len(h) \in Nat /\ s \in 1..Len(h) /\ Len(g) = Len(h) - s + 1
      /\ \A i \in 1..Len(g) : s + i - 1 \in 1..Len(h) /\ g[i] = h[s + i - 1]
      /\ \A i \in 1..Len(h) : h[i].n \in Nat
  BY TailFacts
<1>1. ASSUME NEW i \in 1..Len(g), g[i].role = "assistant", NEW k \in 1..g[i].n, i + k <= Len(g)
      PROVE  g[i + k] = Tool(g[i].by, g[i].round, k)
  <2> DEFINE j == s + i - 1
  <2>1. j \in 1..Len(h) /\ g[i] = h[j] /\ h[j].n \in Nat
    BY <1>0
  <2>2. j + k <= Len(h) /\ i + k \in 1..Len(g) /\ s + (i + k) - 1 = j + k
    BY <1>0, <1>1, <2>1
  <2>3. g[i + k] = h[j + k]
    BY <1>0, <2>2
  <2> HIDE DEF j
  <2> QED
    BY <1>1, <2>1, <2>2, <2>3 DEF Ordered
<1>2. ASSUME NEW i \in 1..Len(g), g[i].role = "tool"
      PROVE  i > g[i].n /\ g[i - g[i].n].role = "assistant" /\ g[i - g[i].n].n >= g[i].n
  <2> DEFINE j == s + i - 1
             n == g[i].n
             c == j - n
  <2>1. j \in 1..Len(h) /\ g[i] = h[j] /\ n \in Nat /\ j >= s
    BY <1>0
  <2>2. c >= 1 /\ h[c].role = "assistant" /\ h[c].n >= n
    <3>1. j > h[j].n /\ h[j - h[j].n].role = "assistant" /\ h[j - h[j].n].n >= h[j].n
      BY <1>2, <2>1 DEF Ordered
    <3>2. h[j].n = n
      BY <2>1
    <3> HIDE DEF j, n
    <3> QED
      BY <2>1, <3>1, <3>2, <1>0
  <2>3. s <= c
    <3>1. SUFFICES ASSUME s > c PROVE FALSE
      BY <1>0, <2>1
    <3>2. c \in 1..Len(h) /\ s - c \in 1..h[c].n /\ c + (s - c) = s
      <4> HIDE DEF c
      <4>1. c = j - n
        BY DEF c
      <4>2. c \in 1..Len(h)
        BY <1>0, <2>1, <2>2, <4>1
      <4>3. h[c].n \in Nat
        BY <1>0, <4>2
      <4> HIDE DEF j, n
      <4> QED
        BY <1>0, <2>1, <2>2, <3>1, <4>1, <4>2, <4>3
    <3>3. h[s] = Tool(h[c].by, h[c].round, s - c)
      <4> HIDE DEF c
      <4> QED
        BY <1>0, <2>2, <3>2 DEF Ordered
    <3>4. h[s].role = "user"
      <4>1. s > 1
        BY <3>1, <3>2, <1>0
      <4> QED
        BY <1>0, <4>1 DEF IsTail
    <3> QED
      BY <3>3, <3>4 DEF Tool
  <2>4. i - n \in 1..Len(g) /\ s + (i - n) - 1 = c
    BY <1>0, <2>1, <2>3
  <2>5. g[i - n] = h[c]
    BY <1>0, <2>4
  <2> HIDE DEF c, j, n
  <2>6. i > n /\ g[i - n].role = "assistant" /\ g[i - n].n >= n
    BY <2>1, <2>2, <2>4, <2>5
  <2> QED
    BY <2>6 DEF n
<1> QED
  BY <1>1, <1>2 DEF Ordered

LEMMA TailIsValid ==
  ASSUME NEW h \in Seq(Message), NEW g, NEW s, IsTail(g, h, s), Valid(h)
  PROVE  Valid(g)
<1>0. /\ Len(h) \in Nat /\ s \in 1..Len(h) /\ Len(g) = Len(h) - s + 1 /\ g \in Seq(Message)
      /\ \A i \in 1..Len(g) : s + i - 1 \in 1..Len(h) /\ g[i] = h[s + i - 1]
      /\ \A i \in 1..Len(h) : h[i].n \in Nat
  BY TailFacts
<1>1. Ordered(h) /\ \A i \in 1..Len(h) : h[i].role = "assistant" => i + h[i].n <= Len(h)
  BY ValidIsOrdered
<1>2. ASSUME NEW i \in 1..Len(g), g[i].role = "assistant" PROVE i + g[i].n <= Len(g)
  <2>1. (s + i - 1) + h[s + i - 1].n <= Len(h) /\ h[s + i - 1].n \in Nat
    BY <1>0, <1>1, <1>2
  <2> QED
    BY <1>0, <2>1
<1> QED
  BY <1>0, <1>1, <1>2, TailIsOrdered, ValidIsOrdered

LEMMA TailIsPending ==
  ASSUME NEW h \in Seq(Message), NEW g, NEW s, IsTail(g, h, s),
         NEW m \in Message, m.role = "assistant", NEW n \in 1..m.n, Pending(h, m, n)
  PROVE  Pending(g, m, n)
<1> DEFINE p == Len(h) - n + 1
<1>0. /\ Len(h) \in Nat /\ s \in 1..Len(h) /\ Len(g) = Len(h) - s + 1 /\ g \in Seq(Message)
      /\ \A i \in 1..Len(g) : s + i - 1 \in 1..Len(h) /\ g[i] = h[s + i - 1]
      /\ \A i \in 1..Len(h) : h[i].n \in Nat
  BY TailFacts
<1>a. m.n \in Nat
  BY DEF Message
<1>1. /\ Ordered(h) /\ p \in 1..Len(h) /\ h[p] = m
      /\ \A i \in 1..Len(h) : h[i].role = "assistant" /\ i + h[i].n > Len(h) => i = p
  BY DEF Pending
<1>2. s <= p
  <2>1. SUFFICES ASSUME s > p PROVE FALSE
    BY <1>0, <1>a, <1>1
  <2>2. s - p \in 1..m.n /\ p + (s - p) = s
    BY <1>0, <1>a, <2>1
  <2>3. h[s] = Tool(m.by, m.round, s - p)
    <3>1. PICK q \in 1..Len(h) : q = p /\ h[q] = m
      BY <1>1
    <3>2. PICK k \in 1..m.n : k = s - q /\ q + k = s
      BY <2>2, <3>1
    <3> HIDE DEF p
    <3>3. q + k <= Len(h)
      BY <1>0, <3>2
    <3>4. h[q + k] = Tool(m.by, m.round, k)
      BY <1>1, <3>1, <3>3 DEF Ordered
    <3> QED
      BY <3>1, <3>2, <3>4
  <2>4. h[s].role = "user"
    <3>1. s > 1
      BY <1>1, <1>0, <2>1
    <3> QED
      BY <1>0, <3>1 DEF IsTail
  <2> QED
    BY <2>3, <2>4 DEF Tool
<1>3. Len(g) - n + 1 = p - s + 1 /\ p - s + 1 \in 1..Len(g) /\ s + (p - s + 1) - 1 = p
  BY <1>0, <1>a, <1>1, <1>2
<1>4. g[p - s + 1] = m
  BY <1>0, <1>a, <1>1, <1>3
<1>5. ASSUME NEW i \in 1..Len(g), g[i].role = "assistant", i + g[i].n > Len(g) PROVE i = p - s + 1
  <2>1. s + i - 1 \in 1..Len(h) /\ g[i] = h[s + i - 1] /\ h[s + i - 1].n \in Nat
    BY <1>0, <1>a
  <2>2. (s + i - 1) + h[s + i - 1].n > Len(h)
    BY <1>0, <1>a, <1>5, <2>1
  <2>3. s + i - 1 = p
    BY <1>1, <1>5, <2>1, <2>2
  <2> QED
    BY <1>0, <1>a, <2>3
<1>6. Ordered(g)
  BY <1>1, TailIsOrdered
<1> QED
  BY <1>3, <1>4, <1>5, <1>6 DEF Pending

----------------------------------------------------------------------------
(* Appending.                                                              *)

LEMMA AppendFacts ==
  ASSUME NEW h \in Seq(Message), NEW m \in Message, NEW e, e = Append(h, m)
  PROVE  /\ Len(h) \in Nat /\ e \in Seq(Message) /\ e # <<>> /\ Len(e) = Len(h) + 1 /\ e[Len(h) + 1] = m
         /\ \A i \in 1..Len(h) : e[i] = h[i] /\ h[i].n \in Nat
         /\ \A i \in 1..Len(e) : i = Len(h) + 1 \/ i \in 1..Len(h)
<1>1. /\ Len(h) \in Nat /\ e \in Seq(Message) /\ e # <<>> /\ Len(e) = Len(h) + 1 /\ e[Len(h) + 1] = m
      /\ \A i \in 1..Len(h) : e[i] = h[i]
  BY AppendProperties, LenProperties
<1>2. \A i \in 1..Len(h) : h[i].n \in Nat
  BY Elements
<1> QED
  BY <1>1, <1>2

(* A message that is no tool's answer, when no call waits.                 *)
LEMMA AppendOrdered ==
  ASSUME NEW h \in Seq(Message), Valid(h), NEW m \in Message, m.role # "tool",
         NEW e, e = Append(h, m)
  PROVE  Ordered(e)
<1>0. /\ Len(h) \in Nat /\ Len(e) = Len(h) + 1 /\ e[Len(h) + 1] = m
      /\ \A i \in 1..Len(h) : e[i] = h[i] /\ h[i].n \in Nat
      /\ \A i \in 1..Len(e) : i = Len(h) + 1 \/ i \in 1..Len(h)
  BY AppendFacts
<1>1. Ordered(h) /\ \A i \in 1..Len(h) : h[i].role = "assistant" => i + h[i].n <= Len(h)
  BY ValidIsOrdered
<1>2. ASSUME NEW i \in 1..Len(e), e[i].role = "assistant", NEW k \in 1..e[i].n, i + k <= Len(e)
      PROVE  e[i + k] = Tool(e[i].by, e[i].round, k)
  <2>1. i \in 1..Len(h) /\ k \in 1..h[i].n /\ e[i] = h[i]
    BY <1>0, <1>2
  <2>2. i + k <= Len(h) /\ i + k \in 1..Len(h)
    BY <1>0, <1>1, <1>2, <2>1
  <2> QED
    BY <1>0, <1>1, <1>2, <2>1, <2>2 DEF Ordered
<1>3. ASSUME NEW i \in 1..Len(e), e[i].role = "tool"
      PROVE  i > e[i].n /\ e[i - e[i].n].role = "assistant" /\ e[i - e[i].n].n >= e[i].n
  <2>1. i \in 1..Len(h) /\ e[i] = h[i] /\ h[i].n \in Nat
    BY <1>0, <1>3
  <2>2. i > h[i].n /\ h[i - h[i].n].role = "assistant" /\ h[i - h[i].n].n >= h[i].n
    BY <1>1, <1>3, <2>1 DEF Ordered
  <2>3. i - h[i].n \in 1..Len(h)
    BY <1>0, <2>1, <2>2
  <2> QED
    BY <1>0, <2>1, <2>2, <2>3
<1> QED
  BY <1>2, <1>3 DEF Ordered

LEMMA AppendPlain ==
  ASSUME NEW h \in Seq(Message), Valid(h), NEW m \in Message,
         m.role = "user" \/ (m.role = "assistant" /\ m.n = 0), NEW e, e = Append(h, m)
  PROVE  Valid(e)
<1>0. /\ Len(h) \in Nat /\ e \in Seq(Message) /\ Len(e) = Len(h) + 1 /\ e[Len(h) + 1] = m
      /\ \A i \in 1..Len(h) : e[i] = h[i] /\ h[i].n \in Nat
      /\ \A i \in 1..Len(e) : i = Len(h) + 1 \/ i \in 1..Len(h)
  BY AppendFacts
<1>1. \A i \in 1..Len(h) : h[i].role = "assistant" => i + h[i].n <= Len(h)
  BY ValidIsOrdered
<1>2. ASSUME NEW i \in 1..Len(e), e[i].role = "assistant" PROVE i + e[i].n <= Len(e)
  BY <1>0, <1>1, <1>2
<1> QED
  BY <1>0, <1>2, AppendOrdered, ValidIsOrdered

LEMMA AppendCalls ==
  ASSUME NEW h \in Seq(Message), Valid(h), NEW m \in Message, m.role = "assistant",
         NEW e, e = Append(h, m)
  PROVE  Pending(e, m, 1)
<1>0. /\ Len(h) \in Nat /\ Len(e) = Len(h) + 1 /\ e[Len(h) + 1] = m
      /\ \A i \in 1..Len(h) : e[i] = h[i] /\ h[i].n \in Nat
      /\ \A i \in 1..Len(e) : i = Len(h) + 1 \/ i \in 1..Len(h)
  BY AppendFacts
<1>1. \A i \in 1..Len(h) : h[i].role = "assistant" => i + h[i].n <= Len(h)
  BY ValidIsOrdered
<1>2. Len(e) - 1 + 1 = Len(h) + 1 /\ Len(h) + 1 \in 1..Len(e)
  BY <1>0
<1>3. ASSUME NEW i \in 1..Len(e), e[i].role = "assistant", i + e[i].n > Len(e) PROVE i = Len(h) + 1
  BY <1>0, <1>1, <1>3
<1> QED
  BY <1>0, <1>2, <1>3, AppendOrdered DEF Pending

(* The answer that is due: one call less waits, or none.                   *)
LEMMA AppendAnswer ==
  ASSUME NEW h \in Seq(Message), NEW m \in Message, m.role = "assistant", NEW n \in 1..m.n,
         Pending(h, m, n), NEW e, e = Append(h, Tool(m.by, m.round, n)), Tool(m.by, m.round, n) \in Message
  PROVE  /\ n < m.n => Pending(e, m, n + 1)
         /\ n = m.n => Valid(e)
<1> DEFINE p == Len(h) - n + 1
           t == Tool(m.by, m.round, n)
<1>0. /\ Len(h) \in Nat /\ e \in Seq(Message) /\ Len(e) = Len(h) + 1 /\ e[Len(h) + 1] = t
      /\ \A i \in 1..Len(h) : e[i] = h[i] /\ h[i].n \in Nat
      /\ \A i \in 1..Len(e) : i = Len(h) + 1 \/ i \in 1..Len(h)
  BY AppendFacts
<1>1. /\ Ordered(h) /\ p \in 1..Len(h) /\ h[p] = m /\ m.n \in Nat /\ t.role = "tool" /\ t.n = n
      /\ \A i \in 1..Len(h) : h[i].role = "assistant" /\ i + h[i].n > Len(h) => i = p
  BY DEF Pending, Message, Tool
<1>2. p + n = Len(h) + 1
  BY <1>0
<1> HIDE DEF p, t
<1>3. ASSUME NEW i \in 1..Len(e), e[i].role = "assistant", NEW k \in 1..e[i].n, i + k <= Len(e)
      PROVE  e[i + k] = Tool(e[i].by, e[i].round, k)
  <2>1. i \in 1..Len(h) /\ k \in 1..h[i].n /\ e[i] = h[i] /\ h[i].role = "assistant" /\ h[i].n \in Nat
    BY <1>0, <1>1, <1>3
  <2>2. CASE i + k <= Len(h)
    <3>1. i + k \in 1..Len(h)
      BY <1>0, <2>1, <2>2
    <3> QED
      BY <1>0, <1>1, <2>1, <2>2, <3>1 DEF Ordered
  <2>3. CASE i + k = Len(h) + 1
    <3>1. i + h[i].n > Len(h)
      BY <1>0, <2>1, <2>3
    <3>2. i = p
      BY <1>1, <2>1, <3>1
    <3>3. k = n
      BY <1>0, <1>1, <1>2, <2>3, <3>2
    <3> QED
      BY <1>0, <1>1, <2>1, <2>3, <3>2, <3>3 DEF t
  <2> QED
    BY <1>0, <1>3, <2>1, <2>2, <2>3
<1>4. ASSUME NEW i \in 1..Len(e), e[i].role = "tool"
      PROVE  i > e[i].n /\ e[i - e[i].n].role = "assistant" /\ e[i - e[i].n].n >= e[i].n
  <2>1. CASE i = Len(h) + 1
    <3>1. e[i].n = n /\ i - n = p
      BY <1>0, <1>1, <1>2, <2>1
    <3>2. e[p] = m
      BY <1>0, <1>1
    <3> QED
      BY <1>0, <1>1, <3>1, <3>2
  <2>2. CASE i \in 1..Len(h)
    <3>1. e[i] = h[i] /\ h[i].n \in Nat
      BY <1>0, <2>2
    <3>2. i > h[i].n /\ h[i - h[i].n].role = "assistant" /\ h[i - h[i].n].n >= h[i].n
      BY <1>1, <1>4, <2>2, <3>1 DEF Ordered
    <3>3. i - h[i].n \in 1..Len(h)
      BY <1>0, <2>2, <3>1, <3>2
    <3> QED
      BY <1>0, <3>1, <3>2, <3>3
  <2> QED
    BY <1>0, <2>1, <2>2
<1>5. Ordered(e)
  BY <1>3, <1>4 DEF Ordered
<1>6. ASSUME NEW i \in 1..Len(e), e[i].role = "assistant", i # p PROVE i + e[i].n <= Len(e)
  BY <1>0, <1>1, <1>6
<1>7. e[p] = m /\ p \in 1..Len(e)
  BY <1>0, <1>1
<1>8. ASSUME n < m.n PROVE Pending(e, m, n + 1)
  <2>1. Len(e) - (n + 1) + 1 = p
    BY <1>0, <1>2, <1>1
  <2>2. \A i \in 1..Len(e) : e[i].role = "assistant" /\ i + e[i].n > Len(e) => i = p
    <3>1. \A i \in 1..Len(e) : e[i].role = "assistant" => e[i].n \in Nat
      BY <1>0, <1>1
    <3> QED
      BY <1>0, <1>6, <3>1
  <2> QED
    BY <1>5, <1>7, <2>1, <2>2 DEF Pending
<1>9. ASSUME n = m.n PROVE Valid(e)
  <2>1. p + m.n <= Len(e)
    BY <1>0, <1>1, <1>2, <1>9
  <2>2. ASSUME NEW i \in 1..Len(e), e[i].role = "assistant" PROVE i + e[i].n <= Len(e)
    BY <1>6, <1>7, <2>1, <2>2
  <2> QED
    BY <1>0, <1>5, <2>2, ValidIsOrdered
<1> QED
  BY <1>8, <1>9

----------------------------------------------------------------------------
(* The messages of one turn.                                               *)

LEMMA TailKeepsTurn ==
  ASSUME NEW h \in Seq(Message), NEW g, NEW s, IsTail(g, h, s), NEW a \in Agents
  PROVE  /\ Unheard(h, a) => Unheard(g, a)
         /\ Asked(h, a) => Asked(g, a)
         /\ \A r : HasRound(h, a, r) => HasRound(g, a, r)
<1>0. /\ Len(h) \in Nat /\ s \in 1..Len(h) /\ Len(g) = Len(h) - s + 1
      /\ \A i \in 1..Len(g) : s + i - 1 \in 1..Len(h) /\ g[i] = h[s + i - 1]
      /\ s = 1 \/ h[s].role = "user"
  BY TailFacts DEF IsTail
<1>1. ASSUME NEW i \in 1..Len(h), Newest(h, i)
      PROVE  i - s + 1 \in 1..Len(g) /\ g[i - s + 1] = h[i] /\ Newest(g, i - s + 1)
  <2>1. s <= i
    BY <1>0, <1>1 DEF Newest
  <2>2. i - s + 1 \in 1..Len(g) /\ s + (i - s + 1) - 1 = i
    BY <1>0, <2>1
  <2>3. g[i - s + 1] = h[i]
    BY <1>0, <2>2
  <2>4. ASSUME NEW j \in 1..Len(g), j > i - s + 1 PROVE g[j].role # "user"
    <3>1. s + j - 1 \in 1..Len(h) /\ s + j - 1 > i /\ g[j] = h[s + j - 1]
      BY <1>0, <2>2, <2>4
    <3> QED
      BY <1>1, <3>1 DEF Newest
  <2> QED
    BY <2>2, <2>3, <2>4 DEF Newest
<1>2. Unheard(h, a) => Unheard(g, a)
  BY <1>0 DEF Unheard
<1>3. ASSUME Asked(h, a) PROVE Asked(g, a)
  <2>1. PICK i \in 1..Len(h) : IsQuestion(h[i], a) /\ Newest(h, i)
    BY <1>3 DEF Asked
  <2>2. \E x \in 1..Len(g) : IsQuestion(g[x], a) /\ Newest(g, x)
    BY <1>1, <2>1
  <2>3. ASSUME NEW x \in 1..Len(g), NEW y \in 1..Len(g), IsQuestion(g[x], a), IsQuestion(g[y], a)
        PROVE  x = y
    <3>1. /\ s + x - 1 \in 1..Len(h) /\ s + y - 1 \in 1..Len(h)
          /\ IsQuestion(h[s + x - 1], a) /\ IsQuestion(h[s + y - 1], a)
      BY <1>0, <2>3
    <3>2. s + x - 1 = s + y - 1
      BY <1>3, <3>1 DEF Asked
    <3> QED
      BY <1>0, <3>2
  <2> QED
    BY <2>2, <2>3 DEF Asked
<1>4. ASSUME NEW r, HasRound(h, a, r) PROVE HasRound(g, a, r)
  <2>1. PICK i \in 1..Len(h) : IsRound(h[i], a, r) /\ Newest(h, i)
    BY <1>4 DEF HasRound
  <2> QED
    BY <1>1, <2>1 DEF HasRound
<1> QED
  BY <1>2, <1>3, <1>4

LEMMA AppendKeepsTurn ==
  ASSUME NEW h \in Seq(Message), NEW m \in Message, NEW e, e = Append(h, m), NEW a \in Agents
  PROVE  /\ Unheard(h, a) /\ m.by # a => Unheard(e, a)
         /\ Asked(h, a) /\ m.role # "user" => Asked(e, a)
         /\ \A r : HasRound(h, a, r) /\ m.role # "user" => HasRound(e, a, r)
         /\ Unheard(h, a) /\ IsQuestion(m, a) => Asked(e, a)
         /\ \A r : IsRound(m, a, r) => HasRound(e, a, r)
<1>0. /\ Len(h) \in Nat /\ Len(e) = Len(h) + 1 /\ e[Len(h) + 1] = m
      /\ \A i \in 1..Len(h) : e[i] = h[i]
      /\ \A i \in 1..Len(e) : i = Len(h) + 1 \/ i \in 1..Len(h)
      /\ Len(h) + 1 \in 1..Len(e) /\ \A i \in 1..Len(h) : i \in 1..Len(e)
  <2>1. /\ Len(h) \in Nat /\ Len(e) = Len(h) + 1 /\ e[Len(h) + 1] = m
        /\ \A i \in 1..Len(h) : e[i] = h[i]
        /\ \A i \in 1..Len(e) : i = Len(h) + 1 \/ i \in 1..Len(h)
    BY AppendFacts
  <2> QED
    BY <2>1
<1>1. ASSUME m.role # "user", NEW i \in 1..Len(h), Newest(h, i) PROVE Newest(e, i)
  BY <1>0, <1>1 DEF Newest
<1>2. Newest(e, Len(h) + 1)
  BY <1>0 DEF Newest
<1>3. Unheard(h, a) /\ m.by # a => Unheard(e, a)
  BY <1>0 DEF Unheard
<1>4. ASSUME Asked(h, a), m.role # "user" PROVE Asked(e, a)
  BY <1>0, <1>1, <1>4 DEF Asked, IsQuestion
<1>5. ASSUME NEW r, HasRound(h, a, r), m.role # "user" PROVE HasRound(e, a, r)
  BY <1>0, <1>1, <1>5 DEF HasRound
<1>6. ASSUME Unheard(h, a), IsQuestion(m, a) PROVE Asked(e, a)
  BY <1>0, <1>2, <1>6 DEF Asked, IsQuestion, Unheard
<1>7. ASSUME NEW r, IsRound(m, a, r) PROVE HasRound(e, a, r)
  BY <1>0, <1>2, <1>7 DEF HasRound
<1> QED
  BY <1>3, <1>4, <1>5, <1>6, <1>7

----------------------------------------------------------------------------
(* What append_message makes of a history, its trimming included.          *)

Kept(h, m, g) ==
  g = IF Len(Append(h, m)) > MaxHistory THEN trim_history(Append(h, m)) ELSE Append(h, m)

LEMMA KeptIsTail ==
  ASSUME NEW h, Good(h), NEW m \in Message, m.role # "system", NEW g, Kept(h, m, g)
  PROVE  \E s : IsTail(g, Append(h, m), s)
<1> DEFINE e == Append(h, m)
<1>0. h \in Seq(Message) /\ NoSystem(h)
  BY DEF Good
<1>1. /\ Len(h) \in Nat /\ e \in Seq(Message) /\ e # <<>> /\ Len(e) = Len(h) + 1 /\ e[Len(h) + 1] = m
      /\ \A i \in 1..Len(h) : e[i] = h[i]
      /\ \A i \in 1..Len(e) : i = Len(h) + 1 \/ i \in 1..Len(h)
  BY <1>0, AppendFacts
<1>2. NoSystem(e)
  BY <1>0, <1>1 DEF NoSystem
<1>3. g = IF Len(e) > MaxHistory THEN trim_history(e) ELSE e
  BY DEF Kept
<1> HIDE DEF e
<1>4. \E s \in 1..Len(e) : IsTail(g, e, s)
  BY <1>1, <1>2, <1>3, TrimmedIsTail
<1> QED
  BY <1>4 DEF e

LEMMA KeptPlain ==
  ASSUME NEW h, Good(h), Valid(h), NEW m \in Message,
         m.role = "user" \/ (m.role = "assistant" /\ m.n = 0), NEW g, Kept(h, m, g)
  PROVE  Valid(g)
<1>1. PICK e : e = Append(h, m)
  OBVIOUS
<1>2. PICK s : IsTail(g, e, s)
  BY <1>1, KeptIsTail
<1>3. Valid(e) /\ e \in Seq(Message)
  BY <1>1, AppendPlain, AppendFacts DEF Good
<1> QED
  BY <1>2, <1>3, TailIsValid

LEMMA KeptCalls ==
  ASSUME NEW h, Good(h), Valid(h), NEW m \in Message, m.role = "assistant", m.n >= 1,
         NEW g, Kept(h, m, g)
  PROVE  Pending(g, m, 1)
<1>1. PICK e : e = Append(h, m)
  OBVIOUS
<1>2. PICK s : IsTail(g, e, s)
  BY <1>1, KeptIsTail
<1>3. Pending(e, m, 1) /\ e \in Seq(Message)
  BY <1>1, AppendCalls, AppendFacts DEF Good
<1>4. 1 \in 1..m.n
  BY DEF Message
<1> QED
  BY <1>2, <1>3, <1>4, TailIsPending

LEMMA KeptAnswer ==
  ASSUME NEW h, Good(h), NEW m \in Message, m.role = "assistant", NEW n \in 1..m.n,
         Pending(h, m, n), Tool(m.by, m.round, n) \in Message,
         NEW g, Kept(h, Tool(m.by, m.round, n), g)
  PROVE  /\ n < m.n => Pending(g, m, n + 1)
         /\ n = m.n => Valid(g)
<1> DEFINE t == Tool(m.by, m.round, n)
<1>0. t \in Message /\ t.role = "tool" /\ Kept(h, t, g)
  BY DEF Tool
<1>1. PICK e : e = Append(h, t)
  OBVIOUS
<1>2. PICK s : IsTail(g, e, s)
  BY <1>0, <1>1, KeptIsTail
<1>3. e \in Seq(Message)
  BY <1>0, <1>1, AppendFacts DEF Good
<1>4. /\ n < m.n => Pending(e, m, n + 1)
      /\ n = m.n => Valid(e)
  BY <1>0, <1>1, AppendAnswer DEF Good
<1>5. n < m.n => n + 1 \in 1..m.n
  BY DEF Message
<1> QED
  BY <1>2, <1>3, <1>4, <1>5, TailIsPending, TailIsValid

LEMMA KeptTurn ==
  ASSUME NEW h, Good(h), NEW m \in Message, m.role # "system", NEW g, Kept(h, m, g), NEW a \in Agents
  PROVE  /\ Unheard(h, a) /\ m.by # a => Unheard(g, a)
         /\ Asked(h, a) /\ m.role # "user" => Asked(g, a)
         /\ \A r : HasRound(h, a, r) /\ m.role # "user" => HasRound(g, a, r)
         /\ Unheard(h, a) /\ IsQuestion(m, a) => Asked(g, a)
         /\ \A r : IsRound(m, a, r) => HasRound(g, a, r)
<1>1. PICK e : e = Append(h, m)
  OBVIOUS
<1>2. PICK s : IsTail(g, e, s)
  BY <1>1, KeptIsTail
<1>3. h \in Seq(Message) /\ e \in Seq(Message)
  BY <1>1, AppendFacts DEF Good
<1>4. /\ Unheard(e, a) => Unheard(g, a)
      /\ Asked(e, a) => Asked(g, a)
      /\ \A r : HasRound(e, a, r) => HasRound(g, a, r)
  BY <1>2, <1>3, TailKeepsTurn
<1> QED
  BY <1>1, <1>3, <1>4, AppendKeepsTurn

----------------------------------------------------------------------------
(* The invariant of requests that do not overlap.                          *)

(* Nothing of the turn is saved yet; how many rounds of it are.            *)
Fresh(a) ==
  \/ pc[a] \in {"idle", "loop"} /\ iteration[a] = 0
  \/ pc[a] = "calling" /\ iteration[a] = 1
Rounds(a) == IF pc[a] \in {"calling", "save"} THEN iteration[a] - 1 ELSE iteration[a]

(* One agent at a time; an hour of silence falls before anything is saved. *)
AloneInv ==
  /\ \A a, b \in Agents : UnderWay(a) /\ UnderWay(b) => a = b
  /\ \A a \in Agents : pc[a] = "idle" => iteration[a] = 0
  /\ quiet => \A a \in Agents :
       UnderWay(a) => Fresh(a) \/ (pc[a] = "save" /\ iteration[a] = 1 /\ ~message[a])

PendingInv ==
  /\ (\A a \in Agents : pc[a] # "tools") => Valid(history)
  /\ \A a \in Agents : pc[a] = "tools" =>
       /\ next[a] \in 1..calls[a]
       /\ Pending(history, Answer(a, iteration[a], calls[a]), next[a])

TurnInv ==
  \A a \in Agents :
    /\ Fresh(a) => Unheard(history, a)
    /\ UnderWay(a) /\ ~Fresh(a) /\ message[a] => Asked(history, a)
    /\ UnderWay(a) => \A r \in 1..Rounds(a) : HasRound(history, a, r)

RequestInv ==
  \A a \in Agents : pc[a] = "calling" =>
    /\ Valid(request[a])
    /\ message[a] => \E i \in 1..Len(request[a]) : \A j \in 1..Len(request[a]) :
         IsQuestion(request[a][j], a) <=> j = i
    /\ \A r \in 1..iteration[a] - 1 : \E i \in 1..Len(request[a]) : IsRound(request[a][i], a, r)

SerialInv == ~shared => AloneInv /\ PendingInv /\ TurnInv /\ RequestInv

LEMMA SerialInit == Init => SerialInv
<1> SUFFICES ASSUME Init PROVE SerialInv
  OBVIOUS
<1>1. history = <<>> /\ Len(history) = 0 /\ DOMAIN history = {} /\ pc = [a \in Agents |-> "idle"]
      /\ quiet = FALSE /\ iteration = [a \in Agents |-> 0]
  BY EmptySeq DEF Init, SessionInit
<1>2. AloneInv
  BY <1>1 DEF AloneInv, UnderWay
<1>3. PendingInv
  BY <1>1 DEF PendingInv, Valid
<1>4. TurnInv
  BY <1>1 DEF TurnInv, UnderWay, Unheard
<1>5. RequestInv
  BY <1>1 DEF RequestInv
<1> QED
  BY <1>2, <1>3, <1>4, <1>5 DEF SerialInv

LEMMA QuestionType ==
  ASSUME NEW a \in Agents
  PROVE  User(a) \in Message /\ User(a).role = "user" /\ User(a).by = a
<1>1. 1 \in 1..MaxIterations /\ 0 \in Nat
  BY SessionAssumption
<1> QED
  BY <1>1, MessageTypes DEF User

(* A step of a that saves m for it, while a is the only agent under way.   *)
LEMMA OthersUnheard ==
  ASSUME TypeOK, Good(history), AloneInv, TurnInv, NEW a \in Agents, UnderWay(a),
         NEW m \in Message, m.by = a, m.role # "system", append_message(m),
         iteration' = iteration, NEW p, pc' = [pc EXCEPT ![a] = p],
         p = "loop" => iteration[a] >= 1, p \notin {"idle", "calling"}
  PROVE  /\ Kept(history, m, history') /\ quiet' = FALSE
         /\ AloneInv'
         /\ \A b \in Agents : Fresh(b)' => Unheard(history, b)' /\ b # a
         /\ \A b \in Agents : UnderWay(b)' => b = a
         /\ \A b \in Agents : pc'[b] = "tools" => b = a
<1>0. /\ pc \in [Agents -> PCs] /\ iteration \in [Agents -> 0..MaxIterations]
      /\ pc'[a] = p /\ \A b \in Agents \ {a} : pc'[b] = pc[b]
  BY DEF TypeOK
<1>1. Kept(history, m, history') /\ quiet' = FALSE
  BY DEF Kept, append_message
<1>2. \A b \in Agents : UnderWay(b) => b = a
  BY DEF AloneInv
<1>3. \A b \in Agents : UnderWay(b)' => b = a
  BY <1>0, <1>2 DEF UnderWay
<1>4. AloneInv'
  BY <1>0, <1>1, <1>3 DEF AloneInv
<1>5. \A b \in Agents : pc'[b] = "tools" => b = a
  BY <1>3 DEF UnderWay
<1>6. ASSUME NEW b \in Agents, Fresh(b)' PROVE Unheard(history, b)' /\ b # a
  <2>1. b # a
    <3>1. ~Fresh(a)'
      <4>1. iteration'[a] = iteration[a] /\ iteration[a] \in 0..MaxIterations /\ MaxIterations \in Nat
        BY <1>0, SessionAssumption
      <4>2. p # "idle" /\ p # "calling" /\ (p = "loop" => iteration[a] # 0)
        BY <4>1
      <4> QED
        BY <1>0, <4>1, <4>2 DEF Fresh
    <3> QED
      BY <1>6, <3>1
  <2>2. Fresh(b)
    BY <1>0, <1>6, <2>1 DEF Fresh
  <2>3. Unheard(history, b)
    BY <2>2 DEF TurnInv
  <2>4. Unheard(history', b)
    BY <1>1, <2>1, <2>3, KeptTurn
  <2> QED
    BY <2>1, <2>4 DEF Unheard
<1> QED
  BY <1>1, <1>3, <1>4, <1>5, <1>6

LEMMA SerialStep ==
  SessionInv /\ SerialInv /\ [Next]_vars => SerialInv'
<1> SUFFICES ASSUME SessionInv, SerialInv, [Next]_vars, ~shared' PROVE SerialInv'
  BY DEF SerialInv
<1> USE DEF To, Emit, emit_terminal, Forget, Returns
<1>0. /\ TypeOK /\ Good(history) /\ RoundInv
      /\ history \in Seq(Message) /\ MaxIterations \in Nat /\ MaxIterations > 0
      /\ pc \in [Agents -> PCs] /\ iteration \in [Agents -> 0..MaxIterations]
      /\ message \in [Agents -> BOOLEAN] /\ request \in [Agents -> Seq(Message)]
  BY SessionAssumption DEF SessionInv, TypeOK, SessionTypeOK
<1>00. \A a \in Agents : iteration[a] \in Nat /\ message[a] \in BOOLEAN /\ pc[a] \in PCs
  BY <1>0
<1>s. ~shared
  BY DEF Next, Step, Returned, Start, GiveUp, NoticeCancel, CallLlm, CallCanceled, CallFailed,
         CallSucceeds, SaveAnswer, SaveCalls, SaveTool, Cancel, HourPasses, Cleanup, vars
<1>i. AloneInv /\ PendingInv /\ TurnInv /\ RequestInv
  BY <1>s DEF SerialInv
<1>alone. ASSUME NEW a \in Agents, UnderWay(a)
          PROVE  /\ \A b \in Agents : UnderWay(b) => b = a
                 /\ pc[a] # "tools" => Valid(history)
  <2>1. \A b \in Agents : UnderWay(b) => b = a
    BY <1>alone, <1>i DEF AloneInv
  <2>2. \A b \in Agents : pc[b] = "tools" => b = a
    BY <2>1 DEF UnderWay
  <2> QED
    BY <1>i, <2>1, <2>2 DEF PendingInv
(* The run of an agent begins. *)
<1>1. ASSUME NEW a \in Agents, Start(a) PROVE SerialInv'
  <2>1. /\ \A b \in Agents : ~UnderWay(b)
        /\ pc[a] = "idle" /\ pc' = [pc EXCEPT ![a] = "loop"]
        /\ UNCHANGED <<history, quiet, iteration, request>>
    BY <1>1 DEF Start, sessionVars
  <2>2. /\ iteration[a] = 0 /\ pc'[a] = "loop" /\ \A b \in Agents \ {a} : pc'[b] = pc[b]
        /\ \A b \in Agents : pc[b] \in {"idle", "ended"}
    BY <1>0, <1>i, <2>1 DEF AloneInv, UnderWay, PCs
  <2>3. AloneInv'
    BY <1>i, <2>1, <2>2 DEF AloneInv, UnderWay, Fresh
  <2>4. PendingInv'
    BY <1>i, <2>1, <2>2 DEF PendingInv
  <2>5. TurnInv'
    <3>1. ASSUME NEW b \in Agents, Fresh(b)' PROVE Unheard(history, b)'
      <4>1. Fresh(b)
        BY <2>1, <2>2, <3>1 DEF Fresh
      <4> QED
        BY <1>i, <2>1, <4>1 DEF TurnInv, Unheard
    <3>2. ASSUME NEW b \in Agents, UnderWay(b)' PROVE b = a /\ Fresh(b)' /\ Rounds(b)' = 0
      BY <2>1, <2>2, <3>2 DEF UnderWay, Fresh, Rounds
    <3> QED
      BY <3>1, <3>2 DEF TurnInv
  <2>6. RequestInv'
    BY <2>1, <2>2 DEF RequestInv
  <2> QED
    BY <2>3, <2>4, <2>5, <2>6 DEF SerialInv
(* It ends without saving anything. *)
<1>2. ASSUME NEW a \in Agents, UnderWay(a), pc[a] # "tools", pc' = [pc EXCEPT ![a] = "ended"],
             UNCHANGED <<history, quiet, iteration, message>>, \A b \in Agents \ {a} : request'[b] = request[b]
      PROVE  SerialInv'
  <2>1. /\ pc'[a] = "ended" /\ \A b \in Agents \ {a} : pc'[b] = pc[b] /\ pc[b] \in {"idle", "ended"}
        /\ Valid(history)
    BY <1>0, <1>2, <1>alone DEF UnderWay, PCs
  <2>2. \A b \in Agents : ~UnderWay(b)' /\ pc'[b] # "tools" /\ pc'[b] # "calling"
    BY <2>1 DEF UnderWay
  <2>3. AloneInv'
    BY <1>i, <1>2, <2>1, <2>2 DEF AloneInv
  <2>4. PendingInv'
    BY <1>2, <2>1, <2>2 DEF PendingInv
  <2>5. TurnInv'
    <3>1. ASSUME NEW b \in Agents, Fresh(b)' PROVE Unheard(history, b)'
      <4>1. Fresh(b)
        BY <1>2, <2>1, <3>1 DEF Fresh
      <4> QED
        BY <1>i, <1>2, <4>1 DEF TurnInv, Unheard
    <3> QED
      BY <2>2, <3>1 DEF TurnInv
  <2>6. RequestInv'
    BY <2>2 DEF RequestInv
  <2> QED
    BY <2>3, <2>4, <2>5, <2>6 DEF SerialInv
<1>3. ASSUME NEW a \in Agents, GiveUp(a) \/ NoticeCancel(a) \/ CallCanceled(a) \/ CallFailed(a)
      PROVE  SerialInv'
  <2>1. /\ pc[a] \in {"loop", "calling"} /\ pc' = [pc EXCEPT ![a] = "ended"]
        /\ UNCHANGED <<history, quiet, iteration, message>>
        /\ \A b \in Agents \ {a} : request'[b] = request[b]
    BY <1>0, <1>3 DEF GiveUp, NoticeCancel, CallCanceled, CallFailed, sessionVars
  <2>2. UnderWay(a) /\ pc[a] # "tools"
    BY <2>1 DEF UnderWay
  <2> QED
    BY <1>2, <2>1, <2>2
(* Steps that leave what the invariant is about alone. *)
<1>4. ASSUME UNCHANGED <<history, quiet, pc, iteration, message, request, next, calls>> PROVE SerialInv'
  BY <1>4, <1>i DEF SerialInv, AloneInv, PendingInv, TurnInv, RequestInv, Fresh, Rounds, UnderWay,
                    Unheard, Asked, HasRound, Valid, Pending, Ordered, Newest, Answer
<1>5. ASSUME HourPasses PROVE SerialInv'
  <2>1. /\ UNCHANGED <<history, pc, iteration, message, request, next, calls>>
        /\ \A b \in Agents : UnderWay(b) => Fresh(b)
    BY <1>5 DEF HourPasses, agentVars, Fresh
  <2>2. AloneInv'
    BY <1>i, <2>1 DEF AloneInv, UnderWay, Fresh
  <2>3. PendingInv'
    BY <1>i, <2>1 DEF PendingInv, Valid, Pending, Ordered, Answer
  <2>4. TurnInv'
    BY <1>i, <2>1 DEF TurnInv, Fresh, Rounds, UnderWay, Unheard, Asked, HasRound, Newest
  <2>5. RequestInv'
    BY <1>i, <2>1 DEF RequestInv, Valid
  <2> QED
    BY <2>2, <2>3, <2>4, <2>5 DEF SerialInv
(* The session is cleaned up: nothing of a turn is saved. *)
<1>6. ASSUME Cleanup PROVE SerialInv'
  <2>1. /\ UNCHANGED <<pc, iteration, message, request, next, calls>>
        /\ quiet /\ ~quiet' /\ history' = <<>> /\ Len(history') = 0 /\ DOMAIN history' = {}
    BY <1>6, EmptySeq DEF Cleanup, cleanup_expired_sessions, agentVars
  <2>2. \A b \in Agents :
          UnderWay(b) => Fresh(b) \/ (pc[b] = "save" /\ iteration[b] = 1 /\ ~message[b])
    BY <1>i, <2>1 DEF AloneInv
  <2>3. AloneInv'
    BY <1>i, <2>1 DEF AloneInv, UnderWay
  <2>4. PendingInv'
    <3>1. \A b \in Agents : pc'[b] # "tools"
      BY <2>1, <2>2 DEF UnderWay, Fresh
    <3> QED
      BY <2>1, <3>1 DEF PendingInv, Valid
  <2>5. TurnInv'
    <3>1. \A b \in Agents : Unheard(history, b)'
      BY <2>1 DEF Unheard
    <3>2. \A b \in Agents : (UnderWay(b)' <=> UnderWay(b)) /\ (Fresh(b)' <=> Fresh(b)) /\ Rounds(b)' = Rounds(b)
      BY <2>1 DEF UnderWay, Fresh, Rounds
    <3>3. \A b \in Agents : UnderWay(b) => Rounds(b) = 0
      BY <2>2 DEF Fresh, Rounds
    <3>4. \A b \in Agents : UnderWay(b) /\ ~Fresh(b) => ~message'[b]
      BY <2>1, <2>2
    <3> QED
      BY <3>1, <3>2, <3>3, <3>4 DEF TurnInv
  <2>6. RequestInv'
    BY <1>i, <2>1 DEF RequestInv, Valid
  <2> QED
    BY <2>3, <2>4, <2>5, <2>6 DEF SerialInv
(* The request is the history, with the question in front of the first round. *)
<1>7. ASSUME NEW a \in Agents, CallLlm(a) PROVE SerialInv'
  <2>1. /\ pc[a] = "loop" /\ pc' = [pc EXCEPT ![a] = "calling"]
        /\ iteration' = [iteration EXCEPT ![a] = iteration[a] + 1]
        /\ request' = [request EXCEPT ![a] = build_request_body(a)]
        /\ UNCHANGED <<history, quiet, message, next, calls>>
    BY <1>7 DEF CallLlm, sessionVars
  <2>2. /\ UnderWay(a) /\ Valid(history) /\ pc'[a] = "calling" /\ iteration'[a] = iteration[a] + 1
        /\ \A b \in Agents \ {a} : pc'[b] = pc[b] /\ iteration'[b] = iteration[b] /\ pc[b] \in {"idle", "ended"}
        /\ request'[a] = build_request_body(a) /\ iteration[a] \in Nat
    <3>1. UnderWay(a)
      BY <2>1 DEF UnderWay
    <3>2. Valid(history) /\ \A b \in Agents \ {a} : pc[b] \in {"idle", "ended"}
      BY <1>0, <1>alone, <2>1, <3>1 DEF UnderWay, PCs
    <3> QED
      BY <1>0, <1>00, <2>1, <3>1, <3>2
  <2>3. /\ \A b \in Agents : Fresh(b)' <=> Fresh(b)
        /\ \A b \in Agents : UnderWay(b)' <=> b = a
        /\ Rounds(a)' = iteration[a] /\ Rounds(a) = iteration[a]
    BY <2>1, <2>2 DEF Fresh, UnderWay, Rounds
  <2>4. AloneInv'
    <3>1. quiet => Fresh(a)
      BY <1>i, <2>1, <2>2 DEF AloneInv
    <3>2. \A b \in Agents : pc'[b] = "idle" => iteration'[b] = 0
      BY <1>i, <2>2 DEF AloneInv
    <3> QED
      BY <2>1, <2>3, <3>1, <3>2 DEF AloneInv
  <2>5. PendingInv'
    <3>1. \A b \in Agents : pc'[b] # "tools"
      BY <2>2
    <3> QED
      BY <2>1, <2>2, <3>1 DEF PendingInv
  <2>6. TurnInv'
    <3>1. \A b \in Agents : Fresh(b)' => Unheard(history, b)'
      BY <1>i, <2>1, <2>3 DEF TurnInv, Unheard
    <3>2. ~Fresh(a)' /\ message'[a] => Asked(history, a)'
      BY <1>i, <2>1, <2>2, <2>3 DEF TurnInv, Asked, Newest
    <3>3. \A r \in 1..iteration[a] : HasRound(history, a, r)'
      BY <1>i, <2>1, <2>2, <2>3 DEF TurnInv, HasRound, Newest
    <3> QED
      BY <2>3, <3>1, <3>2, <3>3 DEF TurnInv
  <2>7. /\ Valid(build_request_body(a))
        /\ message[a] => \E i \in 1..Len(build_request_body(a)) : \A j \in 1..Len(build_request_body(a)) :
             IsQuestion(build_request_body(a)[j], a) <=> j = i
        /\ \A r \in 1..iteration[a] : \E i \in 1..Len(build_request_body(a)) :
             IsRound(build_request_body(a)[i], a, r)
    <3>1. CASE iteration[a] = 0 /\ message[a]
      <4>1. build_request_body(a) = Append(history, User(a))
        BY <3>1 DEF build_request_body
      <4>2. Unheard(history, a)
        BY <1>i, <2>1, <3>1 DEF TurnInv, Fresh
      <4>3. User(a) \in Message /\ User(a).role = "user" /\ User(a).by = a
        BY QuestionType
      <4>4. PICK e : e = Append(history, User(a))
        OBVIOUS
      <4>5. Valid(e)
        BY <1>0, <2>2, <4>3, <4>4, AppendPlain
      <4>6. /\ Len(history) \in Nat /\ Len(e) = Len(history) + 1 /\ e[Len(history) + 1] = User(a)
            /\ \A i \in 1..Len(history) : e[i] = history[i]
            /\ \A i \in 1..Len(e) : i = Len(history) + 1 \/ i \in 1..Len(history)
        BY <1>0, <4>3, <4>4, AppendFacts
      <4>7. \A j \in 1..Len(e) : IsQuestion(e[j], a) <=> j = Len(history) + 1
        BY <4>2, <4>3, <4>6 DEF Unheard, IsQuestion
      <4>8. Len(history) + 1 \in 1..Len(e)
        BY <4>6
      <4> QED
        BY <3>1, <4>1, <4>4, <4>5, <4>7, <4>8
    <3>2. CASE ~(iteration[a] = 0 /\ message[a])
      <4>1. build_request_body(a) = history
        BY <3>2 DEF build_request_body
      <4>2. message[a] => Asked(history, a)
        BY <1>i, <2>1, <2>2, <3>2 DEF TurnInv, Fresh
      <4>3. \A r \in 1..iteration[a] : HasRound(history, a, r)
        BY <1>i, <2>2, <2>3 DEF TurnInv
      <4>4. message[a] => \E i \in 1..Len(history) : \A j \in 1..Len(history) :
              IsQuestion(history[j], a) <=> j = i
        BY <4>2 DEF Asked
      <4> QED
        BY <2>2, <4>1, <4>3, <4>4 DEF HasRound
    <3> QED
      BY <3>1, <3>2
  <2>8. RequestInv'
    <3>1. \A b \in Agents : pc'[b] = "calling" => b = a
      BY <2>2
    <3>2. iteration'[a] - 1 = iteration[a] /\ message' = message /\ request'[a] = build_request_body(a)
      BY <2>1, <2>2
    <3>3. PICK q : q = build_request_body(a)
      OBVIOUS
    <3>4. request'[a] = q
      BY <3>2, <3>3
    <3>5. /\ Valid(q)
          /\ message[a] => \E i \in 1..Len(q) : \A j \in 1..Len(q) : IsQuestion(q[j], a) <=> j = i
          /\ \A r \in 1..iteration[a] : \E i \in 1..Len(q) : IsRound(q[i], a, r)
      BY <2>7, <3>3
    <3> QED
      BY <3>1, <3>2, <3>4, <3>5 DEF RequestInv
  <2> QED
    BY <2>4, <2>5, <2>6, <2>8 DEF SerialInv
(* The first call succeeds: the question is saved. *)
<1>8. ASSUME NEW a \in Agents, NEW k \in ToolCounts, NEW content \in BOOLEAN, CallSucceeds(a, k, content)
      PROVE  SerialInv'
  <2>1. /\ pc[a] = "calling" /\ pc' = [pc EXCEPT ![a] = "save"]
        /\ iteration' = iteration /\ message' = message
        /\ iteration[a] = 1 /\ message[a] => append_message(User(a))
        /\ ~(iteration[a] = 1 /\ message[a]) => UNCHANGED <<history, quiet>>
    BY <1>8 DEF CallSucceeds, sessionVars
  <2>2. /\ UnderWay(a) /\ Valid(history) /\ pc'[a] = "save" /\ iteration[a] >= 1
        /\ \A b \in Agents \ {a} : pc'[b] = pc[b] /\ pc[b] \in {"idle", "ended"}
    <3>1. UnderWay(a)
      BY <2>1 DEF UnderWay
    <3>2. Valid(history) /\ \A b \in Agents \ {a} : pc[b] \in {"idle", "ended"}
      BY <1>0, <1>alone, <2>1, <3>1 DEF UnderWay, PCs
    <3> QED
      BY <1>0, <2>1, <3>1, <3>2 DEF RoundInv
  <2>3. /\ ~Fresh(a)' /\ Rounds(a)' = iteration[a] - 1 /\ Rounds(a) = iteration[a] - 1
        /\ \A b \in Agents : UnderWay(b)' <=> b = a
        /\ \A b \in Agents : pc'[b] # "tools" /\ pc'[b] # "calling"
        /\ \A b \in Agents : Fresh(b)' => Fresh(b)
    BY <2>1, <2>2 DEF Fresh, Rounds, UnderWay
  <2>4. RequestInv'
    BY <2>3 DEF RequestInv
  <2>5. CASE iteration[a] = 1 /\ message[a]
    <3>1. User(a) \in Message /\ User(a).role = "user" /\ User(a).by = a /\ append_message(User(a))
      BY <2>1, <2>5, QuestionType
    <3>2. /\ Kept(history, User(a), history') /\ AloneInv'
          /\ \A b \in Agents : Fresh(b)' => Unheard(history, b)' /\ b # a
      BY <1>0, <1>i, <2>1, <2>2, <3>1, OthersUnheard
    <3>3. PendingInv'
      <4>1. Valid(history')
        BY <1>0, <2>2, <3>1, <3>2, KeptPlain
      <4> QED
        BY <2>3, <4>1 DEF PendingInv, Valid
    <3>4. TurnInv'
      <4>1. Fresh(a)
        BY <2>1, <2>5 DEF Fresh
      <4>2. Unheard(history, a)
        BY <1>i, <4>1 DEF TurnInv
      <4>3. Asked(history', a)
        BY <1>0, <3>1, <3>2, <4>2, KeptTurn DEF IsQuestion
      <4>4. Asked(history, a)'
        BY <4>3 DEF Asked, Newest
      <4>5. Rounds(a)' = 0
        BY <2>3, <2>5
      <4> QED
        BY <2>3, <3>2, <4>4, <4>5 DEF TurnInv
    <3> QED
      BY <2>4, <3>2, <3>3, <3>4 DEF SerialInv
  <2>6. CASE ~(iteration[a] = 1 /\ message[a])
    <3>1. UNCHANGED <<history, quiet, iteration, message>>
      BY <2>1, <2>6
    <3>2. quiet => iteration[a] = 1
      BY <1>i, <2>1, <2>2 DEF AloneInv, Fresh
    <3>3. AloneInv'
      <4>1. \A b \in Agents : pc'[b] = "idle" => iteration'[b] = 0
        BY <1>i, <2>2, <3>1 DEF AloneInv
      <4> QED
        BY <2>2, <2>3, <2>6, <3>1, <3>2, <4>1 DEF AloneInv
    <3>4. PendingInv'
      BY <2>2, <2>3, <3>1 DEF PendingInv, Valid
    <3>5. TurnInv'
      <4>1. \A b \in Agents : Fresh(b)' => Unheard(history, b)'
        BY <1>i, <2>3, <3>1 DEF TurnInv, Unheard
      <4>2. message'[a] => Asked(history, a)'
        <5>1. message[a] => ~Fresh(a)
          BY <2>1, <2>6 DEF Fresh
        <5> QED
          BY <1>i, <2>2, <3>1, <5>1 DEF TurnInv, Asked, Newest
      <4>3. \A r \in 1..iteration[a] - 1 : HasRound(history, a, r)'
        BY <1>i, <2>2, <2>3, <3>1 DEF TurnInv, HasRound, Newest
      <4> QED
        BY <2>3, <4>1, <4>2, <4>3 DEF TurnInv
    <3> QED
      BY <2>4, <3>3, <3>4, <3>5 DEF SerialInv
  <2> QED
    BY <2>5, <2>6
(* The answer is saved and the agent ends. *)
<1>9. ASSUME NEW a \in Agents, SaveAnswer(a) PROVE SerialInv'
  <2>1. /\ pc[a] = "save" /\ pc' = [pc EXCEPT ![a] = "ended"]
        /\ UNCHANGED <<iteration, message, request>>
        /\ text[a] => append_message(Answer(a, iteration[a], 0))
        /\ ~text[a] => UNCHANGED <<history, quiet>>
    BY <1>9 DEF SaveAnswer, sessionVars
  <2>2. UnderWay(a)
    BY <2>1 DEF UnderWay
  <2>3. CASE text[a]
    <3>1. iteration[a] \in 1..MaxIterations /\ Valid(history)
      BY <1>0, <1>alone, <2>1, <2>2 DEF RoundInv
    <3> DEFINE m == Answer(a, iteration[a], 0)
    <3>2. m \in Message /\ m.role = "assistant" /\ m.by = a /\ m.n = 0 /\ append_message(m)
      BY <2>1, <2>3, <3>1, MessageTypes DEF Answer
    <3> HIDE DEF m
    <3>a. m.role # "system" /\ "ended" # "loop" /\ "ended" \notin {"idle", "calling"}
      BY <3>2
    <3>3. /\ Kept(history, m, history') /\ AloneInv'
          /\ \A b \in Agents : Fresh(b)' => Unheard(history, b)' /\ b # a
          /\ \A b \in Agents : UnderWay(b)' => b = a
      BY <1>0, <1>i, <2>1, <2>2, <3>2, <3>a, OthersUnheard
    <3>4. \A b \in Agents : ~UnderWay(b)' /\ pc'[b] # "tools" /\ pc'[b] # "calling"
      BY <1>0, <2>1, <3>3 DEF UnderWay
    <3>5. Valid(history')
      BY <1>0, <3>1, <3>2, <3>3, KeptPlain
    <3>6. PendingInv' /\ RequestInv' /\ TurnInv'
      BY <3>3, <3>4, <3>5 DEF PendingInv, RequestInv, TurnInv, Valid
    <3> QED
      BY <3>3, <3>6 DEF SerialInv
  <2>4. CASE ~text[a]
    BY <1>2, <2>1, <2>2, <2>4
  <2> QED
    BY <2>3, <2>4
(* The calls are saved and wait for their answers. *)
<1>10. ASSUME NEW a \in Agents, SaveCalls(a) PROVE SerialInv'
  <2> DEFINE m == Answer(a, iteration[a], calls[a])
  <2>1. /\ pc[a] = "save" /\ pc' = [pc EXCEPT ![a] = "tools"] /\ pc'[a] = "tools"
        /\ UNCHANGED <<iteration, message, request, calls>>
        /\ append_message(m) /\ next'[a] = 1 /\ calls[a] > 0
    BY <1>0, <1>10 DEF SaveCalls, SessionInv, TypeOK
  <2>2. calls[a] \in Nat
    <3>1. calls[a] \in ToolCounts \cup {0}
      BY <1>0 DEF TypeOK
    <3>2. \A k \in ToolCounts \cup {0} : k \in Nat
      BY SessionAssumption
    <3> QED
      BY <3>1, <3>2
  <2>3. UnderWay(a)
    BY <2>1 DEF UnderWay
  <2>4. iteration[a] \in 1..MaxIterations /\ Valid(history)
    BY <1>0, <1>alone, <2>1, <2>3 DEF RoundInv
  <2>5. /\ m \in Message /\ m.role = "assistant" /\ m.by = a /\ m.round = iteration[a]
        /\ m.n = calls[a] /\ m.n >= 1
    BY <2>1, <2>2, <2>4, MessageTypes DEF Answer
  <2>6. m = Answer(a, iteration[a], calls[a])'
    BY <2>1 DEF Answer
  <2> HIDE DEF m
  <2>7. /\ Kept(history, m, history') /\ AloneInv'
        /\ \A b \in Agents : Fresh(b)' => Unheard(history, b)' /\ b # a
        /\ \A b \in Agents : UnderWay(b)' => b = a
        /\ \A b \in Agents : pc'[b] = "tools" => b = a
    BY <1>0, <1>i, <2>1, <2>3, <2>5, OthersUnheard
  <2>8. PendingInv'
    <3>1. Pending(history', m, 1)
      BY <1>0, <2>4, <2>5, <2>7, KeptCalls
    <3>2. Pending(history, Answer(a, iteration[a], calls[a]), next[a])'
      BY <2>1, <2>6, <3>1 DEF Pending, Ordered, Answer
    <3>3. next'[a] \in 1..calls'[a]
      BY <2>1, <2>2
    <3> QED
      BY <2>1, <2>7, <3>2, <3>3 DEF PendingInv
  <2>9. TurnInv'
    <3>1. ~Fresh(a) /\ Rounds(a) = iteration[a] - 1 /\ Rounds(a)' = iteration[a]
      BY <2>1 DEF Fresh, Rounds
    <3>2. message[a] => Asked(history', a)
      <4>1. message[a] => Asked(history, a)
        BY <1>i, <2>3, <3>1 DEF TurnInv
      <4> QED
        BY <1>0, <2>5, <2>7, <4>1, KeptTurn
    <3>3. \A r \in 1..iteration[a] : HasRound(history', a, r)
      <4>1. \A r \in 1..iteration[a] - 1 : HasRound(history, a, r)
        BY <1>i, <2>3, <3>1 DEF TurnInv
      <4>2. IsRound(m, a, iteration[a])
        BY <2>5 DEF IsRound
      <4>3. \A r \in 1..iteration[a] : r = iteration[a] \/ r \in 1..iteration[a] - 1
        BY <2>4
      <4>4. m.role # "system" /\ m.role # "user"
        BY <2>5
      <4>5. \A r : HasRound(history, a, r) => HasRound(history', a, r)
        BY <1>0, <2>5, <2>7, <4>4, KeptTurn
      <4>6. HasRound(history', a, iteration[a])
        BY <1>0, <2>5, <2>7, <4>2, <4>4, KeptTurn
      <4> QED
        BY <4>1, <4>3, <4>5, <4>6
    <3>4. message'[a] => Asked(history, a)'
      BY <2>1, <3>2 DEF Asked, Newest
    <3>5. \A r \in 1..iteration[a] : HasRound(history, a, r)'
      BY <3>3 DEF HasRound, Newest
    <3> QED
      BY <2>7, <3>1, <3>4, <3>5 DEF TurnInv
  <2>10. RequestInv'
    BY <2>1, <2>7 DEF RequestInv, UnderWay
  <2> QED
    BY <2>7, <2>8, <2>9, <2>10 DEF SerialInv
(* The answer of a tool is saved, the last one ends the round. *)
<1>11. ASSUME NEW a \in Agents, SaveTool(a) PROVE SerialInv'
  <2> DEFINE m == Answer(a, iteration[a], calls[a])
             t == Tool(a, iteration[a], next[a])
  <2>1. PICK p : /\ pc[a] = "tools" /\ pc' = [pc EXCEPT ![a] = p] /\ pc'[a] = p
                 /\ UNCHANGED <<iteration, message, request>>
                 /\ append_message(t)
                 /\ next[a] < calls[a] => p = "tools" /\ next'[a] = next[a] + 1 /\ calls' = calls
                 /\ ~(next[a] < calls[a]) => p \in {"ended", "loop"}
    <3>1. next \in [Agents -> Nat]
      BY <1>0 DEF TypeOK
    <3> QED
      BY <1>0, <1>11, <3>1 DEF SaveTool
  <2>2. UnderWay(a) /\ iteration[a] \in 1..MaxIterations
    BY <1>0, <2>1 DEF UnderWay, RoundInv
  <2>3. calls[a] \in Nat /\ next[a] \in 1..calls[a] /\ Pending(history, m, next[a])
    <3>1. calls[a] \in ToolCounts \cup {0}
      BY <1>0 DEF TypeOK
    <3>2. \A k \in ToolCounts \cup {0} : k \in Nat
      BY SessionAssumption
    <3>3. calls[a] \in Nat
      BY <3>1, <3>2
    <3> QED
      BY <1>i, <2>1, <3>3 DEF PendingInv
  <2>4. /\ m \in Message /\ m.role = "assistant" /\ m.by = a /\ m.round = iteration[a] /\ m.n = calls[a]
        /\ t \in Message /\ t.role = "tool" /\ t.by = a /\ t = Tool(m.by, m.round, next[a])
    <3>1. next[a] \in Nat
      BY <2>3
    <3>2. m \in Message /\ t \in Message
      BY <2>2, <2>3, <3>1, MessageTypes
    <3> QED
      BY <3>2 DEF Answer, Tool
  <2>5. p = "loop" => iteration[a] >= 1
    BY <2>2
  <2>6. p \in {"tools", "ended", "loop"} /\ t.role # "system" /\ p \notin {"idle", "calling"}
    BY <2>1, <2>3, <2>4
  <2> HIDE DEF m, t
  <2>7. /\ Kept(history, t, history') /\ AloneInv'
        /\ \A b \in Agents : Fresh(b)' => Unheard(history, b)' /\ b # a
        /\ \A b \in Agents : UnderWay(b)' => b = a
        /\ \A b \in Agents : pc'[b] = "tools" => b = a
    BY <1>0, <1>i, <2>1, <2>2, <2>4, <2>5, <2>6, OthersUnheard
  <2>8. PendingInv'
    <3>1. /\ next[a] < m.n => Pending(history', m, next[a] + 1)
          /\ next[a] = m.n => Valid(history')
      BY <1>0, <2>3, <2>4, <2>7, KeptAnswer
    <3>2. CASE next[a] < calls[a]
      <4>1. Pending(history', m, next'[a]) /\ next'[a] \in 1..calls'[a]
        BY <2>1, <2>3, <2>4, <3>1, <3>2
      <4>2. m = Answer(a, iteration[a], calls[a])'
        BY <2>1, <3>2 DEF m, Answer
      <4>3. Pending(history, Answer(a, iteration[a], calls[a]), next[a])'
        BY <4>1, <4>2 DEF Pending, Ordered, Answer
      <4> QED
        BY <2>1, <2>7, <3>2, <4>1, <4>3 DEF PendingInv
    <3>3. CASE next[a] = calls[a]
      <4>1. Valid(history')
        BY <2>4, <3>1, <3>3
      <4>2. \A b \in Agents : pc'[b] # "tools"
        BY <2>1, <2>3, <2>7, <3>3
      <4> QED
        BY <4>1, <4>2 DEF PendingInv, Valid
    <3> QED
      BY <2>3, <3>2, <3>3
  <2>9. TurnInv'
    <3>1. ~Fresh(a) /\ Rounds(a) = iteration[a] /\ Rounds(a)' = iteration[a]
      BY <2>1, <2>6 DEF Fresh, Rounds
    <3>2. message[a] => Asked(history', a)
      <4>1. message[a] => Asked(history, a)
        BY <1>i, <2>2, <3>1 DEF TurnInv
      <4> QED
        BY <1>0, <2>4, <2>7, <4>1, KeptTurn
    <3>3. \A r \in 1..iteration[a] : HasRound(history', a, r)
      <4>1. \A r \in 1..iteration[a] : HasRound(history, a, r)
        BY <1>i, <2>2, <3>1 DEF TurnInv
      <4> QED
        BY <1>0, <2>4, <2>7, <4>1, KeptTurn
    <3>4. message'[a] => Asked(history, a)'
      BY <2>1, <3>2 DEF Asked, Newest
    <3>5. \A r \in 1..iteration[a] : HasRound(history, a, r)'
      BY <3>3 DEF HasRound, Newest
    <3> QED
      BY <2>7, <3>1, <3>4, <3>5 DEF TurnInv
  <2>10. RequestInv'
    <3>1. \A b \in Agents : pc'[b] # "calling"
      BY <2>1, <2>6, <2>7 DEF UnderWay
    <3> QED
      BY <3>1 DEF RequestInv
  <2> QED
    BY <2>7, <2>8, <2>9, <2>10 DEF SerialInv
<1>12. ASSUME UNCHANGED vars \/ \E a \in Agents : Cancel(a) PROVE SerialInv'
  <2>1. UNCHANGED <<history, quiet, pc, iteration, message, request, next, calls>>
    BY <1>12 DEF vars, sessionVars, agentVars, Cancel
  <2> QED
    BY <1>4, <2>1
<1> QED
  BY <1>1, <1>3, <1>5, <1>6, <1>7, <1>8, <1>9, <1>10, <1>11, <1>12 DEF Next, Step, Returned

LEMMA SerialInvariant == Spec => [](SessionInv /\ SerialInv)
<1>1. SessionInv /\ SerialInv /\ [Next]_vars => SerialInv'
  BY SerialStep
<1> QED
  BY <1>1, SerialInit, SessionInvariant, PTL DEF Spec

(* As long as no two agents of a session have overlapped, every history    *)
(* that CallLlm hands to the LLM pairs each tool call with its answer,     *)
(* whatever failed, was cancelled, trimmed or cleaned up before.           *)
THEOREM SerialRequestsAlwaysValid == Spec => []SerialRequestsAreValid
<1>1. SerialInv => SerialRequestsAreValid
  BY DEF SerialInv, RequestInv, SerialRequestsAreValid
<1> QED
  BY <1>1, SerialInvariant, PTL

(* ... and holds the question exactly once and every earlier round of the  *)
(* turn: no trimming in append_message takes them away meanwhile.          *)
THEOREM OwnTurnAlwaysSent == Spec => []OwnTurnIsSent
<1>1. TypeOK /\ SerialInv => OwnTurnIsSent
  <2> SUFFICES ASSUME TypeOK, SerialInv, ~shared, NEW a \in Agents, pc[a] = "calling"
               PROVE  LET mine == {i \in DOMAIN request[a] : request[a][i].by = a} IN
                      /\ message[a] => Cardinality({i \in mine : request[a][i].role = "user"}) = 1
                      /\ \A r \in 1..iteration[a] - 1 :
                           \E i \in mine : request[a][i].role = "assistant" /\ request[a][i].round = r
    BY DEF OwnTurnIsSent
  <2> DEFINE q == request[a]
             mine == {i \in DOMAIN q : q[i].by = a}
  <2>1. DOMAIN q = 1..Len(q)
    BY LenProperties DEF TypeOK
  <2>2. ASSUME message[a] PROVE Cardinality({i \in mine : q[i].role = "user"}) = 1
    <3>1. PICK i \in 1..Len(q) : \A j \in 1..Len(q) : IsQuestion(q[j], a) <=> j = i
      BY <2>2 DEF SerialInv, RequestInv
    <3>2. {j \in mine : q[j].role = "user"} = {i}
      BY <2>1, <3>1 DEF IsQuestion
    <3> QED
      BY <3>2, FS_Singleton
  <2>3. \A r \in 1..iteration[a] - 1 : \E i \in mine : q[i].role = "assistant" /\ q[i].round = r
    BY <2>1 DEF SerialInv, RequestInv, IsRound
  <2> QED
    BY <2>2, <2>3
<1> QED
  BY <1>1, SerialInvariant, PTL DEF SessionInv
=============================================================================
