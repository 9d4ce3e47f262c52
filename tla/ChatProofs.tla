----------------------------- MODULE ChatProofs -----------------------------
(***************************************************************************)
(* Theorems about ChatStream for any replies of the LLM, any timeout, any  *)
(* size of the write buffer and any number of rounds.                      *)
(***************************************************************************)
EXTENDS ChatStream, RelayProofs, AgentProofs

(* A second poll that ends after the client left would have to begin after *)
(* it: but a poll begins only behind a look at the flag, and the flag is   *)
(* never taken back.                                                       *)
CancelInv ==
  /\ canceled \in [Agents -> BOOLEAN]
  /\ late \in {0, 1}
  /\ late = 1 => canceled[A]
  /\ step = "poll" => late = 0

LEMMA CancelInvInit == ChatInit => CancelInv
BY DEF ChatInit, Init, LLMInit, HttpClientInit, CancelInv

(* The flag is set or left alone.                                          *)
LEMMA CloseKeepsFlag ==
  ASSUME CancelInv, CloseNow
  PROVE  canceled' \in [Agents -> BOOLEAN] /\ (canceled[A] => canceled'[A])
BY DEF CancelInv, CloseNow

LEMMA CancelInvStep ==
  ASSUME CancelInv, [ChatNext]_allVars
  PROVE  CancelInv'
<1> USE DEF CancelInv, callVars, postVars, parseVars
<1>1. ASSUME UNCHANGED callVars, canceled' \in [Agents -> BOOLEAN], canceled[A] => canceled'[A]
      PROVE  CancelInv'
  BY <1>1
<1>2. CASE StartChat
  BY <1>1, <1>2 DEF StartChat, Start
<1>3. CASE GiveUpChat \/ StopChat
  BY <1>1, <1>3 DEF GiveUpChat, StopChat, GiveUp, NoticeCancel
<1>4. CASE BeginChatCall
  <2>1. canceled' = canceled
    BY <1>4 DEF BeginChatCall, CallLlm
  <2>2. late' = 0 /\ step' # "poll"
    BY <1>4 DEF BeginChatCall, BeginCall, RefuseCall, PostBegin, PostRefused
  <2> QED
    BY <2>1, <2>2
<1>5. CASE CallStep
  <2>1. canceled' = canceled
    BY <1>5 DEF CallStep, vars
  <2>2. ASSUME NEW n \in 0..coming, DataArrives(n) PROVE CancelInv'
    BY <2>1, <2>2 DEF DataArrives, Perform
  <2>3. CASE OnLine \/ OnDataEnds
    BY <2>1, <2>3 DEF OnLine, OnDataEnds
  <2>4. CASE Check(Flag)
    BY <2>1, <2>4 DEF Check, Flag
  <2>5. CASE Poll(Flag)
    BY <2>1, <2>5 DEF Poll, Flag
  <2>6. CASE PostResult \/ Leftover(Flag) \/ Merge
    BY <2>1, <2>6 DEF PostResult, Leftover, Merge
  <2> QED
    BY <1>5, <2>2, <2>3, <2>4, <2>5, <2>6 DEF CallStep
<1>6. CASE CallOver
  BY <1>1, <1>6 DEF CallOver, CallCanceled, CallFailed, CallSucceeds, Returns
<1>7. CASE FinishChat \/ SaveChatCalls \/ RunTool
  BY <1>1, <1>7 DEF FinishChat, SaveChatCalls, RunTool, SaveAnswer, SaveCalls, SaveTool
<1>8. CASE Deliver
  BY <1>1, <1>8, CloseKeepsFlag DEF Deliver
<1>9. CASE HandleWrite \/ ClientLeaves \/ IdleClose
  BY <1>1, <1>9, CloseKeepsFlag DEF HandleWrite, ClientLeaves, IdleClose
<1>10. CASE UNCHANGED allVars
  BY <1>1, <1>10 DEF allVars, vars
<1> QED
  BY <1>2, <1>3, <1>4, <1>5, <1>6, <1>7, <1>8, <1>9, <1>10 DEF ChatNext, Worker, Reactor

(* A client that leaves while its agent waits for the LLM frees the worker *)
(* within one poll of the transfer loop, whatever the LLM does.            *)
THEOREM CancelFreesWorker == ChatSpec => []CancelIsPrompt
<1>1. CancelInv => CancelIsPrompt
  BY DEF CancelInv, CancelIsPrompt
<1> QED
  BY <1>1, CancelInvInit, CancelInvStep, PTL DEF ChatSpec
----------------------------------------------------------------------------
(* What the agent says.                                                    *)

Spoken == Chunk \cup ({"tool_result"} \X (Tools \cup {"not found"})) \cup {Error, Done}
Wire   == Spoken \cup {Header, End}

NoDone(s)      == \A i \in 1..Len(s) : s[i] # Done
DoneIsLast(s)  == \A i \in 1..Len(s) : s[i] = Done => i = Len(s)
Finished       == said # <<>> /\ Last(said) = Done

(* done is said once and last, by an agent that ends with it; and behind   *)
(* it, unless an error was reported, stands the whole answer to the last   *)
(* call.  For that the chunks of the running call have to be the last said *)
(* as long as it runs, and until what it brought is saved.                 *)
SaidInv ==
  /\ pc \in [Agents -> PCs] /\ said \in Seq(Spoken)
  /\ pc[A] # "ended" => NoDone(said)
  /\ DoneIsLast(said)
  /\ pc[A] \in {"calling", "save"} => step # "none" /\ IsSuffix(told, said)
  /\ pc[A] = "save" => success
  /\ pc[A] = "ended" /\ Finished /\ (\A i \in 1..Len(said) : said[i] # Error) =>
       success /\ IsSuffix(told \o <<Done>>, said)

LEMMA SpokenIs ==
  /\ Error \in Spoken /\ Done \in Spoken /\ Chunk \subseteq Spoken /\ Spoken \subseteq Wire
  /\ Header \in Wire /\ End \in Wire /\ End \notin Spoken /\ Header # End /\ Error # Done
  /\ Done \notin Chunk /\ \A c : ToolAnswer(c) \in Spoken /\ ToolAnswer(c) # Done
<1>2. Error \in Spoken /\ Done \in Spoken /\ Chunk \subseteq Spoken /\ Spoken \subseteq Wire
  BY DEF Spoken, Wire
<1>3. Header \in Wire /\ End \in Wire /\ End \notin Spoken /\ Header # End /\ Error # Done
  BY DEF Header, End, Wire, Spoken, Chunk, Error, Done
<1>4. Done \notin Chunk
  BY DEF Done, Chunk
<1>5. ASSUME NEW c PROVE ToolAnswer(c) \in Spoken /\ ToolAnswer(c) # Done
  <2>1. execute(c.name) \in Tools \cup {"not found"}
    BY DEF execute
  <2> QED
    BY <2>1 DEF ToolAnswer, Spoken, Done
<1> QED
  BY <1>2, <1>3, <1>4, <1>5

LEMMA SaidGrows ==
  ASSUME NEW s \in Seq(Spoken), NEW cs \in Seq(Spoken), NoDone(s)
  PROVE  /\ s \o cs \in Seq(Spoken)
         /\ NoDone(cs) => NoDone(s \o cs)
         /\ DoneIsLast(cs) => DoneIsLast(s \o cs)
<1>1. /\ s \o cs \in Seq(Spoken) /\ Len(s \o cs) = Len(s) + Len(cs)
      /\ \A i \in 1..Len(s) + Len(cs) : (s \o cs)[i] = IF i <= Len(s) THEN s[i] ELSE cs[i - Len(s)]
      /\ Len(s) \in Nat /\ Len(cs) \in Nat
  BY ConcatProperties, LenProperties
<1>2. ASSUME NEW i \in 1..Len(s \o cs), (s \o cs)[i] = Done
      PROVE  \E j \in 1..Len(cs) : cs[j] = Done /\ i = Len(s) + j
  <2>1. ~(i <= Len(s))
    <3>1. SUFFICES ASSUME i <= Len(s) PROVE FALSE
      OBVIOUS
    <3>2. i \in 1..Len(s) /\ i \in 1..Len(s) + Len(cs)
      BY <1>1, <3>1
    <3> QED
      BY <1>1, <1>2, <3>1, <3>2 DEF NoDone
  <2>2. i - Len(s) \in 1..Len(cs) /\ i \in 1..Len(s) + Len(cs) /\ i = Len(s) + (i - Len(s))
    BY <1>1, <2>1
  <2>3. cs[i - Len(s)] = Done
    BY <1>1, <1>2, <2>1, <2>2
  <2> QED
    BY <2>2, <2>3
<1>3. NoDone(cs) => NoDone(s \o cs)
  BY <1>2 DEF NoDone
<1>4. DoneIsLast(cs) => DoneIsLast(s \o cs)
  <2>1. SUFFICES ASSUME DoneIsLast(cs), NEW i \in 1..Len(s \o cs), (s \o cs)[i] = Done
                 PROVE  i = Len(s \o cs)
    BY DEF DoneIsLast
  <2>2. PICK j \in 1..Len(cs) : cs[j] = Done /\ i = Len(s) + j
    BY <1>2, <2>1
  <2>3. j = Len(cs)
    BY <2>1, <2>2 DEF DoneIsLast
  <2> QED
    BY <1>1, <2>2, <2>3
<1> QED
  BY <1>1, <1>3, <1>4

(* The chunks that end a stream.                                           *)
LEMMA Terminals ==
  /\ Terminal(TRUE) \in Seq(Spoken) /\ DoneIsLast(Terminal(TRUE))
  /\ Terminal(FALSE) \in Seq(Spoken) /\ DoneIsLast(Terminal(FALSE))
  /\ Len(Terminal(TRUE)) = 2 /\ Terminal(TRUE)[1] = Error /\ Terminal(FALSE) = <<Done>>
<1>1. <<Done>> \in Seq(Spoken) /\ <<Error, Done>> \in Seq(Spoken)
  BY SpokenIs
<1>2. DoneIsLast(<<Done>>)
  BY DEF DoneIsLast
<1>3. DoneIsLast(<<Error, Done>>)
  <2>1. Len(<<Error, Done>>) = 2 /\ <<Error, Done>>[1] = Error /\ \A i \in 1..2 : i = 1 \/ i = 2
    OBVIOUS
  <2> QED
    BY <2>1, SpokenIs DEF DoneIsLast
<1>4. Terminal(TRUE) = <<Error, Done>> /\ Terminal(FALSE) = <<Done>>
  BY DEF Terminal
<1>5. Len(<<Error, Done>>) = 2 /\ <<Error, Done>>[1] = Error
  OBVIOUS
<1> QED
  BY <1>1, <1>2, <1>3, <1>4, <1>5

(* What a line emits is what told grows by.                                *)
LEMMA LineEmits ==
  ASSUME told \in Seq(Chunk), told' \in Seq(Chunk), NEW line, process_sse_line(line)
  PROVE  /\ SubSeq(told', Len(told) + 1, Len(told')) \in Seq(Chunk)
         /\ told' = told \o SubSeq(told', Len(told) + 1, Len(told'))
<1>1. IsPrefix(told, told')
  <2>1. CASE IsWhole(line)
    <3> DEFINE l == reply.lines[line[1][1]]
               T == Chunk \cup {<<"content", l.content>>, <<"reasoning", l.reasoning>>}
    <3>1. told' = told \o Chunks(l)
      BY <2>1 DEF process_sse_line
    <3>2. told \in Seq(T)
      <4>1. Chunk \subseteq T
        OBVIOUS
      <4> QED
        BY <4>1, SeqMonotonic
    <3>3. Chunks(l) \in Seq(T)
      <4>1. <<"content", l.content>> \in T /\ <<"reasoning", l.reasoning>> \in T
        OBVIOUS
      <4> HIDE DEF T
      <4>2. <<>> \in Seq(T) /\ \A x \in T : <<x>> \in Seq(T)
        BY EmptySeq
      <4>3. (IF l.content = "" THEN <<>> ELSE <<<<"content", l.content>>>>) \in Seq(T)
        BY <4>1, <4>2
      <4>4. (IF l.reasoning = "" THEN <<>> ELSE <<<<"reasoning", l.reasoning>>>>) \in Seq(T)
        BY <4>1, <4>2
      <4> QED
        BY <4>3, <4>4, ConcatProperties DEF Chunks
    <3> HIDE DEF l, T
    <3> QED
      BY <3>1, <3>2, <3>3, PrefixOfConcat
  <2>2. CASE ~IsWhole(line)
    <3>1. told' = told
      BY <2>2 DEF process_sse_line
    <3>2. Len(told) \in Nat
      BY LenProperties
    <3> QED
      BY <3>1, <3>2 DEF IsPrefix
  <2> QED
    BY <2>1, <2>2
<1> QED
  BY <1>1, RestOfPrefix

LEMMA ChunksSpoken ==
  ASSUME NEW cs \in Seq(Chunk)
  PROVE  cs \in Seq(Spoken) /\ NoDone(cs)
<1>1. cs \in Seq(Spoken)
  BY SpokenIs, SeqMonotonic
<1>2. \A i \in 1..Len(cs) : cs[i] \in Chunk
  BY ElementOfSeq
<1> QED
  BY <1>1, <1>2, SpokenIs DEF NoDone

(* What is added to the end of both stays the end.                         *)
LEMMA SuffixGrows ==
  ASSUME NEW T, NEW s \in Seq(T), NEW t \in Seq(T), NEW cs \in Seq(T), IsSuffix(t, s)
  PROVE  IsSuffix(t \o cs, s \o cs)
<1>1. PICK x \in Seq(T) : s = x \o t
  BY SuffixIs
<1>2. s \o cs = x \o (t \o cs)
  BY <1>1, ConcatAssociative
<1>3. t \o cs \in Seq(T)
  BY ConcatProperties
<1> QED
  BY <1>2, <1>3, SuffixOfConcat

----------------------------------------------------------------------------
LEMMA SaidInit == ChatInit => SaidInv
<1> SUFFICES ASSUME ChatInit PROVE SaidInv
  OBVIOUS
<1>1. said = <<>> /\ pc = [a \in Agents |-> "idle"]
  BY DEF ChatInit, Init
<1>2. pc \in [Agents -> PCs] /\ pc[A] = "idle"
  BY <1>1, ChatAssumption DEF PCs
<1>3. said \in Seq(Spoken) /\ Len(said) = 0
  BY <1>1, EmptySeq
<1> QED
  BY <1>2, <1>3 DEF SaidInv, NoDone, DoneIsLast

(* An agent that does not end with done goes on, or goes silently.         *)
LEMMA SaidQuiet ==
  ASSUME SaidInv, pc[A] # "ended", said' = said,
         pc' \in [Agents -> PCs], pc'[A] \notin {"calling", "save"}
  PROVE  SaidInv'
<1>1. NoDone(said) /\ said \in Seq(Spoken)
  BY DEF SaidInv
<1>2. ~Finished
  <2>1. SUFFICES ASSUME said # <<>>, said[Len(said)] = Done PROVE FALSE
    BY DEF Finished, Last
  <2>2. Len(said) \in 1..Len(said)
    BY <1>1, <2>1, EmptySeq
  <2> QED
    BY <1>1, <2>1, <2>2 DEF NoDone
<1>3. ~Finished'
  BY <1>2 DEF Finished
<1>4. NoDone(said') /\ DoneIsLast(said') /\ said' \in Seq(Spoken)
  BY <1>1 DEF SaidInv
<1> QED
  BY <1>3, <1>4 DEF SaidInv

(* An agent ends with an error.                                            *)
LEMMA SaidError ==
  ASSUME SaidInv, pc[A] # "ended", Emits(Terminal(TRUE)),
         pc' \in [Agents -> PCs], pc'[A] = "ended"
  PROVE  SaidInv'
<1>1. said' = said \o Terminal(TRUE) /\ NoDone(said) /\ said \in Seq(Spoken)
  BY DEF Emits, SaidInv
<1>2. said' \in Seq(Spoken) /\ DoneIsLast(said')
  BY <1>1, Terminals, SaidGrows
<1>3. \E i \in 1..Len(said') : said'[i] = Error
  <2>1. PICK n \in Nat : n = Len(said)
    BY <1>1, LenProperties
  <2>2. /\ Len(said') = n + 2
        /\ \A i \in 1..n + 2 : said'[i] = IF i <= n THEN said[i] ELSE Terminal(TRUE)[i - n]
    <3>1. /\ Len(said \o Terminal(TRUE)) = Len(said) + Len(Terminal(TRUE))
          /\ \A i \in 1..Len(said) + Len(Terminal(TRUE)) :
               (said \o Terminal(TRUE))[i] = IF i <= Len(said) THEN said[i] ELSE Terminal(TRUE)[i - Len(said)]
      BY <1>1, Terminals, ConcatProperties
    <3> QED
      BY <1>1, <2>1, <3>1, Terminals
  <2>3. n + 1 \in 1..n + 2 /\ ~(n + 1 <= n) /\ (n + 1) - n = 1
    OBVIOUS
  <2>4. said'[n + 1] = Error
    BY <2>2, <2>3, Terminals
  <2> QED
    BY <2>2, <2>3, <2>4
<1> QED
  BY <1>2, <1>3 DEF SaidInv

(* The running call tells more.                                            *)
LEMMA SaidTold ==
  ASSUME SaidInv, pc[A] = "calling", pc' = pc, told \in Seq(Chunk), NEW cs \in Seq(Chunk),
         Emits(cs), told' = told \o cs, step' # "none"
  PROVE  SaidInv'
<1>1. /\ said' = said \o cs /\ NoDone(said) /\ said \in Seq(Spoken) /\ IsSuffix(told, said)
      /\ pc \in [Agents -> PCs]
  BY DEF Emits, SaidInv
<1>2. cs \in Seq(Spoken) /\ told \in Seq(Spoken) /\ NoDone(cs)
  BY ChunksSpoken
<1>3. said' \in Seq(Spoken) /\ NoDone(said')
  BY <1>1, <1>2, SaidGrows
<1>4. IsSuffix(told', said')
  BY <1>1, <1>2, SuffixGrows
<1>5. DoneIsLast(said')
  BY <1>3 DEF NoDone, DoneIsLast
<1> QED
  BY <1>1, <1>3, <1>4, <1>5 DEF SaidInv

(* The running call tells nothing.                                         *)
LEMMA SaidSame ==
  ASSUME SaidInv, pc[A] = "calling", pc' \in [Agents -> PCs], pc'[A] \in {"calling", "save"},
         said' = said, told' = told, step' # "none", pc'[A] = "save" => success'
  PROVE  SaidInv'
BY DEF SaidInv

LEMMA ToldType == TransferInv /\ RelayInv /\ step # "none" => told \in Seq(Chunk)
BY Relayed

LEMMA SaidLineStep ==
  ASSUME TransferInv, RelayInv, SaidInv, pc[A] = "calling", pc' = pc,
         TransferInv', RelayInv', step' # "none", NEW line, process_sse_line(line),
         Emits(SubSeq(told', Len(told) + 1, Len(told')))
  PROVE  SaidInv'
<1>1. told \in Seq(Chunk)
  BY Relayed DEF SaidInv
<1>2. told' \in Seq(Chunk)
  <2>1. (TransferInv /\ RelayInv /\ step # "none" => told \in Seq(Chunk))'
    BY ToldType, PTL
  <2> QED
    BY <2>1
<1> QED
  BY <1>1, <1>2, LineEmits, SaidTold

----------------------------------------------------------------------------
LEMMA AgentIsA == A \in Agents
BY ChatAssumption

(* The steps of a call of the LLM are LLMService's.                        *)
LEMMA RelayStep ==
  ASSUME CancelInv, TransferInv, RelayInv, [ChatNext]_allVars
  PROVE  TransferInv' /\ RelayInv'
<1>1. Flag \in BOOLEAN
  BY AgentIsA DEF Flag, CancelInv
<1>2. CASE CallStep
  <2>1. ASSUME NEW n \in 0..coming, DataArrives(n) PROVE TransferInv' /\ RelayInv'
    BY <2>1, RelayData
  <2>2. CASE OnLine
    BY <2>2, RelayLine
  <2>3. CASE OnDataEnds
    BY <2>3, RelayDataEnds
  <2>4. CASE (Check(Flag) \/ Poll(Flag) \/ PostResult) /\ UNCHANGED parseVars
    BY <1>1, <2>4, RelayPost
  <2>5. CASE Leftover(Flag)
    BY <1>1, <2>5, RelayLeftover
  <2>6. CASE Merge
    BY <2>6, RelayMerge
  <2> QED
    BY <1>2, <2>1, <2>2, <2>3, <2>4, <2>5, <2>6 DEF CallStep
<1>3. CASE BeginChatCall
  BY <1>3, RelayBegin DEF BeginChatCall
<1>4. CASE UNCHANGED callVars
  BY <1>4, RelayStutters
<1>5. CASE StartChat \/ GiveUpChat \/ StopChat
  BY <1>4, <1>5 DEF StartChat, GiveUpChat, StopChat
<1>6. CASE CallOver \/ FinishChat \/ SaveChatCalls \/ RunTool
  BY <1>4, <1>6 DEF CallOver, FinishChat, SaveChatCalls, RunTool
<1>7. CASE Deliver \/ HandleWrite
  BY <1>4, <1>7 DEF Deliver, HandleWrite
<1>8. CASE ClientLeaves \/ IdleClose
  BY <1>4, <1>8 DEF ClientLeaves, IdleClose
<1>9. CASE UNCHANGED allVars
  BY <1>4, <1>9 DEF allVars
<1> QED
  BY <1>2, <1>3, <1>5, <1>6, <1>7, <1>8, <1>9 DEF ChatNext, Worker, Reactor

LEMMA SaidStep ==
  ASSUME CancelInv, TransferInv, RelayInv, SaidInv, [ChatNext]_allVars
  PROVE  SaidInv'
<1>0. TransferInv' /\ RelayInv'
  BY RelayStep
<1> USE AgentIsA
<1>1. pc \in [Agents -> PCs] /\ \A p \in PCs : [pc EXCEPT ![A] = p] \in [Agents -> PCs] /\ [pc EXCEPT ![A] = p][A] = p
  BY DEF SaidInv
<1>2. \A p \in PCs : To(A, p) => pc' \in [Agents -> PCs] /\ pc'[A] = p
  BY <1>1 DEF To
<1>3. /\ "loop" \in PCs /\ "calling" \in PCs /\ "save" \in PCs /\ "tools" \in PCs /\ "ended" \in PCs
  BY DEF PCs
<1>4. CASE StartChat
  <2>1. pc[A] = "idle" /\ To(A, "loop") /\ said' = said
    BY <1>4 DEF StartChat, Start, chatVars
  <2>2. pc' \in [Agents -> PCs] /\ pc'[A] = "loop"
    BY <1>2, <1>3, <2>1
  <2> QED
    BY <2>1, <2>2, SaidQuiet
<1>5. CASE GiveUpChat
  <2>1. pc[A] = "loop" /\ To(A, "ended") /\ Emits(Terminal(TRUE))
    BY <1>5 DEF GiveUpChat, GiveUp
  <2>2. pc' \in [Agents -> PCs] /\ pc'[A] = "ended"
    BY <1>2, <1>3, <2>1
  <2> QED
    BY <2>1, <2>2, SaidError
<1>6. CASE StopChat
  <2>1. pc[A] = "loop" /\ To(A, "ended") /\ said' = said
    BY <1>6 DEF StopChat, NoticeCancel, chatVars
  <2>2. pc' \in [Agents -> PCs] /\ pc'[A] = "ended"
    BY <1>2, <1>3, <2>1
  <2> QED
    BY <2>1, <2>2, SaidQuiet
<1>7. CASE BeginChatCall
  <2>1. pc[A] = "loop" /\ To(A, "calling") /\ said' = said
    BY <1>7 DEF BeginChatCall, CallLlm, chatVars
  <2>2. pc' \in [Agents -> PCs] /\ pc'[A] = "calling"
    BY <1>2, <1>3, <2>1
  <2>3. told' = <<>> /\ step' # "none"
    BY <1>7 DEF BeginChatCall, BeginCall, RefuseCall, PostBegin, PostRefused, Forgotten
  <2>4. said \in Seq(Spoken) /\ NoDone(said)
    BY <2>1 DEF SaidInv
  <2>5. IsSuffix(told', said')
    <3>1. <<>> \in Seq(Spoken) /\ said \o <<>> = said
      BY <2>4, EmptySeq, ConcatEmptySeq
    <3>2. IsSuffix(<<>>, said)
      BY <2>4, <3>1, SuffixOfConcat
    <3> QED
      BY <2>1, <2>3, <3>2
  <2> QED
    BY <2>1, <2>2, <2>3, <2>4, <2>5 DEF SaidInv
<1>8. CASE CallStep
  <2>1. pc[A] = "calling" /\ pc' = pc /\ pc' \in [Agents -> PCs] /\ step # "none"
    BY <1>8 DEF CallStep, vars, agentVars, SaidInv
  <2>2. ASSUME said' = said, told' = told, step' # "none" PROVE SaidInv'
    BY <2>1, <2>2, SaidSame
  <2>3. ASSUME NEW n \in 0..coming, DataArrives(n), Silent PROVE SaidInv'
    BY <2>2, <2>3 DEF DataArrives, Perform, Silent
  <2>4. CASE OnLine /\ Emits(SubSeq(told', Len(told) + 1, Len(told')))
    <3>1. process_sse_line(SubSeq(pending_line, 1, Min(LineEndsAt) - 1)) /\ step' # "none"
      BY <2>4 DEF OnLine
    <3> QED
      BY <1>0, <2>1, <2>4, <3>1, SaidLineStep
  <2>5. CASE OnDataEnds /\ Silent
    BY <2>2, <2>5 DEF OnDataEnds, Silent, parseVars
  <2>6. CASE (Check(Flag) \/ Poll(Flag) \/ PostResult) /\ UNCHANGED parseVars /\ Silent
    BY <2>2, <2>6 DEF Check, Poll, PostResult, Silent, parseVars
  <2>7. CASE Leftover(Flag) /\ Emits(SubSeq(told', Len(told) + 1, Len(told')))
    <3>1. process_sse_line(pending_line) /\ step' # "none"
      BY <2>7 DEF Leftover
    <3> QED
      BY <1>0, <2>1, <2>7, <3>1, SaidLineStep
  <2>8. CASE Merge /\ Silent
    BY <2>2, <2>8 DEF Merge, Silent
  <2> QED
    BY <1>8, <2>3, <2>4, <2>5, <2>6, <2>7, <2>8 DEF CallStep
<1>9. CASE CallOver
  <2>1. UNCHANGED <<step, told, success>> /\ step = "over"
    BY <1>9 DEF CallOver, callVars, parseVars
  <2>2. CASE CallCanceled(A) /\ Silent
    <3>1. pc[A] = "calling" /\ To(A, "ended") /\ said' = said
      BY <2>2 DEF CallCanceled, Returns, Silent
    <3>2. pc' \in [Agents -> PCs] /\ pc'[A] = "ended"
      BY <1>2, <1>3, <3>1
    <3> QED
      BY <3>1, <3>2, SaidQuiet
  <2>3. CASE CallFailed(A) /\ Emits(Terminal(TRUE))
    <3>1. pc[A] = "calling" /\ To(A, "ended")
      BY <2>3 DEF CallFailed, Returns
    <3>2. pc' \in [Agents -> PCs] /\ pc'[A] = "ended"
      BY <1>2, <1>3, <3>1
    <3> QED
      BY <2>3, <3>1, <3>2, SaidError
  <2>4. ASSUME success, Silent,
               CallSucceeds(A, Len(tool_calls), \E i \in DOMAIN told : told[i][1] = "content")
        PROVE  SaidInv'
    <3>1. pc[A] = "calling" /\ To(A, "save") /\ said' = said
      BY <2>4 DEF CallSucceeds, Returns, Silent
    <3>2. pc' \in [Agents -> PCs] /\ pc'[A] = "save"
      BY <1>2, <1>3, <3>1
    <3> QED
      BY <2>1, <2>4, <3>1, <3>2, SaidSame
  <2> QED
    BY <1>9, <2>2, <2>3, <2>4 DEF CallOver
<1>10. CASE FinishChat
  <2>1. pc[A] = "save" /\ To(A, "ended") /\ UNCHANGED <<told, success>>
    BY <1>10 DEF FinishChat, SaveAnswer, callVars, parseVars
  <2>2. pc' \in [Agents -> PCs] /\ pc'[A] = "ended"
    BY <1>2, <1>3, <2>1
  <2>3. CASE Flag
    BY <1>10, <2>1, <2>2, <2>3, SaidQuiet DEF FinishChat, Silent
  <2>4. CASE ~Flag
    <3>1. said' = said \o <<Done>>
      BY <1>10, <2>4, Terminals DEF FinishChat, Emits
    <3>2. NoDone(said) /\ said \in Seq(Spoken) /\ success /\ IsSuffix(told, said) /\ step # "none"
      BY <2>1 DEF SaidInv
    <3>3. told \in Seq(Spoken) /\ <<Done>> \in Seq(Spoken) /\ DoneIsLast(<<Done>>)
      BY <3>2, ToldType, ChunksSpoken, Terminals
    <3>4. said' \in Seq(Spoken) /\ DoneIsLast(said')
      BY <3>1, <3>2, <3>3, SaidGrows
    <3>5. IsSuffix(told' \o <<Done>>, said')
      BY <2>1, <3>1, <3>2, <3>3, SuffixGrows
    <3> QED
      BY <2>1, <2>2, <3>2, <3>4, <3>5 DEF SaidInv
  <2> QED
    BY <2>3, <2>4
<1>11. CASE SaveChatCalls
  <2>1. pc[A] = "save" /\ To(A, "tools") /\ said' = said
    BY <1>11 DEF SaveChatCalls, SaveCalls, chatVars
  <2>2. pc' \in [Agents -> PCs] /\ pc'[A] = "tools"
    BY <1>2, <1>3, <2>1
  <2> QED
    BY <2>1, <2>2, SaidQuiet
<1>12. CASE RunTool
  <2> DEFINE answer == <<ToolAnswer(tool_calls[next[A]])>>
  <2>1. pc[A] = "tools" /\ said' = said \o answer
    BY <1>12 DEF RunTool, SaveTool, Emits
  <2>2. PICK p \in {"tools", "ended", "loop"} : To(A, p)
    BY <1>12 DEF RunTool, SaveTool
  <2>3. p \in PCs /\ pc' \in [Agents -> PCs] /\ pc'[A] = p
    BY <1>2, <1>3, <2>2
  <2>4. answer \in Seq(Spoken) /\ NoDone(answer) /\ Len(answer) = 1
    <3>1. PICK c : c = ToolAnswer(tool_calls[next[A]])
      OBVIOUS
    <3>2. c \in Spoken /\ c # Done
      BY <3>1, SpokenIs
    <3>3. <<c>> \in Seq(Spoken) /\ Len(<<c>>) = 1 /\ <<c>>[1] = c
      BY <3>2
    <3>4. \A i \in 1..1 : i = 1
      OBVIOUS
    <3> QED
      BY <3>1, <3>2, <3>3, <3>4 DEF NoDone
  <2> HIDE DEF answer
  <2>5. said \in Seq(Spoken) /\ NoDone(said)
    BY <2>1 DEF SaidInv
  <2>6. said' \in Seq(Spoken) /\ NoDone(said')
    BY <2>1, <2>4, <2>5, SaidGrows
  <2>7. ~Finished'
    <3>1. SUFFICES ASSUME said' # <<>>, said'[Len(said')] = Done PROVE FALSE
      BY DEF Finished, Last
    <3>2. Len(said') \in 1..Len(said')
      BY <2>6, <3>1, EmptySeq
    <3> QED
      BY <2>6, <3>1, <3>2 DEF NoDone
  <2>8. DoneIsLast(said')
    BY <2>6 DEF NoDone, DoneIsLast
  <2> QED
    BY <2>2, <2>3, <2>6, <2>7, <2>8 DEF SaidInv
<1>13. CASE UNCHANGED <<pc, said, step, told, success>>
  BY <1>13 DEF SaidInv, Finished
<1>14. CASE Deliver \/ HandleWrite
  BY <1>13, <1>14 DEF Deliver, HandleWrite, agentVars, callVars, parseVars
<1>15. CASE ClientLeaves \/ IdleClose
  BY <1>13, <1>15 DEF ClientLeaves, IdleClose, agentVars, callVars, parseVars
<1>16. CASE UNCHANGED allVars
  BY <1>13, <1>16 DEF allVars, vars, agentVars, chatVars, callVars, parseVars
<1> QED
  BY <1>4, <1>5, <1>6, <1>7, <1>8, <1>9, <1>10, <1>11, <1>12, <1>14, <1>15, <1>16 DEF ChatNext, Worker, Reactor

----------------------------------------------------------------------------
(* What the client gets.                                                   *)

(* What is written, buffered and queued is what was said, as long as the   *)
(* connection is open; later it is a beginning of it.                      *)
SentInv ==
  /\ completions \in Seq(Spoken) /\ write_buffer_ \in Seq(Wire) /\ view \in Seq(Wire)
  /\ conn = "open" => (view \o write_buffer_) \o completions = <<Header>> \o said
  /\ IsPrefix(view \o write_buffer_, <<Header>> \o Closed(said))

LEMMA WireSeqs ==
  /\ \A s \in Seq(Spoken) : s \in Seq(Wire)
  /\ <<Header>> \in Seq(Wire) /\ <<End>> \in Seq(Wire) /\ <<>> \in Seq(Wire) /\ <<Done>> \in Seq(Wire)
<1>1. \A s \in Seq(Spoken) : s \in Seq(Wire)
  BY SpokenIs, SeqMonotonic
<1>2. Header \in Wire /\ End \in Wire /\ Done \in Wire
  BY SpokenIs
<1> QED
  BY <1>1, <1>2, EmptySeq

LEMMA WireAssociative ==
  ASSUME NEW s \in Seq(Wire), NEW t \in Seq(Wire), NEW u \in Seq(Wire)
  PROVE  (s \o t) \o u = s \o (t \o u)
BY ConcatAssociative

LEMMA DoneEnd == <<Done, End>> = <<Done>> \o <<End>> /\ <<Done, End>> \in Seq(Wire)
<1>1. <<Done>> \in Seq(Wire) /\ End \in Wire /\ Done \in Wire
  BY WireSeqs, SpokenIs
<1>2. <<Done, End>> \in Seq(Wire) /\ Len(<<Done, End>>) = 2 /\ <<Done, End>>[1] = Done /\ <<Done, End>>[2] = End
  BY <1>1
<1>3. /\ Len(<<Done>>) = 1 /\ <<Done>>[1] = Done /\ Len(<<End>>) = 1 /\ <<End>>[1] = End
  OBVIOUS
<1>4. PICK x \in Seq(Wire), y \in Seq(Wire) : x = <<Done>> /\ y = <<End>>
  BY <1>1, WireSeqs
<1>5. /\ x \o y \in Seq(Wire) /\ Len(x \o y) = Len(x) + Len(y)
      /\ \A i \in 1..Len(x) + Len(y) : (x \o y)[i] = IF i <= Len(x) THEN x[i] ELSE y[i - Len(x)]
  BY ConcatProperties
<1>6. (x \o y)[1] = Done /\ (x \o y)[2] = End /\ Len(x \o y) = 2
  <2>1. /\ 1 \in 1..1 + 1 /\ 2 \in 1..1 + 1 /\ 1 <= 1 /\ ~(2 <= 1) /\ 2 - 1 = 1 /\ 1 + 1 = 2
    OBVIOUS
  <2> QED
    BY <1>3, <1>4, <1>5, <2>1
<1>7. \A i \in 1..2 : i = 1 \/ i = 2
  OBVIOUS
<1>8. <<Done, End>> = x \o y
  BY <1>2, <1>5, <1>6, <1>7, SeqEqual
<1> QED
  BY <1>2, <1>4, <1>8

LEMMA ClosedIs ==
  ASSUME NEW s \in Seq(Spoken)
  PROVE  /\ Closed(s) \in Seq(Wire)
         /\ NoDone(s) => Closed(s) = s
         /\ s # <<>> /\ s[Len(s)] = Done => Closed(s) = s \o <<End>>
<1>1. s \in Seq(Wire) /\ End \in Wire
  BY WireSeqs, SpokenIs
<1>2. Append(s, End) \in Seq(Wire) /\ Append(s, End) = s \o <<End>>
  BY <1>1, AppendProperties, AppendIsConcat
<1>3. NoDone(s) /\ s # <<>> => s[Len(s)] # Done
  <2>1. s # <<>> => Len(s) \in 1..Len(s)
    BY EmptySeq
  <2> QED
    BY <2>1 DEF NoDone
<1> QED
  BY <1>1, <1>2, <1>3 DEF Closed, Last

(* The stream the client is to get grows at its end.                       *)
LEMMA StreamGrows ==
  ASSUME NEW s \in Seq(Spoken), NEW cs \in Seq(Spoken), NoDone(s)
  PROVE  IsPrefix(<<Header>> \o Closed(s), <<Header>> \o Closed(s \o cs))
<1>1. s \in Seq(Wire) /\ cs \in Seq(Wire) /\ <<Header>> \in Seq(Wire) /\ <<End>> \in Seq(Wire) /\ <<>> \in Seq(Wire)
  BY WireSeqs
<1>2. s \o cs \in Seq(Spoken) /\ Closed(s) = s
  BY ConcatProperties, ClosedIs
<1>3. \E x \in {<<>>, <<End>>} : Closed(s \o cs) = (s \o cs) \o x
  <2>1. (s \o cs) \o <<>> = s \o cs
    BY <1>2, ConcatEmptySeq
  <2>2. s \o cs \in Seq(Wire) /\ End \in Wire
    BY <1>2, WireSeqs, SpokenIs
  <2>3. Append(s \o cs, End) = (s \o cs) \o <<End>>
    BY <2>2, AppendIsConcat
  <2> QED
    BY <2>1, <2>3 DEF Closed
<1>4. PICK x \in {<<>>, <<End>>} : Closed(s \o cs) = (s \o cs) \o x
  BY <1>3
<1>5. x \in Seq(Wire)
  BY <1>1, <1>4
<1>6. /\ cs \o x \in Seq(Wire) /\ <<Header>> \o s \in Seq(Wire) /\ s \o (cs \o x) \in Seq(Wire)
  BY <1>1, <1>5, ConcatProperties
<1>7. Closed(s \o cs) = s \o (cs \o x)
  BY <1>1, <1>4, <1>5, WireAssociative
<1>8. <<Header>> \o (s \o (cs \o x)) = (<<Header>> \o s) \o (cs \o x)
  <2>1. PICK y \in Seq(Wire), e \in Seq(Wire) : y = cs \o x /\ e = <<Header>>
    BY <1>1, <1>6
  <2>2. e \o (s \o y) = (e \o s) \o y
    BY <1>1, WireAssociative
  <2> QED
    BY <2>1, <2>2
<1> QED
  BY <1>2, <1>6, <1>7, <1>8, PrefixOfConcat

LEMMA SentInit == ChatInit => SentInv /\ SaidInv
<1> SUFFICES ASSUME ChatInit PROVE SentInv
  BY SaidInit
<1>1. /\ said = <<>> /\ completions = <<>>
      /\ \/ view = <<Header>> /\ write_buffer_ = <<>>
         \/ view = <<>> /\ write_buffer_ = <<Header>>
  BY DEF ChatInit
<1>2. <<Header>> \in Seq(Wire) /\ <<>> \in Seq(Wire) /\ <<>> \in Seq(Spoken)
  BY WireSeqs, EmptySeq
<1>3. <<Header>> \o <<>> = <<Header>> /\ <<>> \o <<Header>> = <<Header>>
  BY <1>2, ConcatEmptySeq
<1>4. view \o write_buffer_ = <<Header>> /\ Closed(said) = <<>>
  BY <1>1, <1>3 DEF Closed
<1>5. IsPrefix(<<Header>>, <<Header>> \o <<>>)
  BY <1>2, PrefixOfConcat
<1> QED
  BY <1>1, <1>2, <1>3, <1>4, <1>5 DEF SentInv

LEMMA SentQuiet ==
  ASSUME SentInv, UNCHANGED <<connVars, completions, said>>
  PROVE  SentInv'
BY DEF SentInv, connVars

LEMMA SentMore ==
  ASSUME SentInv, SaidInv, pc[A] # "ended", NEW cs \in Seq(Spoken), Emits(cs), UNCHANGED connVars
  PROVE  SentInv'
<1>1. /\ completions' = completions \o cs /\ said' = said \o cs
      /\ NoDone(said) /\ said \in Seq(Spoken)
      /\ completions \in Seq(Spoken) /\ write_buffer_ \in Seq(Wire) /\ view \in Seq(Wire)
      /\ conn' = conn /\ write_buffer_' = write_buffer_ /\ view' = view
  BY DEF Emits, SaidInv, SentInv, connVars
<1>2. completions' \in Seq(Spoken) /\ said' \in Seq(Spoken)
  BY <1>1, ConcatProperties
<1>3. conn' = "open" => (view' \o write_buffer_') \o completions' = <<Header>> \o said'
  <2>1. SUFFICES ASSUME conn = "open"
                 PROVE  (view \o write_buffer_) \o (completions \o cs) = <<Header>> \o (said \o cs)
    BY <1>1
  <2>2. /\ view \o write_buffer_ \in Seq(Wire) /\ completions \in Seq(Wire) /\ cs \in Seq(Wire)
        /\ said \in Seq(Wire) /\ <<Header>> \in Seq(Wire)
    BY <1>1, ConcatProperties, WireSeqs
  <2>3. (view \o write_buffer_) \o (completions \o cs) = ((view \o write_buffer_) \o completions) \o cs
    <3>1. PICK u \in Seq(Wire) : u = view \o write_buffer_
      BY <2>2
    <3>2. u \o (completions \o cs) = (u \o completions) \o cs
      BY <2>2, WireAssociative
    <3> QED
      BY <3>1, <3>2
  <2>4. <<Header>> \o (said \o cs) = (<<Header>> \o said) \o cs
    <3>1. PICK e \in Seq(Wire) : e = <<Header>>
      BY <2>2
    <3>2. e \o (said \o cs) = (e \o said) \o cs
      BY <2>2, WireAssociative
    <3> QED
      BY <3>1, <3>2
  <2> QED
    BY <2>1, <2>3, <2>4 DEF SentInv
<1>4. IsPrefix(view' \o write_buffer_', <<Header>> \o Closed(said'))
  <2>1. /\ view \o write_buffer_ \in Seq(Wire) /\ <<Header>> \o Closed(said) \in Seq(Wire)
        /\ <<Header>> \o Closed(said') \in Seq(Wire)
    BY <1>1, <1>2, ConcatProperties, ClosedIs, WireSeqs
  <2>2. IsPrefix(<<Header>> \o Closed(said), <<Header>> \o Closed(said'))
    BY <1>1, StreamGrows
  <2>3. IsPrefix(view \o write_buffer_, <<Header>> \o Closed(said))
    BY DEF SentInv
  <2> QED
    BY <1>1, <2>1, <2>2, <2>3, PrefixTransitive
<1> QED
  BY <1>1, <1>2, <1>3, <1>4 DEF SentInv

(* The connection is closed, and drops what it has buffered.               *)
LEMMA SentClose ==
  ASSUME SentInv, SaidInv, UNCHANGED <<view, said>>, CloseNow, completions' \in Seq(Spoken)
  PROVE  SentInv'
<1>1. /\ conn' = "closed" /\ write_buffer_' = <<>> /\ view' = view /\ said' = said /\ said \in Seq(Spoken)
      /\ write_buffer_ \in Seq(Wire) /\ view \in Seq(Wire)
  BY DEF CloseNow, SentInv, SaidInv
<1>2. view' \o write_buffer_' = view /\ <<>> \in Seq(Wire)
  BY <1>1, ConcatEmptySeq, WireSeqs
<1>3. /\ view \o write_buffer_ \in Seq(Wire) /\ <<Header>> \o Closed(said) \in Seq(Wire)
  BY <1>1, ConcatProperties, ClosedIs, WireSeqs
<1>4. IsPrefix(view, <<Header>> \o Closed(said))
  <2>1. IsPrefix(view, view \o write_buffer_)
    BY <1>1, PrefixOfConcat
  <2>2. IsPrefix(view \o write_buffer_, <<Header>> \o Closed(said))
    BY DEF SentInv
  <2> QED
    BY <1>1, <1>3, <2>1, <2>2, PrefixTransitive
<1> QED
  BY <1>1, <1>2, <1>4 DEF SentInv

(* What is sent and what stays buffered is together what there was.        *)
LEMMA SendSome ==
  ASSUME NEW v \in Seq(Wire), NEW all \in Seq(Wire), NEW n \in 0..Len(all)
  PROVE  /\ v \o SubSeq(all, 1, n) \in Seq(Wire) /\ SubSeq(all, n + 1, Len(all)) \in Seq(Wire)
         /\ (v \o SubSeq(all, 1, n)) \o SubSeq(all, n + 1, Len(all)) = v \o all
         /\ n = Len(all) => (v \o SubSeq(all, 1, n)) \o <<>> = v \o all
<1>1. /\ SubSeq(all, 1, n) \in Seq(Wire) /\ SubSeq(all, n + 1, Len(all)) \in Seq(Wire)
      /\ SubSeq(all, 1, n) \o SubSeq(all, n + 1, Len(all)) = all
  BY Split
<1>2. v \o SubSeq(all, 1, n) \in Seq(Wire)
  BY <1>1, ConcatProperties
<1>3. (v \o SubSeq(all, 1, n)) \o SubSeq(all, n + 1, Len(all)) = v \o all
  <2>1. PICK x \in Seq(Wire), y \in Seq(Wire) : x = SubSeq(all, 1, n) /\ y = SubSeq(all, n + 1, Len(all))
    BY <1>1
  <2>2. (v \o x) \o y = v \o (x \o y)
    BY ConcatAssociative
  <2> QED
    BY <1>1, <2>1, <2>2
<1>4. n = Len(all) => (v \o SubSeq(all, 1, n)) \o <<>> = v \o all
  <2>1. (v \o SubSeq(all, 1, n)) \o <<>> = v \o SubSeq(all, 1, n)
    BY <1>2, ConcatEmptySeq
  <2>2. SubSeq(all, 1, Len(all)) = all
    BY SubSeqFull
  <2> QED
    BY <2>1, <2>2
<1> QED
  BY <1>1, <1>2, <1>3, <1>4

(* A completion is written while the connection is open.  Only done closes *)
(* the stream: it is the last there is, so that nothing is queued behind.  *)
LEMMA SentDeliver ==
  ASSUME SentInv, SaidInv, Deliver
  PROVE  SentInv'
<1> DEFINE all == write_buffer_ \o Framed(Head(completions))
<1>1. /\ completions # <<>> /\ completions' = Tail(completions) /\ said' = said
      /\ completions \in Seq(Spoken) /\ write_buffer_ \in Seq(Wire) /\ view \in Seq(Wire) /\ said \in Seq(Spoken)
  BY DEF Deliver, SentInv, SaidInv
<1>2. PICK c \in Spoken : c = Head(completions)
  BY <1>1, HeadTailProperties
<1>3. completions' \in Seq(Spoken) /\ completions = <<c>> \o completions'
  <2>1. Tail(completions) \in Seq(Spoken) /\ Tail(completions) = SubSeq(completions, 2, Len(completions))
    BY <1>1, HeadTailProperties, TailIsSubSeq
  <2>2. 1 \in 1..Len(completions) /\ Len(completions) \in 1..Len(completions)
    BY <1>1, EmptySeq
  <2>3. SubSeq(completions, 1, Len(completions)) = <<completions[1]>> \o SubSeq(completions, 2, Len(completions))
    BY <1>1, <2>2, SubSeqRecursiveFirst
  <2>4. SubSeq(completions, 1, Len(completions)) = completions /\ Head(completions) = completions[1]
    BY <1>1, SubSeqFull
  <2> QED
    BY <1>1, <1>2, <2>1, <2>3, <2>4
<1>4. CASE conn # "open"
  <2>1. UNCHANGED connVars
    BY <1>4 DEF Deliver
  <2> QED
    BY <1>1, <1>3, <1>4, <2>1 DEF SentInv, connVars
<1>5. ASSUME conn = "open" PROVE SentInv'
  <2>1. PICK f \in Seq(Wire) : f = Framed(c)
    <3>1. c \in Wire
      BY SpokenIs
    <3>2. <<c>> \in Seq(Wire) /\ <<Done, End>> \in Seq(Wire)
      BY <3>1, SpokenIs
    <3> QED
      BY <3>2 DEF Framed
  <2>2. all \in Seq(Wire) /\ Len(all) \in Nat /\ view \o write_buffer_ \in Seq(Wire) /\ all = write_buffer_ \o f
    BY <1>1, <1>2, <2>1, ConcatProperties, LenProperties
  <2>3. view \o all = (view \o write_buffer_) \o f
    <3>1. PICK x \in Seq(Wire), y \in Seq(Wire) : x = view /\ y = write_buffer_
      BY <1>1
    <3>2. (x \o y) \o f = x \o (y \o f)
      BY <2>1, WireAssociative
    <3> QED
      BY <1>2, <2>1, <3>1, <3>2
  <2>4. /\ completions' \in Seq(Wire) /\ <<c>> \in Seq(Wire) /\ said \in Seq(Wire) /\ <<Header>> \in Seq(Wire)
        /\ <<End>> \in Seq(Wire)
    BY <1>1, <1>2, <1>3, WireSeqs, SpokenIs
  <2>5. PICK v \in Seq(Wire) : v = view \o write_buffer_
    BY <2>2
  <2>6. v \o (<<c>> \o completions') = <<Header>> \o said /\ v \o (<<c>> \o completions') = (v \o <<c>>) \o completions'
    <3>1. v \o (<<c>> \o completions') = <<Header>> \o said
      BY <1>3, <1>5, <2>5 DEF SentInv
    <3>2. v \o (<<c>> \o completions') = (v \o <<c>>) \o completions'
      <4>1. PICK x \in Seq(Wire), y \in Seq(Wire) : x = <<c>> /\ y = completions'
        BY <2>4
      <4>2. v \o (x \o y) = (v \o x) \o y
        BY WireAssociative
      <4> QED
        BY <4>1, <4>2
    <3> QED
      BY <3>1, <3>2
  (* What there is to send is a beginning of the stream.                   *)
  <2>7. CASE c # Done
    <3>1. view \o all = v \o <<c>>
      BY <2>1, <2>3, <2>5, <2>7 DEF Framed
    <3>2. IsPrefix(view \o all, <<Header>> \o Closed(said))
      <4>1. v \o <<c>> \in Seq(Wire) /\ <<Header>> \o said \in Seq(Wire) /\ <<Header>> \o Closed(said) \in Seq(Wire)
        BY <1>1, <2>4, <2>5, ConcatProperties, ClosedIs
      <4>2. IsPrefix(v \o <<c>>, <<Header>> \o said)
        <5>1. IsPrefix(v \o <<c>>, (v \o <<c>>) \o completions')
          BY <2>4, <4>1, PrefixOfConcat
        <5> QED
          BY <2>6, <5>1
      <4>3. IsPrefix(<<Header>> \o said, <<Header>> \o Closed(said))
        <5>1. CASE Closed(said) = said
          BY <4>1, <5>1, PrefixOfItself
        <5>2. CASE Closed(said) = said \o <<End>>
          <6>1. <<Header>> \o (said \o <<End>>) = (<<Header>> \o said) \o <<End>>
            BY <2>4, ConcatAssociative
          <6> QED
            BY <2>4, <4>1, <5>2, <6>1, PrefixOfConcat
        <5>3. Append(said, End) = said \o <<End>>
          BY <2>4, SpokenIs, AppendIsConcat
        <5> QED
          BY <5>1, <5>2, <5>3 DEF Closed
      <4> QED
        BY <3>1, <4>1, <4>2, <4>3, PrefixTransitive
    <3>3. CASE Len(all) > MaxWrite
      BY <1>1, <1>3, <1>5, <3>3, SentClose DEF Deliver
    <3>4. CASE ~(Len(all) > MaxWrite)
      <4>1. PICK n \in 0..Len(all) : /\ view' = view \o SubSeq(all, 1, n) /\ conn' = conn
                                     /\ write_buffer_' = SubSeq(all, n + 1, Len(all))
        <5>1. PICK n \in (IF write_buffer_ = <<>> THEN 0..Len(all) ELSE {0}) :
                /\ view' = view \o SubSeq(all, 1, n) /\ conn' = conn
                /\ write_buffer_' = SubSeq(all, n + 1, Len(all))
          BY <1>2, <1>5, <2>7, <3>4 DEF Deliver
        <5>2. n \in 0..Len(all)
          BY <2>2, <5>1
        <5> QED
          BY <5>1, <5>2
      <4> HIDE DEF all
      <4>2. view' \in Seq(Wire) /\ write_buffer_' \in Seq(Wire) /\ view' \o write_buffer_' = view \o all
        BY <1>1, <2>2, <4>1, SendSome
      <4> QED
        BY <1>1, <1>3, <2>6, <3>1, <3>2, <4>2 DEF SentInv
    <3> QED
      BY <3>3, <3>4
  <2>8. CASE c = Done
    <3>1. completions' = <<>> /\ said # <<>> /\ said[Len(said)] = Done
      <4>1. PICK p \in Nat : p = Len(v)
        BY <2>5, LenProperties
      <4>2. PICK q \in Nat : q = Len(completions')
        BY <2>4, LenProperties
      <4>3. PICK m \in Nat : m = Len(said)
        BY <2>4, LenProperties
      <4>4. PICK w \in Seq(Wire) : w = <<Header>> \o said
        BY <2>4, ConcatProperties
      <4>5. Len(w) = 1 + m /\ \A i \in 1..1 + m : w[i] = IF i <= 1 THEN Header ELSE said[i - 1]
        BY <2>4, <4>3, <4>4, ConcatProperties
      <4>6. Len(w) = (p + 1) + q /\ w[p + 1] = Done
        <5>1. PICK x \in Seq(Wire) : x = v \o <<c>>
          BY <2>4, <2>5, ConcatProperties
        <5>2. Len(x) = p + 1 /\ x[p + 1] = c
          <6>1. Len(<<c>>) = 1 /\ <<c>>[1] = c
            OBVIOUS
          <6>2. Len(x) = p + 1 /\ \A i \in 1..p + 1 : x[i] = IF i <= p THEN v[i] ELSE <<c>>[i - p]
            BY <2>4, <2>5, <4>1, <5>1, <6>1, ConcatProperties
          <6>3. p + 1 \in 1..p + 1 /\ ~(p + 1 <= p) /\ (p + 1) - p = 1
            OBVIOUS
          <6> QED
            BY <6>1, <6>2, <6>3
        <5>3. w = x \o completions'
          BY <2>6, <4>4, <5>1
        <5>4. Len(w) = (p + 1) + q /\ \A i \in 1..(p + 1) + q : w[i] = IF i <= p + 1 THEN x[i] ELSE completions'[i - (p + 1)]
          <6>1. PICK r \in Seq(Wire) : r = completions'
            BY <2>4
          <6>2. Len(x \o r) = Len(x) + Len(r) /\ \A i \in 1..Len(x) + Len(r) : (x \o r)[i] = IF i <= Len(x) THEN x[i] ELSE r[i - Len(x)]
            BY ConcatProperties
          <6> QED
            BY <4>2, <5>2, <5>3, <6>1, <6>2
        <5>5. p + 1 \in 1..(p + 1) + q /\ p + 1 <= p + 1
          OBVIOUS
        <5> QED
          BY <2>8, <5>2, <5>4, <5>5
      <4>7. p # 0
        <5>1. SUFFICES ASSUME p = 0 PROVE FALSE
          OBVIOUS
        <5>2. 1 \in 1..1 + m /\ 1 <= 1
          OBVIOUS
        <5>3. w[1] = Header /\ w[1] = Done
          BY <4>5, <4>6, <5>1, <5>2
        <5> QED
          BY <5>3 DEF Header, Done
      <4>8. p \in 1..m /\ p + 1 \in 1..1 + m /\ ~(p + 1 <= 1) /\ (p + 1) - 1 = p /\ 1 + m = (p + 1) + q
        <5>1. 1 + m = (p + 1) + q
          BY <4>5, <4>6
        <5> QED
          BY <4>7, <5>1
      <4>9. said[p] = Done
        BY <4>5, <4>6, <4>8
      <4>10. p = m
        BY <4>3, <4>8, <4>9 DEF SaidInv, DoneIsLast
      <4>11. q = 0
        BY <4>8, <4>10
      <4> QED
        BY <1>1, <2>4, <4>2, <4>3, <4>7, <4>9, <4>10, <4>11, EmptySeq
    <3>2. view \o all = <<Header>> \o Closed(said)
      <4>1. f = <<Done, End>> /\ <<Done, End>> = <<Done>> \o <<End>>
        BY <2>1, <2>8, DoneEnd DEF Framed
      <4>2. v \o (<<Done>> \o <<End>>) = (v \o <<Done>>) \o <<End>>
        BY <2>4, <2>5, WireSeqs, ConcatAssociative
      <4>3. v \o <<Done>> = <<Header>> \o said
        <5>1. <<c>> \o <<>> = <<c>>
          BY <2>4, ConcatEmptySeq
        <5> QED
          BY <2>6, <2>8, <3>1, <5>1
      <4>4. (<<Header>> \o said) \o <<End>> = <<Header>> \o (said \o <<End>>)
        BY <2>4, ConcatAssociative
      <4>5. Closed(said) = said \o <<End>>
        BY <1>1, <3>1, ClosedIs
      <4> QED
        BY <2>3, <2>5, <4>1, <4>2, <4>3, <4>4, <4>5
    <3>3. CASE Len(all) > MaxWrite
      BY <1>1, <1>3, <1>5, <3>3, SentClose DEF Deliver
    <3>4. CASE ~(Len(all) > MaxWrite)
      <4>1. PICK n \in 0..Len(all) :
              /\ view' = view \o SubSeq(all, 1, n)
              /\ IF n = Len(all) THEN conn' = "closed" /\ write_buffer_' = <<>>
                 ELSE write_buffer_' = SubSeq(all, n + 1, Len(all)) /\ conn' = "closing"
        <5>1. PICK n \in (IF write_buffer_ = <<>> THEN 0..Len(all) ELSE {0}) :
                /\ view' = view \o SubSeq(all, 1, n)
                /\ IF n = Len(all) THEN conn' = "closed" /\ write_buffer_' = <<>>
                   ELSE write_buffer_' = SubSeq(all, n + 1, Len(all)) /\ conn' = "closing"
          BY <1>2, <1>5, <2>8, <3>4 DEF Deliver, CloseNow
        <5>2. n \in 0..Len(all)
          BY <2>2, <5>1
        <5> QED
          BY <5>1, <5>2
      <4> HIDE DEF all
      <4>2. view' \in Seq(Wire) /\ write_buffer_' \in Seq(Wire) /\ view' \o write_buffer_' = view \o all
        <5>1. CASE n = Len(all)
          <6>1. write_buffer_' = <<>> /\ view' = view \o SubSeq(all, 1, n)
            BY <4>1, <5>1
          <6>2. view \o SubSeq(all, 1, n) \in Seq(Wire) /\ (view \o SubSeq(all, 1, n)) \o <<>> = view \o all
            BY <1>1, <2>2, <5>1, SendSome
          <6> QED
            BY <6>1, <6>2, WireSeqs
        <5>2. CASE n # Len(all)
          <6>1. write_buffer_' = SubSeq(all, n + 1, Len(all)) /\ view' = view \o SubSeq(all, 1, n)
            BY <4>1, <5>2
          <6>2. /\ view \o SubSeq(all, 1, n) \in Seq(Wire) /\ SubSeq(all, n + 1, Len(all)) \in Seq(Wire)
                /\ (view \o SubSeq(all, 1, n)) \o SubSeq(all, n + 1, Len(all)) = view \o all
            BY <1>1, <2>2, SendSome
          <6> QED
            BY <6>1, <6>2
        <5> QED
          BY <5>1, <5>2
      <4>3. conn' # "open"
        BY <4>1
      <4>4. IsPrefix(view \o all, <<Header>> \o Closed(said))
        <5>1. <<Header>> \o Closed(said) \in Seq(Wire)
          BY <1>1, <2>4, ClosedIs, ConcatProperties
        <5> QED
          BY <3>2, <5>1, PrefixOfItself
      <4> QED
        BY <1>1, <1>3, <4>2, <4>3, <4>4 DEF SentInv
    <3> QED
      BY <3>3, <3>4
  <2> QED
    BY <2>7, <2>8
<1> QED
  BY <1>4, <1>5

LEMMA SentWrite ==
  ASSUME SentInv, SaidInv, HandleWrite
  PROVE  SentInv'
<1>1. /\ write_buffer_ \in Seq(Wire) /\ view \in Seq(Wire) /\ completions' = completions /\ said' = said
      /\ completions \in Seq(Spoken) /\ Len(write_buffer_) \in Nat
  BY LenProperties DEF HandleWrite, SentInv
<1>2. PICK n \in 1..Len(write_buffer_) :
        /\ view' = view \o SubSeq(write_buffer_, 1, n)
        /\ IF conn = "closing" /\ n = Len(write_buffer_) THEN CloseNow
           ELSE /\ write_buffer_' = SubSeq(write_buffer_, n + 1, Len(write_buffer_))
                /\ UNCHANGED <<conn, canceled>>
  BY DEF HandleWrite
<1>3. n \in 0..Len(write_buffer_)
  BY <1>1, <1>2
<1>4. /\ view' \in Seq(Wire) /\ write_buffer_' \in Seq(Wire)
      /\ view' \o write_buffer_' = view \o write_buffer_ /\ (conn' = "open" => conn = "open")
  <2>1. CASE conn = "closing" /\ n = Len(write_buffer_)
    <3>1. write_buffer_' = <<>> /\ conn' = "closed"
      BY <1>2, <2>1 DEF CloseNow
    <3> QED
      BY <1>1, <1>2, <1>3, <2>1, <3>1, SendSome, WireSeqs
  <2>2. CASE ~(conn = "closing" /\ n = Len(write_buffer_))
    <3>1. write_buffer_' = SubSeq(write_buffer_, n + 1, Len(write_buffer_)) /\ conn' = conn
      BY <1>2, <2>2
    <3>2. view' = view \o SubSeq(write_buffer_, 1, n)
      BY <1>2
    <3> QED
      BY <1>1, <1>3, <3>1, <3>2, SendSome
  <2> QED
    BY <2>1, <2>2
<1> QED
  BY <1>1, <1>4 DEF SentInv

LEMMA SentStep ==
  ASSUME CancelInv, TransferInv, RelayInv, SaidInv, SentInv, [ChatNext]_allVars
  PROVE  SentInv'
<1>2. CASE StartChat \/ StopChat \/ BeginChatCall \/ SaveChatCalls
  BY <1>2, SentQuiet DEF StartChat, StopChat, BeginChatCall, SaveChatCalls, chatVars
<1>3. CASE GiveUpChat
  <2>1. pc[A] # "ended" /\ Emits(Terminal(TRUE)) /\ UNCHANGED connVars
    BY <1>3 DEF GiveUpChat, GiveUp
  <2> QED
    BY <2>1, SentMore, Terminals
<1>4. CASE CallStep
  <2>1. pc[A] = "calling" /\ UNCHANGED connVars /\ step # "none"
    BY <1>4 DEF CallStep, SaidInv
  <2>2. CASE Silent
    BY <2>1, <2>2, SentQuiet DEF Silent
  <2>3. ASSUME NEW line, process_sse_line(line), Emits(SubSeq(told', Len(told) + 1, Len(told'))), step' # "none"
        PROVE  SentInv'
    <3>1. told \in Seq(Chunk)
      BY <2>1, ToldType
    <3>2. told' \in Seq(Chunk)
      <4>1. (TransferInv /\ RelayInv /\ step # "none" => told \in Seq(Chunk))'
        BY ToldType, PTL
      <4> QED
        BY <2>3, <4>1, RelayStep
    <3>3. PICK cs \in Seq(Chunk) : cs = SubSeq(told', Len(told) + 1, Len(told'))
      BY <2>3, <3>1, <3>2, LineEmits
    <3>4. cs \in Seq(Spoken) /\ Emits(cs)
      BY <2>3, <3>3, ChunksSpoken
    <3> QED
      BY <2>1, <3>4, SentMore
  <2>4. CASE OnLine /\ Emits(SubSeq(told', Len(told) + 1, Len(told')))
    BY <2>3, <2>4 DEF OnLine
  <2>5. CASE Leftover(Flag) /\ Emits(SubSeq(told', Len(told) + 1, Len(told')))
    <3>1. process_sse_line(pending_line) /\ step' # "none"
      BY <2>5 DEF Leftover
    <3> QED
      BY <2>3, <2>5, <3>1
  <2> QED
    BY <1>4, <2>2, <2>4, <2>5 DEF CallStep
<1>5. CASE CallOver
  <2>1. UNCHANGED connVars
    BY <1>5 DEF CallOver
  <2>2. CASE Silent
    BY <2>1, <2>2, SentQuiet DEF Silent
  <2>3. CASE CallFailed(A) /\ Emits(Terminal(TRUE))
    <3>1. pc[A] # "ended"
      BY <2>3 DEF CallFailed, Returns
    <3> QED
      BY <2>1, <2>3, <3>1, SentMore, Terminals
  <2> QED
    BY <1>5, <2>2, <2>3 DEF CallOver
<1>6. CASE FinishChat
  <2>1. pc[A] # "ended" /\ UNCHANGED connVars
    BY <1>6 DEF FinishChat, SaveAnswer
  <2> QED
    BY <1>6, <2>1, SentMore, SentQuiet, Terminals DEF FinishChat, Silent
<1>7. CASE RunTool
  <2>1. pc[A] # "ended" /\ UNCHANGED connVars /\ Emits(<<ToolAnswer(tool_calls[next[A]])>>)
    BY <1>7 DEF RunTool, SaveTool
  <2>2. <<ToolAnswer(tool_calls[next[A]])>> \in Seq(Spoken)
    <3>1. ToolAnswer(tool_calls[next[A]]) \in Spoken
      BY SpokenIs
    <3> QED
      BY <3>1
  <2> QED
    BY <2>1, <2>2, SentMore
<1>8. CASE Deliver
  BY <1>8, SentDeliver
<1>9. CASE HandleWrite
  BY <1>9, SentWrite
<1>10. CASE ClientLeaves
  BY <1>10, SentClose DEF ClientLeaves, SentInv
<1>11. CASE IdleClose
  <2>1. UNCHANGED <<view, completions, said>>
    BY <1>11 DEF IdleClose
  <2>2. CASE write_buffer_ = <<>>
    BY <1>11, <2>1, <2>2, SentClose DEF IdleClose, SentInv
  <2>3. CASE write_buffer_ # <<>>
    <3>1. conn' = "closing" /\ write_buffer_' = write_buffer_
      BY <1>11, <2>3 DEF IdleClose
    <3> QED
      BY <2>1, <3>1 DEF SentInv
  <2> QED
    BY <2>2, <2>3
<1>12. CASE UNCHANGED allVars
  BY <1>12, SentQuiet DEF allVars, chatVars
<1> QED
  BY <1>2, <1>3, <1>4, <1>5, <1>6, <1>7, <1>8, <1>9, <1>10, <1>11, <1>12 DEF ChatNext, Worker, Reactor

----------------------------------------------------------------------------
(* The closing chunk is the last of the stream, so a client that has it    *)
(* has all of it.                                                          *)
LEMMA SentIsReply ==
  ASSUME TransferInv, RelayInv, SaidInv, SentInv
  PROVE  ClientSeesReply
<1> DEFINE stream == <<Header>> \o Closed(said)
<1>1. /\ said \in Seq(Spoken) /\ view \in Seq(Wire) /\ write_buffer_ \in Seq(Wire)
      /\ Closed(said) \in Seq(Wire) /\ <<Header>> \in Seq(Wire) /\ said \in Seq(Wire)
  BY ClosedIs, WireSeqs DEF SaidInv, SentInv
<1>2. stream \in Seq(Wire)
  BY <1>1, ConcatProperties
<1>3. IsPrefix(view, stream)
  <2>1. IsPrefix(view, view \o write_buffer_) /\ view \o write_buffer_ \in Seq(Wire)
    BY <1>1, PrefixOfConcat, ConcatProperties
  <2>2. IsPrefix(view \o write_buffer_, stream)
    BY DEF SentInv
  <2> QED
    BY <1>1, <1>2, <2>1, <2>2, PrefixTransitive
<1>4. ASSUME view # <<>>, view[Len(view)] = End
      PROVE  view = stream /\ Finished
  <2>1. PICK n \in Nat : n = Len(view) /\ n \in 1..Len(view)
    BY <1>1, <1>4, EmptySeq
  <2>2. PICK m \in Nat : m = Len(said)
    BY <1>1, LenProperties
  <2>3. n <= Len(stream) /\ stream[n] = End
    <3>1. Len(view) <= Len(stream) /\ \A i \in 1..Len(view) : view[i] = stream[i]
      <4>1. PICK w \in Seq(Wire) : w = stream
        BY <1>2
      <4>2. IsPrefix(view, w)
        BY <1>3, <4>1
      <4>3. Len(view) <= Len(w) /\ \A i \in 1..Len(view) : view[i] = w[i]
        BY <1>1, <4>2, PrefixIs
      <4> QED
        BY <4>1, <4>3
    <3> QED
      BY <1>4, <2>1, <3>1
  <2>4. \A x \in Seq(Wire) :
          /\ Len(<<Header>> \o x) = 1 + Len(x)
          /\ \A i \in 1..1 + Len(x) : (<<Header>> \o x)[i] = IF i <= 1 THEN Header ELSE x[i - 1]
    BY <1>1, ConcatProperties
  <2>5. PICK q \in Nat : q = Len(Closed(said))
    BY <1>1, LenProperties
  <2>6. Len(stream) = 1 + q /\ \A i \in 1..1 + q : stream[i] = IF i <= 1 THEN Header ELSE Closed(said)[i - 1]
    BY <1>1, <2>4, <2>5
  <2> HIDE DEF stream
  <2>7. ~(n <= 1) /\ n - 1 \in 1..q /\ Closed(said)[n - 1] = End
    <3>1. n \in 1..1 + q
      BY <2>1, <2>3, <2>6
    <3>2. ~(n <= 1)
      BY <2>3, <2>6, <3>1, SpokenIs
    <3>3. Closed(said)[n - 1] = End
      BY <2>3, <2>6, <3>1, <3>2
    <3> QED
      BY <3>1, <3>2, <3>3
  <2>8. \A i \in 1..m : said[i] # End
    BY <1>1, <2>2, ElementOfSeq, SpokenIs
  <2>9. Finished /\ Closed(said) = Append(said, End)
    <3>1. Closed(said) # said
      BY <2>2, <2>5, <2>7, <2>8
    <3> QED
      BY <3>1 DEF Closed, Finished
  <2>10. q = m + 1 /\ \A i \in 1..m : Closed(said)[i] = said[i]
    BY <1>1, <2>2, <2>5, <2>9, SpokenIs, AppendProperties
  <2>11. n - 1 = m + 1
    <3>1. n - 1 \notin 1..m
      BY <2>7, <2>8, <2>10
    <3> QED
      BY <2>7, <2>10, <3>1
  <2>12. Len(view) >= Len(stream)
    BY <2>1, <2>6, <2>10, <2>11
  <2> QED
    BY <1>1, <1>2, <1>3, <2>9, <2>12, PrefixAsLongIsEqual
<1>5. ASSUME view # <<>>, view[Len(view)] = End
      PROVE  pc[A] = "ended"
  <2>1. said # <<>> /\ said[Len(said)] = Done
    BY <1>4, <1>5 DEF Finished, Last
  <2>2. Len(said) \in 1..Len(said)
    BY <1>1, <2>1, EmptySeq
  <2> QED
    BY <2>1, <2>2 DEF SaidInv, NoDone
<1>6. ASSUME view # <<>>, view[Len(view)] = End, Error \notin ToSet(view)
      PROVE  success /\ IsSuffix(Events(reply) \o <<Done, End>>, view)
  <2>1. view = stream /\ said # <<>> /\ said[Len(said)] = Done /\ Finished
    BY <1>4, <1>6 DEF Finished, Last
  <2>2. Closed(said) = said \o <<End>>
    BY <1>1, <2>1, ClosedIs
  <2>3. \A i \in 1..Len(said) : said[i] # Error
    <3>1. SUFFICES ASSUME NEW i \in 1..Len(said), said[i] = Error PROVE FALSE
      OBVIOUS
    <3>2. PICK m \in Nat : m = Len(said)
      BY <1>1, LenProperties
    <3>3. /\ Len(Closed(said)) = m + 1
          /\ \A j \in 1..m + 1 : Closed(said)[j] = IF j <= m THEN said[j] ELSE <<End>>[j - m]
      <4>1. Len(<<End>>) = 1 /\ <<End>> \in Seq(Wire)
        BY WireSeqs
      <4>2. /\ Len(said \o <<End>>) = Len(said) + Len(<<End>>)
            /\ \A j \in 1..Len(said) + Len(<<End>>) :
                 (said \o <<End>>)[j] = IF j <= Len(said) THEN said[j] ELSE <<End>>[j - Len(said)]
        BY <1>1, <4>1, ConcatProperties
      <4> QED
        BY <2>2, <3>2, <4>1, <4>2
    <3>4. PICK w \in Seq(Wire) : w = Closed(said)
      BY <1>1
    <3>5. /\ Len(<<Header>> \o w) = 1 + Len(w)
          /\ \A j \in 1..1 + Len(w) : (<<Header>> \o w)[j] = IF j <= 1 THEN Header ELSE w[j - 1]
      <4>1. Len(<<Header>>) = 1
        OBVIOUS
      <4>2. /\ Len(<<Header>> \o w) = Len(<<Header>>) + Len(w)
            /\ \A j \in 1..Len(<<Header>>) + Len(w) :
                 (<<Header>> \o w)[j] = IF j <= Len(<<Header>>) THEN <<Header>>[j] ELSE w[j - Len(<<Header>>)]
        BY <1>1, ConcatProperties
      <4>3. \A j \in 1..1 + Len(w) : j <= 1 => j = 1
        OBVIOUS
      <4> QED
        BY <4>1, <4>2, <4>3
    <3>6. i \in Nat /\ i + 1 \in 1..1 + (m + 1) /\ ~(i + 1 <= 1) /\ (i + 1) - 1 = i /\ i \in 1..m + 1 /\ i <= m
      BY <3>1, <3>2
    <3>7. stream[i + 1] = Error
      <4>1. w[i] = Error
        BY <3>1, <3>3, <3>4, <3>6
      <4>2. Len(w) = m + 1
        BY <3>3, <3>4
      <4>3. (<<Header>> \o w)[i + 1] = w[i]
        BY <3>5, <3>6, <4>2
      <4> QED
        BY <3>4, <4>1, <4>3
    <3>8. i + 1 \in DOMAIN stream
      <4>1. DOMAIN stream = 1..Len(stream)
        BY <1>2, LenProperties
      <4>2. Len(stream) = 1 + (m + 1)
        BY <3>3, <3>4, <3>5
      <4> QED
        BY <3>6, <4>1, <4>2
    <3> QED
      BY <1>6, <2>1, <3>7, <3>8 DEF ToSet
  <2>4. success /\ IsSuffix(told \o <<Done>>, said)
    BY <1>5, <1>6, <2>1, <2>3 DEF SaidInv
  <2>5. told = Events(reply) /\ Events(reply) \in Seq(Wire)
    <3>1. Events(reply) \in Seq(Chunk)
      BY ByLineType DEF TransferInv
    <3>2. Events(reply) \in Seq(Wire)
      BY <3>1, ChunksSpoken, WireSeqs
    <3> QED
      BY <2>4, <3>2 DEF RelayInv
  <2>6. PICK e \in Seq(Wire) : e = Events(reply)
    BY <2>5
  <2>7. <<Done>> \in Seq(Wire) /\ <<End>> \in Seq(Wire) /\ <<Done, End>> = <<Done>> \o <<End>> /\ <<Done, End>> \in Seq(Wire)
    BY WireSeqs, DoneEnd
  <2>8. e \o <<Done>> \in Seq(Wire) /\ e \o <<Done, End>> \in Seq(Wire)
    BY <2>6, <2>7, ConcatProperties
  <2>9. IsSuffix((e \o <<Done>>) \o <<End>>, said \o <<End>>)
    BY <1>1, <2>4, <2>5, <2>6, <2>7, <2>8, SuffixGrows
  <2>10. (e \o <<Done>>) \o <<End>> = e \o <<Done, End>>
    <3>1. PICK d \in Seq(Wire), f \in Seq(Wire) : d = <<Done>> /\ f = <<End>>
      BY <2>7
    <3>2. (e \o d) \o f = e \o (d \o f)
      BY WireAssociative
    <3> QED
      BY <2>7, <3>1, <3>2
  <2>11. PICK x \in Seq(Wire) : said \o <<End>> = x \o (e \o <<Done, End>>)
    <3>1. said \o <<End>> \in Seq(Wire)
      BY <1>1, <2>2
    <3> QED
      BY <2>8, <2>9, <2>10, <3>1, SuffixIs
  <2>12. view = (<<Header>> \o x) \o (e \o <<Done, End>>) /\ <<Header>> \o x \in Seq(Wire)
    <3>1. PICK y \in Seq(Wire) : y = e \o <<Done, End>>
      BY <2>8
    <3>2. PICK hd \in Seq(Wire) : hd = <<Header>>
      BY <1>1, WireSeqs
    <3>3. (hd \o x) \o y = hd \o (x \o y) /\ hd \o x \in Seq(Wire)
      BY <3>1, WireAssociative, ConcatProperties
    <3> QED
      BY <2>1, <2>2, <2>11, <3>1, <3>2, <3>3
  <2>13. IsSuffix(e \o <<Done, End>>, view)
    BY <2>8, <2>12, SuffixOfConcat
  <2> QED
    BY <2>4, <2>6, <2>13
<1> QED
  BY <1>3, <1>4, <1>5, <1>6 DEF ClientSeesReply, Last

----------------------------------------------------------------------------
(* The chat is AgentLoop's: its one agent takes the steps of AgentLoop.    *)

(* A call that can succeed has an answer of the LLM; a line is pending     *)
(* only while one is read.                                                 *)
CallInv ==
  /\ waited \in 0..MaxWait
  /\ reply \in Replies \/ (step \in {"none", "over"} /\ ~success)
  /\ step \in {"none", "merge", "over"} => pending_line = <<>>

BufferInv ==
  /\ conn \in {"open", "closing", "closed"}
  /\ Len(write_buffer_) <= MaxWrite /\ (conn = "closing" => write_buffer_ # <<>>)

LEMMA CallInvInit == ChatInit => CallInv
BY ClientAssumption DEF ChatInit, LLMInit, HttpClientInit, CallInv

LEMMA CallInvStep ==
  ASSUME CallInv, [ChatNext]_allVars
  PROVE  CallInv'
<1> USE DEF CallInv, callVars, postVars, parseVars
<1>1. CASE UNCHANGED callVars
  BY <1>1
<1>2. CASE BeginChatCall
  BY <1>2, ClientAssumption
     DEF BeginChatCall, RefuseCall, BeginCall, PostRefused, PostBegin, Forgotten
<1>3. CASE CallStep
  <2>1. ASSUME NEW n \in 0..coming, DataArrives(n) PROVE CallInv'
    <3>1. /\ step = "perform" /\ step' \in {"lines", "check"} /\ reply' = reply
          /\ waited' = waited \/ (waited < MaxWait /\ waited' = waited + 1)
      BY <2>1 DEF DataArrives, Perform
    <3>2. waited' \in 0..MaxWait
      BY <3>1, ClientAssumption
    <3> QED
      BY <3>1, <3>2
  <2>2. CASE OnLine \/ OnDataEnds
    BY <2>2 DEF OnLine, OnDataEnds
  <2>3. CASE (Check(Flag) \/ Poll(Flag) \/ PostResult) /\ UNCHANGED parseVars
    BY <2>3 DEF Check, Poll, PostResult
  <2>4. CASE Leftover(Flag)
    BY <2>4 DEF Leftover
  <2>5. CASE Merge
    BY <2>5 DEF Merge
  <2> QED
    BY <1>3, <2>1, <2>2, <2>3, <2>4, <2>5 DEF CallStep
<1>4. CASE StartChat \/ GiveUpChat \/ StopChat
  BY <1>1, <1>4 DEF StartChat, GiveUpChat, StopChat
<1>5. CASE CallOver \/ FinishChat \/ SaveChatCalls \/ RunTool
  BY <1>1, <1>5 DEF CallOver, FinishChat, SaveChatCalls, RunTool
<1>6. CASE Deliver \/ HandleWrite
  BY <1>1, <1>6 DEF Deliver, HandleWrite
<1>7. CASE ClientLeaves \/ IdleClose
  BY <1>1, <1>7 DEF ClientLeaves, IdleClose
<1>8. CASE UNCHANGED allVars
  BY <1>1, <1>8 DEF allVars
<1> QED
  BY <1>2, <1>3, <1>4, <1>5, <1>6, <1>7, <1>8 DEF ChatNext, Worker, Reactor

(* A call that succeeds reports as many tool calls as the answer names.    *)
LEMMA CallsCounted ==
  ASSUME TransferInv, CallsAreWhole, CallInv, step = "over", success
  PROVE  Len(tool_calls) \in ToolCounts
<1>1. reply \in Replies /\ reply \in Reply
  BY DEF CallInv, TransferInv
<1>2. IsFiniteSet(Named(reply)) /\ Cardinality(Named(reply)) \in Nat
  <2>1. IsFiniteSet(Indexes(Fragments(reply)))
    BY <1>1, ToolsByLineType, IndexesAre
  <2>2. Named(reply) \subseteq Indexes(Fragments(reply))
    BY DEF Named
  <2> QED
    BY <2>1, <2>2, FS_Subset, FS_CardinalityType
<1>3. PICK order \in SetToSeqs(Named(reply)) :
        tool_calls = [k \in DOMAIN order |-> CallIn(Fragments(reply), order[k])]
  BY DEF CallsAreWhole
<1>4. PICK n \in Nat : n = Cardinality(Named(reply))
  BY <1>2
<1>5. DOMAIN tool_calls = 1..n
  BY <1>3, <1>4 DEF SetToSeqs
<1>6. Len(tool_calls) = n
  BY <1>3, <1>5
<1> QED
  BY <1>1, <1>4, <1>6, ToolCountAssumption

(* The flag is raised, or was; AgentLoop may do either.                    *)
LEMMA CloseCancels ==
  ASSUME CancelInv, UNCHANGED <<sessionVars, agentVars, shared>>,
         CloseNow \/ UNCHANGED canceled
  PROVE  [Next]_vars
<1>1. CASE UNCHANGED canceled
  BY <1>1 DEF vars
<1>2. CASE pc[A] # "ended" /\ canceled' = [canceled EXCEPT ![A] = TRUE]
  <2>1. CASE canceled[A]
    <3>1. canceled' = canceled
      BY <1>2, <2>1, AgentIsA DEF CancelInv
    <3> QED
      BY <1>1, <3>1
  <2>2. CASE ~canceled[A]
    <3>1. Cancel(A)
      BY <1>2, <2>2 DEF Cancel
    <3> QED
      BY <3>1, AgentIsA DEF Next
  <2> QED
    BY <2>1, <2>2
<1> QED
  BY <1>1, <1>2 DEF CloseNow

LEMMA ChatStepIsAgents ==
  ASSUME CancelInv, TransferInv, RelayInv, CallInv, [ChatNext]_allVars
  PROVE  [Next]_vars
<1> USE AgentIsA
<1>1. CASE StartChat
  BY <1>1 DEF StartChat, Next
<1>2. CASE GiveUpChat \/ StopChat \/ BeginChatCall
  BY <1>2 DEF GiveUpChat, StopChat, BeginChatCall, Next, Step
<1>3. CASE CallStep
  BY <1>3 DEF CallStep
<1>4. CASE CallOver
  <2>1. CASE CallCanceled(A) \/ CallFailed(A)
    BY <2>1 DEF Next, Step, Returned
  <2>2. ASSUME success, CallSucceeds(A, Len(tool_calls), \E i \in DOMAIN told : told[i][1] = "content")
        PROVE  Next
    <3> DEFINE content == \E i \in DOMAIN told : told[i][1] = "content"
               k == Len(tool_calls)
    <3>1. content \in BOOLEAN
      OBVIOUS
    <3>2. k \in ToolCounts
      BY <1>4, <2>2, CallsCounted DEF CallOver, RelayInv
    <3>3. CallSucceeds(A, k, content)
      BY <2>2
    <3> HIDE DEF content, k
    <3> QED
      BY <3>1, <3>2, <3>3 DEF Next, Step, Returned
  <2> QED
    BY <1>4, <2>1, <2>2 DEF CallOver
<1>5. CASE FinishChat \/ SaveChatCalls \/ RunTool
  BY <1>5 DEF FinishChat, SaveChatCalls, RunTool, Next, Step
<1>6. CASE Deliver
  <2>1. UNCHANGED <<sessionVars, agentVars, shared>> /\ (CloseNow \/ UNCHANGED canceled)
    BY <1>6 DEF Deliver
  <2> QED
    BY <2>1, CloseCancels
<1>7. CASE HandleWrite
  <2>1. UNCHANGED <<sessionVars, agentVars, shared>> /\ (CloseNow \/ UNCHANGED canceled)
    BY <1>7 DEF HandleWrite
  <2> QED
    BY <2>1, CloseCancels
<1>8. CASE ClientLeaves \/ IdleClose
  <2>1. UNCHANGED <<sessionVars, agentVars, shared>> /\ (CloseNow \/ UNCHANGED canceled)
    BY <1>8 DEF ClientLeaves, IdleClose
  <2> QED
    BY <2>1, CloseCancels
<1>9. CASE UNCHANGED allVars
  BY <1>9 DEF allVars
<1> QED
  BY <1>1, <1>2, <1>3, <1>4, <1>5, <1>6, <1>7, <1>8, <1>9 DEF ChatNext, Worker, Reactor

LEMMA BufferInvInit == ChatInit => BufferInv
<1> SUFFICES ASSUME ChatInit PROVE BufferInv
  OBVIOUS
<1>1. Len(<<>>) = 0 /\ Len(<<Header>>) = 1
  OBVIOUS
<1>2. conn = "open" /\ (write_buffer_ = <<>> \/ write_buffer_ = <<Header>>)
  BY DEF ChatInit
<1>3. Len(write_buffer_) <= MaxWrite
  <2>1. PICK m : m = MaxWrite
    OBVIOUS
  <2>2. 0 <= m /\ 1 <= m
    BY <2>1, ChatAssumption
  <2> QED
    BY <1>1, <1>2, <2>1, <2>2
<1> QED
  BY <1>2, <1>3 DEF BufferInv

(* The buffer is never above its limit, and a connection that only waits   *)
(* for it to be sent has something to send.                                *)
LEMMA BufferInvStep ==
  ASSUME BufferInv, SentInv, [ChatNext]_allVars
  PROVE  BufferInv'
<1> USE DEF BufferInv, connVars, chatVars
<1>1. CASE UNCHANGED connVars
  BY <1>1
<1>2. CASE CloseNow
  <2>1. write_buffer_' = <<>> /\ Len(<<>>) = 0 /\ conn' = "closed"
    BY <1>2 DEF CloseNow
  <2>2. Len(write_buffer_') <= MaxWrite
    BY <2>1, ChatAssumption
  <2> QED
    BY <2>1, <2>2
<1>3. ASSUME NEW all \in Seq(Wire), Len(all) <= MaxWrite, NEW n \in 0..Len(all),
             write_buffer_' = SubSeq(all, n + 1, Len(all)), conn' \in {"open", "closing", "closed"},
             conn' = "closing" => n # Len(all)
      PROVE  BufferInv'
  <2>1. Len(all) \in Nat /\ MaxWrite \in Nat
    BY LenProperties, ChatAssumption
  <2>2. Len(write_buffer_') = Len(all) - n
    BY <1>3, Split
  <2>3. Len(write_buffer_') <= MaxWrite
    BY <1>3, <2>1, <2>2
  <2>4. n # Len(all) => write_buffer_' # <<>>
    <3>1. n # Len(all) => Len(write_buffer_') > 0
      BY <2>1, <2>2
    <3>2. Len(<<>>) = 0
      OBVIOUS
    <3> QED
      BY <3>1, <3>2
  <2> QED
    BY <1>3, <2>3, <2>4
<1>4. CASE StartChat \/ StopChat \/ BeginChatCall \/ SaveChatCalls
  BY <1>1, <1>4 DEF StartChat, StopChat, BeginChatCall, SaveChatCalls
<1>5. CASE GiveUpChat \/ CallStep \/ CallOver \/ FinishChat \/ RunTool
  BY <1>1, <1>5 DEF GiveUpChat, CallStep, CallOver, FinishChat, RunTool
<1>6. CASE Deliver
  <2> DEFINE c   == Framed(Head(completions))
             all == write_buffer_ \o c
  <2>1. all \in Seq(Wire)
    <3>1. completions \in Seq(Spoken) /\ completions # <<>> /\ write_buffer_ \in Seq(Wire)
      BY <1>6 DEF Deliver, SentInv
    <3>2. Head(completions) \in Wire
      BY <3>1, HeadTailProperties, SpokenIs
    <3>3. c \in Seq(Wire)
      BY <3>2, DoneEnd DEF Framed
    <3> HIDE DEF c
    <3> QED
      BY <3>1, <3>3, ConcatProperties
  <2>2. CASE conn # "open"
    BY <1>1, <1>6, <2>2 DEF Deliver
  <2>3. CASE conn = "open" /\ Len(all) > MaxWrite
    BY <1>2, <1>6, <2>3 DEF Deliver
  <2>4. CASE conn = "open" /\ ~(Len(all) > MaxWrite)
    <3>1. PICK n \in (IF write_buffer_ = <<>> THEN 0..Len(all) ELSE {0}) :
            \/ write_buffer_' = SubSeq(all, n + 1, Len(all)) /\ UNCHANGED conn
            \/ CloseNow
            \/ n # Len(all) /\ write_buffer_' = SubSeq(all, n + 1, Len(all)) /\ conn' = "closing"
      BY <1>6, <2>4 DEF Deliver
    <3> HIDE DEF all
    <3>2. Len(all) \in Nat /\ MaxWrite \in Nat
      BY <2>1, LenProperties, ChatAssumption
    <3>3. n \in 0..Len(all) /\ Len(all) <= MaxWrite
      BY <2>4, <3>1, <3>2
    <3> QED
      BY <1>2, <1>3, <2>1, <2>4, <3>1, <3>3
  <2> QED
    BY <2>2, <2>3, <2>4
<1>7. CASE HandleWrite
  <2>1. write_buffer_ \in Seq(Wire) /\ Len(write_buffer_) \in Nat
    BY LenProperties DEF SentInv
  <2>2. PICK n \in 1..Len(write_buffer_) :
          IF conn = "closing" /\ n = Len(write_buffer_) THEN CloseNow
          ELSE write_buffer_' = SubSeq(write_buffer_, n + 1, Len(write_buffer_)) /\ UNCHANGED conn
    BY <1>7 DEF HandleWrite
  <2>3. n \in 0..Len(write_buffer_)
    BY <2>1
  <2>4. CASE conn = "closing" /\ n = Len(write_buffer_)
    BY <1>2, <2>2, <2>4
  <2>5. CASE ~(conn = "closing" /\ n = Len(write_buffer_))
    <3>1. write_buffer_' = SubSeq(write_buffer_, n + 1, Len(write_buffer_)) /\ conn' = conn
      BY <2>2, <2>5
    <3>2. conn' = "closing" => n # Len(write_buffer_)
      BY <2>5, <3>1
    <3> QED
      BY <1>3, <2>1, <2>3, <3>1, <3>2
  <2> QED
    BY <2>4, <2>5
<1>8. CASE ClientLeaves
  BY <1>2, <1>8 DEF ClientLeaves
<1>9. CASE IdleClose
  <2>1. CASE write_buffer_ = <<>>
    BY <1>2, <1>9, <2>1 DEF IdleClose
  <2>2. CASE write_buffer_ # <<>>
    BY <1>9, <2>2 DEF IdleClose
  <2> QED
    BY <2>1, <2>2
<1>10. CASE UNCHANGED allVars
  BY <1>1, <1>10 DEF allVars
<1> QED
  BY <1>4, <1>5, <1>6, <1>7, <1>8, <1>9, <1>10 DEF ChatNext, Worker, Reactor
----------------------------------------------------------------------------
ChatInv ==
  CancelInv /\ TransferInv /\ RelayInv /\ SaidInv /\ SentInv /\ CallInv /\ BufferInv

THEOREM ChatInvariant == ChatSpec => []ChatInv
<1>1. ChatInit => ChatInv
  BY CancelInvInit, RelayInit, SentInit, CallInvInit, BufferInvInit DEF ChatInit, ChatInv
<1>2. ChatInv /\ [ChatNext]_allVars => ChatInv'
  BY CancelInvStep, RelayStep, SaidStep, SentStep, CallInvStep, BufferInvStep DEF ChatInv
<1> QED
  BY <1>1, <1>2, PTL DEF ChatSpec

(* What process_sse_line has emitted is at any time a beginning of what    *)
(* the LLM said, and all of it when LLMService reports success.            *)
THEOREM ReplyAlwaysRelayed == ChatSpec => []ReplyIsRelayed
<1>1. ChatInv => ReplyIsRelayed
  <2>1. SUFFICES ASSUME ChatInv PROVE ReplyIsRelayed
    OBVIOUS
  <2>2. step = "none" => ReplyIsRelayed
    BY DEF ReplyIsRelayed
  <2> QED
    BY <2>1, <2>2, Relayed DEF ChatInv
<1> QED
  BY <1>1, ChatInvariant, PTL

(* The client gets what the agent emitted, in order and without a gap; the *)
(* chunk that closes the stream proves to it that nothing is missing.      *)
THEOREM ClientAlwaysSeesReply == ChatSpec => []ClientSeesReply
<1>1. ChatInv => ClientSeesReply
  BY SentIsReply DEF ChatInv
<1> QED
  BY <1>1, ChatInvariant, PTL
(* Every tool call of a reply that is read to its end is reported, with    *)
(* the pieces of it in order, however fragments and lines were cut.        *)
THEOREM CallsAlwaysWhole == ChatSpec => []CallsAreWhole
<1>1. ChatInv => CallsAreWhole
  BY DEF ChatInv, RelayInv
<1> QED
  BY <1>1, ChatInvariant, PTL

(* A chat is a behaviour of AgentLoop, whose call of the LLM stands for    *)
(* all the steps of LLMService: the calls return with a number of tool     *)
(* calls that AgentLoop admits, and of the reactor's closing the agent     *)
(* sees the flag alone.                                                    *)
THEOREM ChatImplementsAgentLoop == ChatSpec => Spec
<1>1. ChatInit => Init
  BY DEF ChatInit
<1>2. ChatInv /\ [ChatNext]_allVars => [Next]_vars
  BY ChatStepIsAgents DEF ChatInv
<1> QED
  BY <1>1, <1>2, ChatInvariant, PTL DEF ChatSpec, Spec

(* So what is proved of agents holds for the one that streams to a client. *)
THEOREM ChatKeepsAgentInvariants ==
  ChatSpec => []/\ TypeOK /\ NeverStartsWithTool /\ OverLimitIsOneTurn
                /\ SerialRequestsAreValid /\ OwnTurnIsSent /\ DoneIsLastAndOnce
BY ChatImplementsAgentLoop, TypeCorrect, HistoryStartsWell, OnlyOneTurnIsOver,
   SerialRequestsAlwaysValid, OwnTurnAlwaysSent, DoneOnce, PTL

LEMMA WireTypes == \A c \in Wire : c[1] \in ChunkTypes
<1>1. \A c \in Chunk : c[1] \in ChunkTypes
  BY DEF Chunk, ChunkTypes
<1>2. \A c \in {"tool_result"} \X (Tools \cup {"not found"}) : c[1] \in ChunkTypes
  BY DEF ChunkTypes
<1>3. \A c \in {Header, Error, Done, End} : c[1] \in ChunkTypes
  BY DEF Header, Error, Done, End, ChunkTypes
<1> QED
  BY <1>1, <1>2, <1>3 DEF Wire, Spoken

(* No line end is left behind by on_data: half a line is two tokens.       *)
LEMMA NoLineEndLeft ==
  ASSUME TransferInv, RelayInv, CallInv, step # "lines"
  PROVE  LineEndsAt = {}
<1>1. CASE step \in {"none", "merge", "over"}
  <2>1. pending_line = <<>> /\ DOMAIN <<>> = {}
    BY <1>1 DEF CallInv
  <2> QED
    BY <2>1 DEF LineEndsAt
<1>2. CASE step \notin {"none", "merge", "over"}
  <2>1. step \in {"perform", "check", "poll", "result", "leftover"}
    BY <1>2 DEF TransferInv, Steps
  <2>2. PICK k \in Nat : LinesTaken(k)
    BY <2>1 DEF RelayInv
  <2>3. /\ pending_line \in Seq(Token) /\ Len(pending_line) <= 2
        /\ \A i \in 1..Len(pending_line) : pending_line[i] = TokenAt(3 * k + i)
    BY <2>1, <2>2 DEF LinesTaken
  <2>4. SUFFICES ASSUME NEW i \in DOMAIN pending_line PROVE pending_line[i][2] # "LF"
    BY DEF LineEndsAt
  <2>5. i \in 1..Len(pending_line) /\ (i = 1 \/ i = 2)
    BY <2>3, LenProperties
  <2>6. pending_line[i] = <<k + 1, "first">> \/ pending_line[i] = <<k + 1, "second">>
    BY <2>3, <2>5, Tokens
  <2> QED
    BY <2>6
<1> QED
  BY <1>1, <1>2

(* Every variable of the chat keeps its type, from the transfer to the     *)
(* buffer of the connection, which is never filled above its limit.        *)
THEOREM ChatTypeCorrect == ChatSpec => []ChatTypeOK
<1>1. ChatInv /\ TypeOK => ChatTypeOK
  <2> SUFFICES ASSUME ChatInv, TypeOK PROVE ChatTypeOK
    OBVIOUS
  <2>1. step \in Steps /\ coming \in 0..Size(reply) /\ waited \in 0..MaxWait
    BY DEF ChatInv, TransferInv, CallInv
  <2>2. {running, failed, aborted, ok, success} \subseteq BOOLEAN
    BY DEF ChatInv, TransferInv
  <2>3. step # "lines" => LineEndsAt = {}
    BY NoLineEndLeft DEF ChatInv
  <2>4. /\ conn \in {"open", "closing", "closed"}
        /\ Len(write_buffer_) <= MaxWrite /\ (conn = "closing" => write_buffer_ # <<>>)
    BY DEF ChatInv, BufferInv
  <2>5. \A c \in ToSet(completions \o write_buffer_ \o view \o said) : c[1] \in ChunkTypes
    <3>1. completions \in Seq(Wire) /\ said \in Seq(Wire) /\ write_buffer_ \in Seq(Wire) /\ view \in Seq(Wire)
      BY WireSeqs DEF ChatInv, SaidInv, SentInv
    <3> DEFINE all == completions \o write_buffer_ \o view \o said
    <3>2. all \in Seq(Wire)
      BY <3>1, ConcatProperties
    <3> HIDE DEF all
    <3>3. \A i \in DOMAIN all : all[i] \in Wire
      BY <3>2, LenProperties, ElementOfSeq
    <3>4. \A c \in ToSet(all) : c[1] \in ChunkTypes
      BY <3>3, WireTypes DEF ToSet
    <3> QED
      BY <3>4 DEF all
  <2> QED
    BY <2>1, <2>2, <2>3, <2>4, <2>5 DEF ChatTypeOK
<1>2. ChatSpec => []TypeOK
  BY ChatImplementsAgentLoop, TypeCorrect, PTL
<1> QED
  BY <1>1, <1>2, ChatInvariant, PTL
=============================================================================
