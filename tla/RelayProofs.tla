---------------------------- MODULE RelayProofs ----------------------------
(***************************************************************************)
(* One call of LLMService, for any reply: however the network cuts the     *)
(* response, what is told is the lines of it, each once and in order.  The *)
(* lemmas are about the steps of a call; ChatProofs uses them for the chat.*)
(***************************************************************************)
EXTENDS LLMService, SequenceLemmas, FiniteSetTheorems

Reply  == [code : Nat, lines : Seq(Lines), lastEnds : BOOLEAN]
Chunk  == {"content", "reasoning"} \X STRING
Token  == Nat \X {"first", "second", "LF"}

(* The chunks line by line, so that Events(r) is FlattenSeq(ByLine(r)).    *)
ByLine(r) == [i \in DOMAIN r.lines |-> Chunks(r.lines[i])]

(* What the fragments of the tool calls are put together to.               *)
Frag == [index : Int, id : STRING, name : STRING, args : STRING]

ByFragment(fs, index, field) ==
  [k \in DOMAIN fs |-> IF fs[k].index = index THEN Given(fs[k], field) ELSE <<>>]

(* acc holds what the fragments fs say of each index, and of no other.     *)
IsGathered(acc, fs) ==
  /\ DOMAIN acc = Indexes(fs)
  /\ \A i \in Int : CallIn(fs, i) = IF i \in DOMAIN acc THEN acc[i] ELSE NoCall

(* k lines of the reply are told and their tool calls gathered, and what   *)
(* else has come of it is pending.                                         *)
ToolsByLine(r) == [i \in DOMAIN r.lines |-> r.lines[i].tools]
Gathered(k)    == IsGathered(tool_call_acc, Run(ToolsByLine(reply))[k])

LinesTaken(k) ==
  /\ k \in 0..Len(reply.lines) /\ 3 * k <= Delivered
  /\ told = Run(ByLine(reply))[k] /\ Gathered(k)
  /\ pending_line \in Seq(Token) /\ Len(pending_line) = Delivered - 3 * k
  /\ \A i \in 1..Len(pending_line) : pending_line[i] = TokenAt(3 * k + i)
  /\ step # "lines" => Len(pending_line) <= 2

(* A transfer that is over with neither a failure nor an abort has brought *)
(* the whole reply.                                                        *)
TransferInv ==
  /\ reply \in Reply /\ coming \in 0..Size(reply) /\ step \in Steps
  /\ running \in BOOLEAN /\ failed \in BOOLEAN /\ aborted \in BOOLEAN
  /\ ok \in BOOLEAN /\ success \in BOOLEAN
  /\ ~running => failed \/ coming = 0
  /\ step = "result" => aborted \/ failed \/ coming = 0
  /\ step = "leftover" /\ ok => coming = 0

RelayInv ==
  /\ step \in {"perform", "lines", "check", "poll", "result", "leftover"} =>
       ~success /\ \E k \in Nat : LinesTaken(k)
  /\ step \in {"merge", "over"} => told \in Seq(Chunk) /\ IsPrefix(told, Events(reply))
  /\ success => told = Events(reply)
  /\ step = "merge" /\ success => IsGathered(tool_call_acc, Fragments(reply))
  /\ CallsAreWhole

LEMMA Tokens ==
  ASSUME NEW k \in Nat
  PROVE  /\ TokenAt(3 * k + 1) = <<k + 1, "first">>
         /\ TokenAt(3 * k + 2) = <<k + 1, "second">>
         /\ TokenAt(3 * k + 3) = <<k + 1, "LF">>
<1>1. /\ (3 * k + 1 + 2) \div 3 = k + 1 /\ (3 * k + 1 + 2) % 3 = 0
      /\ (3 * k + 2 + 2) \div 3 = k + 1 /\ (3 * k + 2 + 2) % 3 = 1
      /\ (3 * k + 3 + 2) \div 3 = k + 1 /\ (3 * k + 3 + 2) % 3 = 2
  OBVIOUS
<1>2. 0 + 1 = 1 /\ 1 + 1 = 2 /\ 2 + 1 = 3
  OBVIOUS
<1> QED
  BY <1>1, <1>2 DEF TokenAt, LineTokens

LEMMA TokenType ==
  ASSUME NEW n \in Nat \ {0}
  PROVE  TokenAt(n) \in Token
<1>1. (n + 2) \div 3 \in Nat /\ (n + 2) % 3 \in 0..2
  OBVIOUS
<1>2. PICK i \in Nat : i = (n + 2) \div 3
  BY <1>1
<1>3. PICK j \in 1..3 : j = ((n + 2) % 3) + 1
  BY <1>1
<1>4. TokenAt(n) = LineTokens(i)[j]
  BY <1>2, <1>3 DEF TokenAt
<1>5. j = 1 \/ j = 2 \/ j = 3
  BY <1>3
<1>6. <<i, "first">> \in Token /\ <<i, "second">> \in Token /\ <<i, "LF">> \in Token
  BY DEF Token
<1>7. TokenAt(n) \in {<<i, "first">>, <<i, "second">>, <<i, "LF">>}
  <2>1. CASE j = 1
    BY <1>4, <2>1 DEF LineTokens
  <2>2. CASE j = 2
    BY <1>4, <2>2 DEF LineTokens
  <2>3. CASE j = 3
    BY <1>4, <2>3 DEF LineTokens
  <2> QED
    BY <1>5, <2>1, <2>2, <2>3
<1> QED
  BY <1>6, <1>7

LEMMA ChunksType ==
  ASSUME NEW l \in Lines
  PROVE  Chunks(l) \in Seq(Chunk)
<1> DEFINE c == IF l.content = "" THEN <<>> ELSE <<<<"content", l.content>>>>
           r == IF l.reasoning = "" THEN <<>> ELSE <<<<"reasoning", l.reasoning>>>>
<1>1. <<"content", l.content>> \in Chunk /\ <<"reasoning", l.reasoning>> \in Chunk
  BY DEF Lines, Chunk
<1>2. c \in Seq(Chunk) /\ r \in Seq(Chunk)
  <2>1. \A x \in Chunk : <<x>> \in Seq(Chunk)
    OBVIOUS
  <2>2. <<>> \in Seq(Chunk)
    BY EmptySeq
  <2>3. c \in Seq(Chunk)
    BY <1>1, <2>1, <2>2
  <2>4. r \in Seq(Chunk)
    BY <1>1, <2>1, <2>2
  <2> QED
    BY <2>3, <2>4
<1>3. c \o r \in Seq(Chunk)
  BY <1>2, ConcatProperties
<1> QED
  BY <1>3 DEF Chunks

LEMMA ReplySize ==
  ASSUME NEW r \in Reply
  PROVE  /\ Len(r.lines) \in Nat /\ DOMAIN r.lines = 1..Len(r.lines) /\ Size(r) \in Nat
         /\ Size(r) <= 3 * Len(r.lines) /\ 3 * Len(r.lines) <= Size(r) + 1
<1>1. r.lines \in Seq(Lines)
  BY DEF Reply
<1>2. Len(r.lines) \in Nat /\ DOMAIN r.lines = 1..Len(r.lines)
  BY <1>1, LenProperties
<1>3. r.lines # <<>> => Len(r.lines) > 0
  BY <1>1, EmptySeq
<1>4. PICK n \in Nat : n = Len(r.lines)
  BY <1>2
<1>5. Size(r) = 3 * n - (IF r.lines = <<>> \/ r.lastEnds THEN 0 ELSE 1)
  BY <1>4 DEF Size
<1>6. CASE r.lines = <<>> \/ r.lastEnds
  <2>1. Size(r) = 3 * n
    BY <1>5, <1>6
  <2> QED
    BY <1>2, <1>4, <2>1
<1>7. CASE ~(r.lines = <<>> \/ r.lastEnds)
  <2>1. Size(r) = 3 * n - 1 /\ n > 0
    BY <1>3, <1>4, <1>5, <1>7
  <2> QED
    BY <1>2, <1>4, <2>1
<1> QED
  BY <1>6, <1>7

LEMMA ByLineType ==
  ASSUME NEW r \in Reply
  PROVE  /\ ByLine(r) \in Seq(Seq(Chunk)) /\ Len(ByLine(r)) = Len(r.lines)
         /\ \A i \in 1..Len(r.lines) : ByLine(r)[i] = Chunks(r.lines[i])
         /\ Events(r) = FlattenSeq(ByLine(r)) /\ Events(r) \in Seq(Chunk)
<1>1. r.lines \in Seq(Lines)
  BY DEF Reply
<1>2. PICK n \in Nat : n = Len(r.lines) /\ DOMAIN r.lines = 1..n
  BY <1>1, LenProperties
<1>3. \A i \in 1..n : Chunks(r.lines[i]) \in Seq(Chunk)
  BY <1>1, <1>2, ElementOfSeq, ChunksType
<1>4. ByLine(r) \in [1..n -> Seq(Chunk)]
  BY <1>2, <1>3 DEF ByLine
<1>5. ByLine(r) \in Seq(Seq(Chunk)) /\ Len(ByLine(r)) = n
  <2>1. ByLine(r) \in Seq(Seq(Chunk))
    BY <1>4, SeqDef
  <2>2. DOMAIN ByLine(r) = 1..n /\ DOMAIN ByLine(r) = 1..Len(ByLine(r)) /\ Len(ByLine(r)) \in Nat
    BY <1>4, <2>1, LenProperties
  <2> QED
    BY <2>1, <2>2
<1>6. \A i \in 1..n : ByLine(r)[i] = Chunks(r.lines[i])
  BY <1>2 DEF ByLine
<1>7. Events(r) = FlattenSeq(ByLine(r))
  BY DEF Events, ByLine
<1> QED
  BY <1>2, <1>5, <1>6, <1>7, FlattenType

(* A whole line is told in its turn.                                       *)
LEMMA LineTold ==
  ASSUME NEW r \in Reply, NEW k \in Nat, k + 1 <= Len(r.lines)
  PROVE  Run(ByLine(r))[k + 1] = Run(ByLine(r))[k] \o Chunks(r.lines[k + 1])
<1>1. k + 1 \in 1..Len(r.lines) /\ (k + 1) - 1 = k
  BY ReplySize
<1>2. PICK m : m = k + 1
  OBVIOUS
<1>3. Run(ByLine(r))[m] = Run(ByLine(r))[m - 1] \o ByLine(r)[m] /\ ByLine(r)[m] = Chunks(r.lines[m])
  BY <1>1, <1>2, ByLineType, RunIsSequence
<1> QED
  BY <1>1, <1>2, <1>3

LEMMA GivenType ==
  ASSUME NEW f \in Frag, NEW field \in {"id", "name", "args"}
  PROVE  Given(f, field) \in Seq(STRING)
<1>1. \A T : \A x \in T : <<x>> \in Seq(T)
  OBVIOUS
<1>2. f[field] \in STRING
  BY DEF Frag
<1>3. <<>> \in Seq(STRING) /\ <<f[field]>> \in Seq(STRING)
  BY <1>1, <1>2, EmptySeq
<1> QED
  BY <1>3 DEF Given

LEMMA ByFragmentType ==
  ASSUME NEW fs \in Seq(Frag), NEW index, NEW field \in {"id", "name", "args"}
  PROVE  /\ ByFragment(fs, index, field) \in Seq(Seq(STRING))
         /\ Len(ByFragment(fs, index, field)) = Len(fs)
         /\ Pieces(fs, index, field) = FlattenSeq(ByFragment(fs, index, field))
         /\ Pieces(fs, index, field) \in Seq(STRING)
<1>1. PICK n \in Nat : n = Len(fs) /\ DOMAIN fs = 1..n
  BY LenProperties
<1>2. ASSUME NEW k \in 1..n
      PROVE  (IF fs[k].index = index THEN Given(fs[k], field) ELSE <<>>) \in Seq(STRING)
  <2>1. fs[k] \in Frag
    BY <1>1, ElementOfSeq
  <2>2. Given(fs[k], field) \in Seq(STRING) /\ <<>> \in Seq(STRING)
    BY <2>1, GivenType, EmptySeq
  <2> QED
    BY <2>2
<1>3. ByFragment(fs, index, field) \in [1..n -> Seq(STRING)]
  BY <1>1, <1>2 DEF ByFragment
<1>4. ByFragment(fs, index, field) \in Seq(Seq(STRING)) /\ Len(ByFragment(fs, index, field)) = n
  <2> DEFINE b == ByFragment(fs, index, field)
  <2>1. b \in Seq(Seq(STRING)) /\ DOMAIN b = 1..n
    BY <1>3, SeqDef
  <2> HIDE DEF b
  <2>2. DOMAIN b = 1..Len(b) /\ Len(b) \in Nat
    BY <2>1, LenProperties
  <2>3. Len(b) = n
    BY <2>1, <2>2
  <2> QED
    BY <2>1, <2>3 DEF b
<1>5. Pieces(fs, index, field) = FlattenSeq(ByFragment(fs, index, field))
  BY DEF Pieces, ByFragment
<1> QED
  BY <1>1, <1>4, <1>5, FlattenType

LEMMA PiecesMore ==
  ASSUME NEW fs \in Seq(Frag), NEW f \in Frag, NEW index, NEW field \in {"id", "name", "args"}
  PROVE  Pieces(Append(fs, f), index, field) =
           Pieces(fs, index, field) \o (IF f.index = index THEN Given(f, field) ELSE <<>>)
<1> DEFINE more == Append(fs, f)
           last == IF f.index = index THEN Given(f, field) ELSE <<>>
           was  == ByFragment(fs, index, field)
           is   == ByFragment(more, index, field)
<1>1. PICK n \in Nat : n = Len(fs) /\ DOMAIN fs = 1..n
  BY LenProperties
<1>2. /\ more \in Seq(Frag) /\ Len(more) = n + 1 /\ more[n + 1] = f /\ DOMAIN more = 1..n + 1
      /\ \A k \in 1..n : more[k] = fs[k]
  <2>1. /\ more \in Seq(Frag) /\ Len(more) = n + 1 /\ more[n + 1] = f
        /\ \A k \in 1..n : more[k] = fs[k]
    BY <1>1, AppendProperties
  <2>2. DOMAIN more = 1..Len(more)
    BY <2>1, LenProperties
  <2> QED
    BY <2>1, <2>2
<1>3. last \in Seq(STRING)
  <2>1. Given(f, field) \in Seq(STRING) /\ <<>> \in Seq(STRING)
    BY GivenType, EmptySeq
  <2> QED
    BY <2>1
<1> HIDE DEF more
<1>4. was \in Seq(Seq(STRING)) /\ Len(was) = n /\ is \in Seq(Seq(STRING)) /\ Len(is) = n + 1
  BY <1>1, <1>2, ByFragmentType
<1>5. (\A k \in 1..n : is[k] = was[k]) /\ is[n + 1] = last
  <2>1. \A k \in 1..n : is[k] = was[k]
    BY <1>1, <1>2 DEF ByFragment
  <2>2. n + 1 \in DOMAIN more
    BY <1>2
  <2>3. is[n + 1] = last
    BY <1>2, <2>2 DEF ByFragment
  <2> QED
    BY <2>1, <2>3
<1> HIDE DEF was, is, last
<1>6. is = Append(was, last)
  <2>1. /\ Append(was, last) \in Seq(Seq(STRING)) /\ Len(Append(was, last)) = n + 1
        /\ (\A k \in 1..n : Append(was, last)[k] = was[k]) /\ Append(was, last)[n + 1] = last
    BY <1>3, <1>4, AppendProperties
  <2>2. \A k \in 1..n + 1 : is[k] = Append(was, last)[k]
    <3>1. \A k \in 1..n + 1 : k \in 1..n \/ k = n + 1
      OBVIOUS
    <3> QED
      BY <1>5, <2>1, <3>1
  <2> QED
    BY <1>4, <2>1, <2>2, SeqEqual
<1>7. FlattenSeq(is) = FlattenSeq(was) \o last
  BY <1>3, <1>4, <1>6, FlattenAppend
<1>8. Pieces(more, index, field) = FlattenSeq(is) /\ Pieces(fs, index, field) = FlattenSeq(was)
  BY DEF Pieces, ByFragment, is, was
<1> QED
  BY <1>7, <1>8 DEF more, last

(* One fragment more changes one call: as Fragment does.                   *)
LEMMA CallMore ==
  ASSUME NEW fs \in Seq(Frag), NEW f \in Frag, NEW i
  PROVE  LET old == CallIn(fs, i) IN
         CallIn(Append(fs, f), i) =
           IF i # f.index THEN old
           ELSE [id |-> IF f.id = NoId THEN old.id ELSE f.id,
                 name |-> old.name \o Piece(f.name), arguments |-> old.arguments \o Piece(f.args)]
<1> DEFINE more == Append(fs, f)
           was(field) == Pieces(fs, i, field)
           is(field)  == Pieces(more, i, field)
<1>1. \A field \in {"id", "name", "args"} :
        /\ was(field) \in Seq(STRING)
        /\ is(field) = was(field) \o (IF f.index = i THEN Given(f, field) ELSE <<>>)
  BY ByFragmentType, PiecesMore
<1>2. /\ CallIn(fs, i) = [id |-> IF was("id") = <<>> THEN "" ELSE Last(was("id")),
                          name |-> was("name"), arguments |-> was("args")]
      /\ CallIn(more, i) = [id |-> IF is("id") = <<>> THEN "" ELSE Last(is("id")),
                            name |-> is("name"), arguments |-> is("args")]
  BY DEF CallIn
<1>3. f["id"] = f.id /\ f["name"] = f.name /\ f["args"] = f.args /\ f.id \in STRING
  BY DEF Frag
<1>a. was("id") \in Seq(STRING) /\ was("name") \in Seq(STRING) /\ was("args") \in Seq(STRING)
  BY <1>1
<1>c. /\ Given(f, "id") = (IF f.id = NoId THEN <<>> ELSE <<f.id>>)
      /\ Given(f, "name") = Piece(f.name) /\ Given(f, "args") = Piece(f.args)
  BY DEF Given, Piece
<1>b. /\ is("id") = was("id") \o (IF f.index = i THEN Given(f, "id") ELSE <<>>)
      /\ is("name") = was("name") \o (IF f.index = i THEN Piece(f.name) ELSE <<>>)
      /\ is("args") = was("args") \o (IF f.index = i THEN Piece(f.args) ELSE <<>>)
  BY <1>1, <1>c
<1> HIDE DEF more, was, is
<1>4. CASE i # f.index
  <2>1. is("id") = was("id") /\ is("name") = was("name") /\ is("args") = was("args")
    BY <1>a, <1>b, <1>4, ConcatEmptySeq
  <2> QED
    BY <1>2, <1>4, <2>1 DEF more
<1>5. CASE i = f.index
  <2>1. is("name") = was("name") \o Piece(f.name) /\ is("args") = was("args") \o Piece(f.args)
    BY <1>b, <1>5
  <2>2. (IF is("id") = <<>> THEN "" ELSE Last(is("id")))
          = IF f.id = NoId THEN (IF was("id") = <<>> THEN "" ELSE Last(was("id"))) ELSE f.id
    <3>1. CASE f.id = NoId
      <4>1. is("id") = was("id")
        BY <1>a, <1>b, <1>c, <1>5, <3>1, ConcatEmptySeq
      <4> QED
        BY <3>1, <4>1
    <3>2. CASE f.id # NoId
      <4>1. is("id") = was("id") \o <<f.id>>
        BY <1>b, <1>c, <1>5, <3>2
      <4>2. is("id") = Append(was("id"), f.id)
        BY <1>a, <1>3, <4>1, AppendIsConcat
      <4>3. is("id") # <<>> /\ Last(is("id")) = f.id
        <5>1. /\ Append(was("id"), f.id) # <<>> /\ Len(Append(was("id"), f.id)) = Len(was("id")) + 1
              /\ Append(was("id"), f.id)[Len(was("id")) + 1] = f.id
          BY <1>a, <1>3, AppendProperties
        <5> QED
          BY <4>2, <5>1 DEF Last
      <4> QED
        BY <3>2, <4>3
    <3> QED
      BY <3>1, <3>2
  <2>3. PICK old : old = CallIn(fs, i)
    OBVIOUS
  <2>4. /\ old.id = (IF was("id") = <<>> THEN "" ELSE Last(was("id")))
        /\ old.name = was("name") /\ old.arguments = was("args")
    <3>1. PICK a, b, c : /\ a = (IF was("id") = <<>> THEN "" ELSE Last(was("id")))
                         /\ b = was("name") /\ c = was("args")
      OBVIOUS
    <3>2. old = [id |-> a, name |-> b, arguments |-> c]
      BY <1>2, <2>3, <3>1
    <3>3. old.id = a /\ old.name = b /\ old.arguments = c
      BY <3>2
    <3> QED
      BY <3>1, <3>3
  <2>5. CallIn(more, i) = [id |-> IF f.id = NoId THEN old.id ELSE f.id,
                           name |-> old.name \o Piece(f.name),
                           arguments |-> old.arguments \o Piece(f.args)]
    BY <1>2, <2>1, <2>2, <2>4
  <2> QED
    BY <1>5, <2>3, <2>5 DEF more
<1> QED
  BY <1>4, <1>5

LEMMA IndexesMore ==
  ASSUME NEW fs \in Seq(Frag), NEW f \in Frag
  PROVE  Indexes(Append(fs, f)) = Indexes(fs) \cup {f.index}
<1> DEFINE more == Append(fs, f)
<1>1. PICK n \in Nat : n = Len(fs) /\ DOMAIN fs = 1..n
  BY LenProperties
<1>2. /\ DOMAIN more = 1..n + 1 /\ more[n + 1] = f /\ \A k \in 1..n : more[k] = fs[k]
  <2>1. /\ more \in Seq(Frag) /\ Len(more) = n + 1 /\ more[n + 1] = f
        /\ \A k \in 1..n : more[k] = fs[k]
    BY <1>1, AppendProperties
  <2>2. DOMAIN more = 1..Len(more)
    BY <2>1, LenProperties
  <2> QED
    BY <2>1, <2>2
<1> HIDE DEF more
<1>3. 1..n + 1 = 1..n \cup {n + 1}
  OBVIOUS
<1>4. Indexes(more) = Indexes(fs) \cup {f.index}
  BY <1>1, <1>2, <1>3 DEF Indexes
<1> QED
  BY <1>4 DEF more

LEMMA IndexesAre ==
  ASSUME NEW fs \in Seq(Frag)
  PROVE  Indexes(fs) \subseteq Int /\ IsFiniteSet(Indexes(fs))
<1>1. PICK n \in Nat : n = Len(fs) /\ DOMAIN fs = 1..n
  BY LenProperties
<1>2. \A k \in 1..n : fs[k] \in Frag
  BY <1>1, ElementOfSeq
<1>3. \A k \in 1..n : fs[k].index \in Int
  BY <1>2 DEF Frag
<1>4. Indexes(fs) = {fs[k].index : k \in 1..n}
  BY <1>1 DEF Indexes
<1>5. IsFiniteSet(1..n)
  BY FS_Interval
<1>6. IsFiniteSet({fs[k].index : k \in 1..n})
  <2> DEFINE S == 1..n
             T == {fs[k].index : k \in S}
             f == [k \in S |-> fs[k].index]
  <2>1. f \in Surjection(S, T)
    BY DEF Surjection
  <2> HIDE DEF S, T, f
  <2>2. IsFiniteSet(T)
    BY <1>5, <2>1, FS_Surjection DEF S
  <2> QED
    BY <2>2 DEF S, T
<1> QED
  BY <1>3, <1>4, <1>6

LEMMA NothingGathered == IsGathered(<<>>, <<>>) /\ <<>> \in Seq(Frag)
<1>1. DOMAIN <<>> = {} /\ <<>> \in Seq(Frag)
  BY EmptySeq
<1>2. ASSUME NEW i, NEW field PROVE Pieces(<<>>, i, field) = <<>>
  <2>1. [k \in {} |-> IF <<>>[k].index = i THEN Given(<<>>[k], field) ELSE <<>>] = <<>>
    OBVIOUS
  <2>2. FlattenSeq(<<>>) = <<>>
    BY DEF FlattenSeq
  <2> QED
    BY <1>1, <2>1, <2>2 DEF Pieces
<1>3. \A i \in Int : CallIn(<<>>, i) = NoCall
  BY <1>2 DEF CallIn, NoCall
<1> QED
  BY <1>1, <1>3 DEF IsGathered, Indexes

LEMMA FragmentGathered ==
  ASSUME NEW fs \in Seq(Frag), NEW f \in Frag, NEW acc, IsGathered(acc, fs)
  PROVE  IsGathered(Fragment(acc, f), Append(fs, f))
<1> DEFINE new == Fragment(acc, f)
           old == IF f.index \in DOMAIN acc THEN acc[f.index] ELSE NoCall
<1>0. f.index \in Int
  BY DEF Frag
<1>1. DOMAIN new = Indexes(Append(fs, f)) /\ DOMAIN new = DOMAIN acc \cup {f.index}
  BY IndexesMore DEF Fragment, IsGathered
<1>2. /\ new[f.index] = [id |-> IF f.id = NoId THEN old.id ELSE f.id,
                         name |-> old.name \o Piece(f.name), arguments |-> old.arguments \o Piece(f.args)]
      /\ \A i \in DOMAIN acc \ {f.index} : new[i] = acc[i]
  BY DEF Fragment
<1>3. CallIn(fs, f.index) = old
  BY <1>0 DEF IsGathered
<1> HIDE DEF new, old
<1>4. ASSUME NEW i \in Int
      PROVE  CallIn(Append(fs, f), i) = IF i \in DOMAIN new THEN new[i] ELSE NoCall
  <2>1. CASE i = f.index
    BY <1>1, <1>2, <1>3, <2>1, CallMore
  <2>2. CASE i # f.index
    <3>1. CallIn(Append(fs, f), i) = CallIn(fs, i)
      BY <2>2, CallMore
    <3> QED
      BY <1>1, <1>2, <2>2, <3>1 DEF IsGathered
  <2> QED
    BY <2>1, <2>2
<1> QED
  BY <1>1, <1>4 DEF IsGathered, new

Gathers(g, acc, fs, m) == g = [n \in 0..m |-> IF n = 0 THEN acc ELSE Fragment(g[n - 1], fs[n])]

LEMMA GatherExists ==
  ASSUME NEW acc, NEW fs, Len(fs) \in Nat
  PROVE  \E g : Gathers(g, acc, fs, Len(fs))
<1> DEFINE P == {m \in Nat : \E g : Gathers(g, acc, fs, m)}
<1>1. 0 \in P
  <2>1. Gathers([n \in 0..0 |-> acc], acc, fs, 0)
    BY DEF Gathers
  <2> QED
    BY <2>1
<1>2. ASSUME NEW m \in Nat, m \in P PROVE m + 1 \in P
  <2>1. PICK g : Gathers(g, acc, fs, m)
    BY <1>2
  <2> DEFINE h == [n \in 0..m + 1 |-> IF n = m + 1 THEN Fragment(g[m], fs[m + 1]) ELSE g[n]]
  <2>2. \A n \in 0..m : g[n] = IF n = 0 THEN acc ELSE Fragment(g[n - 1], fs[n])
    BY <2>1 DEF Gathers
  <2>3. ASSUME NEW n \in 0..m + 1
        PROVE  h[n] = IF n = 0 THEN acc ELSE Fragment(h[n - 1], fs[n])
    <3>1. CASE n = m + 1
      <4>1. n # 0 /\ n - 1 = m /\ m \in 0..m + 1 /\ m # m + 1
        BY <3>1
      <4>2. h[n] = Fragment(g[m], fs[m + 1]) /\ h[m] = g[m]
        BY <3>1, <4>1
      <4> HIDE DEF h
      <4> QED
        BY <3>1, <4>1, <4>2
    <3>2. CASE n # m + 1
      <4>1. n \in 0..m /\ (n # 0 => n - 1 \in 0..m + 1 /\ n - 1 # m + 1)
        BY <3>2
      <4>2. h[n] = g[n] /\ (n # 0 => h[n - 1] = g[n - 1])
        BY <3>2, <4>1
      <4> HIDE DEF h
      <4> QED
        BY <2>2, <4>1, <4>2
    <3> QED
      BY <3>1, <3>2
  <2>4. h = [n \in 0..m + 1 |-> h[n]]
    OBVIOUS
  <2> HIDE DEF h
  <2>5. Gathers(h, acc, fs, m + 1)
    BY <2>3, <2>4 DEF Gathers
  <2> QED
    BY <2>5
<1> HIDE DEF P
<1>3. \A m \in Nat : m \in P
  BY <1>1, <1>2, Induction
<1> QED
  BY <1>3 DEF P

(* The fragments of a line are put to those of the lines before it.        *)
LEMMA LineGathered ==
  ASSUME NEW acc, NEW fs \in Seq(Frag), NEW gs \in Seq(Frag), IsGathered(acc, fs)
  PROVE  IsGathered(Gather(acc, gs), fs \o gs)
<1>0. Len(gs) \in Nat /\ \A i \in 1..Len(gs) : gs[i] \in Frag
  BY LenProperties, ElementOfSeq
<1> DEFINE g == CHOOSE f : Gathers(f, acc, gs, Len(gs))
           pre(n) == fs \o SubSeq(gs, 1, n)
           P == {n \in Nat : n <= Len(gs) => IsGathered(g[n], pre(n))}
<1>1. Gathers(g, acc, gs, Len(gs))
  BY <1>0, GatherExists
<1>2. Gather(acc, gs) = g[Len(gs)]
  BY DEF Gather, Gathers
<1> HIDE DEF g
<1>3. \A n \in 0..Len(gs) : g[n] = IF n = 0 THEN acc ELSE Fragment(g[n - 1], gs[n])
  BY <1>1 DEF Gathers
<1>4. 0 \in P
  <2>1. SubSeq(gs, 1, 0) = <<>> /\ fs \o <<>> = fs
    BY SubSeqEmpty, ConcatEmptySeq
  <2>2. g[0] = acc
    BY <1>0, <1>3
  <2> QED
    BY <2>1, <2>2
<1>5. ASSUME NEW n \in Nat, n \in P PROVE n + 1 \in P
  <2>1. SUFFICES ASSUME n + 1 <= Len(gs) PROVE IsGathered(g[n + 1], pre(n + 1))
    OBVIOUS
  <2>2. PICK m : m = n + 1
    OBVIOUS
  <2>3. m \in 1..Len(gs) /\ m \in 0..Len(gs) /\ m # 0 /\ m - 1 = n /\ n \in 0..Len(gs) /\ n <= Len(gs)
    BY <1>0, <2>1, <2>2
  <2>4. g[m] = Fragment(g[n], gs[m]) /\ gs[m] \in Frag
    BY <1>0, <1>3, <2>3
  <2>5. SubSeq(gs, 1, n) \in Seq(Frag) /\ SubSeq(gs, 1, m) = Append(SubSeq(gs, 1, n), gs[m])
    <3>1. SubSeq(gs, 1, n) \in Seq(Frag)
      BY <2>3, Split
    <3>2. 1 \in 1..Len(gs) /\ m \in 1..Len(gs)
      BY <1>0, <2>3
    <3>3. SubSeq(gs, 1, m) = SubSeq(gs, 1, m - 1) \o <<gs[m]>>
      BY <3>2, SubSeqRecursiveSecond
    <3>4. Append(SubSeq(gs, 1, n), gs[m]) = SubSeq(gs, 1, n) \o <<gs[m]>>
      BY <2>4, <3>1, AppendIsConcat
    <3> QED
      BY <2>3, <3>1, <3>3, <3>4
  <2>6. pre(n) \in Seq(Frag) /\ pre(m) = Append(pre(n), gs[m])
    <3> DEFINE s == SubSeq(gs, 1, n)
    <3>1. s \in Seq(Frag) /\ <<gs[m]>> \in Seq(Frag)
      BY <2>4, <2>5
    <3>2. SubSeq(gs, 1, m) = s \o <<gs[m]>>
      BY <2>4, <2>5, AppendIsConcat
    <3> HIDE DEF s
    <3>3. fs \o (s \o <<gs[m]>>) = (fs \o s) \o <<gs[m]>> /\ fs \o s \in Seq(Frag)
      BY <3>1, ConcatAssociative, ConcatProperties
    <3>4. (fs \o s) \o <<gs[m]>> = Append(fs \o s, gs[m])
      BY <2>4, <3>3, AppendIsConcat
    <3> QED
      BY <3>2, <3>3, <3>4 DEF s
  <2>7. IsGathered(g[n], pre(n))
    BY <1>5, <2>3
  <2> HIDE DEF pre
  <2>8. IsGathered(Fragment(g[n], gs[m]), Append(pre(n), gs[m]))
    BY <2>4, <2>6, <2>7, FragmentGathered
  <2> QED
    BY <2>2, <2>4, <2>6, <2>8
<1>6. \A n \in Nat : n \in P
  <2> HIDE DEF P
  <2> QED
    BY <1>4, <1>5, Induction
<1>7. IsGathered(g[Len(gs)], pre(Len(gs)))
  BY <1>0, <1>6
<1>8. SubSeq(gs, 1, Len(gs)) = gs
  BY SubSeqFull
<1> QED
  BY <1>2, <1>7, <1>8

(* The tool calls of a reply, line by line.                                *)
LEMMA ToolsByLineType ==
  ASSUME NEW r \in Reply
  PROVE  /\ ToolsByLine(r) \in Seq(Seq(Frag)) /\ Len(ToolsByLine(r)) = Len(r.lines)
         /\ \A i \in 1..Len(r.lines) :
              ToolsByLine(r)[i] = r.lines[i].tools /\ r.lines[i].tools \in Seq(Frag)
         /\ Fragments(r) = FlattenSeq(ToolsByLine(r)) /\ Fragments(r) \in Seq(Frag)
<1>1. r.lines \in Seq(Lines)
  BY DEF Reply
<1>2. PICK n \in Nat : n = Len(r.lines) /\ DOMAIN r.lines = 1..n
  BY <1>1, LenProperties
<1>3. \A i \in 1..n : r.lines[i].tools \in Seq(Frag)
  <2>1. \A l \in Lines : l.tools \in Seq(Frag)
    BY DEF Lines, Frag
  <2> QED
    BY <1>1, <1>2, <2>1, ElementOfSeq
<1>4. ToolsByLine(r) \in [1..n -> Seq(Frag)]
  BY <1>2, <1>3 DEF ToolsByLine
<1>5. ToolsByLine(r) \in Seq(Seq(Frag)) /\ Len(ToolsByLine(r)) = n
  <2>1. ToolsByLine(r) \in Seq(Seq(Frag))
    BY <1>4, SeqDef
  <2>2. DOMAIN ToolsByLine(r) = 1..n /\ DOMAIN ToolsByLine(r) = 1..Len(ToolsByLine(r))
        /\ Len(ToolsByLine(r)) \in Nat
    BY <1>4, <2>1, LenProperties
  <2> QED
    BY <2>1, <2>2
<1>6. \A i \in 1..n : ToolsByLine(r)[i] = r.lines[i].tools
  BY <1>2 DEF ToolsByLine
<1>7. Fragments(r) = FlattenSeq(ToolsByLine(r))
  BY DEF Fragments, ToolsByLine
<1> QED
  BY <1>2, <1>3, <1>5, <1>6, <1>7, FlattenType

(* A whole line's tool calls are gathered in its turn.                     *)
LEMMA LineTaken ==
  ASSUME NEW r \in Reply, NEW k \in Nat, k + 1 <= Len(r.lines), NEW acc,
         IsGathered(acc, Run(ToolsByLine(r))[k])
  PROVE  IsGathered(Gather(acc, r.lines[k + 1].tools), Run(ToolsByLine(r))[k + 1])
<1>1. k + 1 \in 1..Len(r.lines) /\ (k + 1) - 1 = k /\ k \in 0..Len(r.lines)
  BY ReplySize
<1>2. PICK m : m = k + 1
  OBVIOUS
<1>3. /\ Run(ToolsByLine(r))[m] = Run(ToolsByLine(r))[m - 1] \o r.lines[m].tools
      /\ Run(ToolsByLine(r))[k] \in Seq(Frag) /\ r.lines[m].tools \in Seq(Frag)
  <2>1. m \in 1..Len(r.lines)
    BY <1>1, <1>2
  <2> DEFINE t == ToolsByLine(r)
  <2>2. /\ t \in Seq(Seq(Frag)) /\ Len(t) = Len(r.lines)
        /\ t[m] = r.lines[m].tools /\ r.lines[m].tools \in Seq(Frag)
    BY <2>1, ToolsByLineType
  <2> HIDE DEF t
  <2>3. Run(t)[m] = Run(t)[m - 1] \o t[m] /\ Run(t)[k] \in Seq(Frag)
    BY <1>1, <2>1, <2>2, RunIsSequence
  <2> QED
    BY <2>2, <2>3 DEF t
<1>4. IsGathered(Gather(acc, r.lines[m].tools), Run(ToolsByLine(r))[k] \o r.lines[m].tools)
  BY <1>3, LineGathered
<1> QED
  BY <1>1, <1>2, <1>3, <1>4

LEMMA ToldIsPrefix ==
  ASSUME NEW r \in Reply, NEW k \in 0..Len(r.lines)
  PROVE  /\ Run(ByLine(r))[k] \in Seq(Chunk) /\ IsPrefix(Run(ByLine(r))[k], Events(r))
         /\ k = Len(r.lines) => Run(ByLine(r))[k] = Events(r)
  BY ByLineType, RunIsSequence, RunIsPrefix

----------------------------------------------------------------------------
(* The steps of a call.                                                    *)

(* Where the reply stands, for arithmetic.                                 *)
LEMMA Progress ==
  ASSUME TransferInv
  PROVE  /\ coming \in Nat /\ Size(reply) \in Nat /\ coming <= Size(reply)
         /\ Delivered \in Nat /\ Delivered + coming = Size(reply)
         /\ Len(reply.lines) \in Nat
         /\ Size(reply) <= 3 * Len(reply.lines) /\ 3 * Len(reply.lines) <= Size(reply) + 1
<1>1. /\ Len(reply.lines) \in Nat /\ Size(reply) \in Nat
      /\ Size(reply) <= 3 * Len(reply.lines) /\ 3 * Len(reply.lines) <= Size(reply) + 1
  BY ReplySize DEF TransferInv
<1>2. coming \in Nat /\ coming <= Size(reply)
  BY <1>1 DEF TransferInv
<1>3. Delivered \in Nat /\ Delivered + coming = Size(reply)
  BY <1>1, <1>2 DEF Delivered
<1> QED
  BY <1>1, <1>2, <1>3

LEMMA RelayData ==
  ASSUME TransferInv, RelayInv, NEW n \in 0..coming, DataArrives(n)
  PROVE  TransferInv' /\ RelayInv'
<1> USE DEF postVars, parseVars
<1>0. /\ coming \in Nat /\ Size(reply) \in Nat /\ coming <= Size(reply)
      /\ Delivered \in Nat /\ Delivered + coming = Size(reply) /\ n \in Nat /\ n <= coming
  BY Progress
<1>1. /\ step = "perform" /\ coming' = coming - n /\ reply' = reply /\ aborted' = aborted /\ ok' = ok
      /\ step' = (IF n > 0 THEN "lines" ELSE "check")
      /\ pending_line' = pending_line \o [i \in 1..n |-> TokenAt(Delivered + i)]
      /\ told' = told /\ success' = success /\ tool_call_acc' = tool_call_acc
  BY DEF DataArrives, Perform
<1>2. \/ running' = FALSE /\ failed' \in {coming' > 0, TRUE}
      \/ running' = running /\ failed' = failed
  BY DEF DataArrives, Perform
<1>3. coming' \in Nat /\ coming' <= coming /\ Delivered' = Delivered + n
  BY <1>0, <1>1 DEF Delivered
<1>4. TransferInv'
  <2>1. reply' \in Reply /\ coming' \in 0..Size(reply') /\ step' \in Steps
    BY <1>0, <1>1, <1>3 DEF TransferInv, Steps
  <2>2. running' \in BOOLEAN /\ failed' \in BOOLEAN /\ (~running' => failed' \/ coming' = 0)
    <3>1. CASE running' = FALSE /\ failed' \in {coming' > 0, TRUE}
      <4>1. CASE coming' > 0
        BY <3>1, <4>1
      <4>2. CASE ~(coming' > 0)
        <5>1. coming' = 0
          BY <1>3, <4>2
        <5>2. (coming' > 0) = FALSE
          BY <4>2
        <5> QED
          BY <3>1, <5>1, <5>2
      <4> QED
        BY <4>1, <4>2
    <3>2. CASE running' = running /\ failed' = failed
      <4>1. coming = 0 => coming' = 0
        BY <1>0, <1>3
      <4> QED
        BY <3>2, <4>1 DEF TransferInv
    <3> QED
      BY <1>2, <3>1, <3>2
  <2> QED
    BY <1>1, <2>1, <2>2 DEF TransferInv
<1>5. PICK k \in Nat : LinesTaken(k)
  BY <1>1 DEF RelayInv
<1> DEFINE new == [i \in 1..n |-> TokenAt(Delivered + i)]
<1>6. new \in Seq(Token) /\ Len(new) = n /\ \A i \in 1..n : new[i] = TokenAt(Delivered + i)
  <2>1. \A i \in 1..n : TokenAt(Delivered + i) \in Token
    <3>1. \A i \in 1..n : Delivered + i \in Nat \ {0}
      BY <1>0
    <3> QED
      BY <3>1, TokenType
  <2>2. new \in [1..n -> Token]
    BY <2>1
  <2>3. new \in Seq(Token) /\ DOMAIN new = 1..n /\ \A i \in 1..n : new[i] = TokenAt(Delivered + i)
    BY <1>0, <2>2, SeqDef
  <2> HIDE DEF new
  <2>4. DOMAIN new = 1..Len(new) /\ Len(new) \in Nat
    BY <2>3, LenProperties
  <2> QED
    BY <1>0, <2>3, <2>4
<1> HIDE DEF new
<1>7. LinesTaken(k)'
  <2>1. /\ k \in 0..Len(reply.lines) /\ 3 * k <= Delivered /\ told = Run(ByLine(reply))[k]
        /\ pending_line \in Seq(Token) /\ Len(pending_line) = Delivered - 3 * k
        /\ \A i \in 1..Len(pending_line) : pending_line[i] = TokenAt(3 * k + i)
        /\ Len(pending_line) <= 2 /\ Gathered(k)
    BY <1>1, <1>5 DEF LinesTaken
  <2>2. pending_line' = pending_line \o new
    BY <1>1 DEF new
  <2>3. /\ pending_line' \in Seq(Token) /\ Len(pending_line') = Len(pending_line) + n
        /\ \A i \in 1..Len(pending_line) + n : pending_line'[i] =
             IF i <= Len(pending_line) THEN pending_line[i] ELSE new[i - Len(pending_line)]
    BY <1>6, <2>1, <2>2, ConcatProperties
  <2>4. Len(pending_line') = Delivered' - 3 * k
    BY <1>0, <1>3, <2>1, <2>3
  <2>5. ASSUME NEW i \in 1..Len(pending_line') PROVE pending_line'[i] = TokenAt(3 * k + i)
    <3>1. CASE i <= Len(pending_line)
      <4>1. i \in 1..Len(pending_line) /\ i \in 1..Len(pending_line) + n
        BY <1>0, <2>1, <2>3, <3>1
      <4> QED
        BY <2>1, <2>3, <3>1, <4>1
    <3>2. CASE ~(i <= Len(pending_line))
      <4>1. PICK j \in 1..n : j = i - Len(pending_line)
        BY <1>0, <2>1, <2>3, <3>2
      <4>a. PICK m \in Nat, d \in Int : m = Len(pending_line) /\ d = Delivered /\ m = d - 3 * k
        BY <1>0, <2>1, LenProperties
      <4>b. i \in 1..m + n /\ j = i - m
        BY <2>3, <4>1, <4>a
      <4>c. d + j = 3 * k + i
        BY <1>0, <2>1, <4>a, <4>b
      <4>2. i \in 1..Len(pending_line) + n /\ Delivered + j = 3 * k + i
        BY <4>a, <4>b, <4>c
      <4>3. pending_line'[i] = new[j]
        BY <2>3, <3>2, <4>1, <4>2
      <4> QED
        BY <1>6, <4>2, <4>3
    <3> QED
      BY <3>1, <3>2
  <2>6. step' # "lines" => Len(pending_line') <= 2
    BY <1>0, <1>1, <2>1, <2>3
  <2>7. k \in 0..Len(reply'.lines) /\ 3 * k <= Delivered' /\ told' = Run(ByLine(reply'))[k]
    BY <1>0, <1>1, <1>3, <2>1
  <2>8. Gathered(k)'
    BY <1>1, <2>1 DEF Gathered, ToolsByLine
  <2> QED
    BY <2>3, <2>4, <2>5, <2>6, <2>7, <2>8 DEF LinesTaken, ByLine
<1>8. RelayInv'
  <2>1. ~success'
    BY <1>1 DEF RelayInv
  <2>2. step' \notin {"merge", "over"}
    BY <1>1
  <2> QED
    BY <1>5, <1>7, <2>1, <2>2 DEF RelayInv, CallsAreWhole
<1> QED
  BY <1>4, <1>8

LEMMA WholeLine ==
  ASSUME NEW l \in Seq(Token), NEW k \in Nat, Len(l) = 2, l[1] = <<k, "first">>, l[2] = <<k, "second">>
  PROVE  IsWhole(l) /\ l[1][1] = k
<1>1. l # <<>> /\ l[1][1] = k
  BY EmptySeq
<1> DEFINE t == LineTokens(k)
           f == SubSeq(t, 1, 2)
<1>2. t[1] = <<k, "first">> /\ t[2] = <<k, "second">>
  BY DEF LineTokens
<1>3. \A i \in 1..2 : t[i] \in Token
  <2>1. <<k, "first">> \in Token /\ <<k, "second">> \in Token
    BY DEF Token
  <2>2. \A i \in 1..2 : i = 1 \/ i = 2
    OBVIOUS
  <2> HIDE DEF t
  <2> QED
    BY <1>2, <2>1, <2>2
<1> HIDE DEF t
<1>4. f \in Seq(Token) /\ Len(f) = 2 /\ \A i \in 1..2 : f[i] = t[i]
  <2>1. /\ f \in Seq(Token) /\ Len(f) = IF 1 <= 2 THEN 2 - 1 + 1 ELSE 0
        /\ \A i \in 1..2 - 1 + 1 : f[i] = t[1 + i - 1]
    BY <1>3, SubSeqProperties
  <2> QED
    BY <2>1
<1>5. \A i \in 1..2 : l[i] = f[i]
  <2>1. \A i \in 1..2 : i = 1 \/ i = 2
    OBVIOUS
  <2> QED
    BY <1>2, <1>4, <2>1
<1>6. l = f
  BY <1>4, <1>5, SeqEqual
<1> QED
  BY <1>1, <1>6 DEF IsWhole, t

(* A line that has ended is whole, and is told.                            *)
LEMMA RelayLine ==
  ASSUME TransferInv, RelayInv, OnLine
  PROVE  TransferInv' /\ RelayInv'
<1> USE DEF postVars, parseVars
<1>0. /\ coming \in Nat /\ Size(reply) \in Nat /\ coming <= Size(reply)
      /\ Delivered \in Nat /\ Delivered + coming = Size(reply)
      /\ Len(reply.lines) \in Nat /\ Size(reply) <= 3 * Len(reply.lines) /\ reply \in Reply
  BY Progress DEF TransferInv
<1>1. /\ step = "lines" /\ LineEndsAt # {}
      /\ process_sse_line(SubSeq(pending_line, 1, Min(LineEndsAt) - 1))
      /\ pending_line' = SubSeq(pending_line, Min(LineEndsAt) + 1, Len(pending_line))
      /\ UNCHANGED <<step, postVars, tool_calls, success>>
  BY DEF OnLine
<1>2. TransferInv' /\ Delivered' = Delivered
  BY <1>1 DEF TransferInv, Delivered, Size
<1>3. PICK k \in Nat : LinesTaken(k)
  BY <1>1 DEF RelayInv
<1>4. /\ k \in 0..Len(reply.lines) /\ 3 * k <= Delivered /\ told = Run(ByLine(reply))[k]
      /\ pending_line \in Seq(Token) /\ Len(pending_line) = Delivered - 3 * k
      /\ \A i \in 1..Len(pending_line) : pending_line[i] = TokenAt(3 * k + i)
      /\ Gathered(k)
  BY <1>3 DEF LinesTaken
<1>5. /\ TokenAt(3 * k + 1) = <<k + 1, "first">> /\ TokenAt(3 * k + 2) = <<k + 1, "second">>
      /\ TokenAt(3 * k + 3) = <<k + 1, "LF">>
  BY Tokens
<1>6. LineEndsAt \subseteq Nat \ {0, 1, 2} /\ 3 \in LineEndsAt
  <2>1. DOMAIN pending_line = 1..Len(pending_line) /\ Len(pending_line) \in Nat
    BY <1>4, LenProperties
  <2>2. LineEndsAt \subseteq Nat \ {0, 1, 2}
    <3>1. SUFFICES ASSUME NEW i \in LineEndsAt PROVE i \in Nat /\ i # 0 /\ i # 1 /\ i # 2
      OBVIOUS
    <3>2. i \in 1..Len(pending_line) /\ pending_line[i][2] = "LF"
      BY <2>1 DEF LineEndsAt
    <3>3. pending_line[i] = TokenAt(3 * k + i)
      BY <1>4, <3>2
    <3>4. i # 1 /\ i # 2
      BY <1>5, <3>2, <3>3
    <3> QED
      BY <2>1, <3>2, <3>4
  <2>3. Len(pending_line) >= 3
    <3>1. PICK i \in LineEndsAt : TRUE
      BY <1>1
    <3>2. i \in Nat /\ i <= Len(pending_line) /\ i # 0 /\ i # 1 /\ i # 2
      BY <2>1, <2>2, <3>1 DEF LineEndsAt
    <3> QED
      BY <2>1, <3>2
  <2>4. 3 \in 1..Len(pending_line)
    BY <2>1, <2>3
  <2>5. pending_line[3] = <<k + 1, "LF">>
    BY <1>4, <1>5, <2>4
  <2>6. 3 \in LineEndsAt
    BY <2>1, <2>4, <2>5 DEF LineEndsAt
  <2> QED
    BY <2>2, <2>6
<1>7. Min(LineEndsAt) = 3 /\ Len(pending_line) \in Nat /\ Len(pending_line) >= 3
  <2>1. \A i \in LineEndsAt : 3 <= i
    BY <1>6
  <2>2. \A x \in LineEndsAt : (\A y \in LineEndsAt : x <= y) => x = 3
    BY <1>6
  <2>3. Min(LineEndsAt) = 3
    BY <1>6, <2>1, <2>2 DEF Min
  <2>4. 3 \in 1..Len(pending_line) /\ Len(pending_line) \in Nat
    BY <1>4, <1>6, LenProperties DEF LineEndsAt
  <2> QED
    BY <2>3, <2>4
<1>8. k + 1 <= Len(reply.lines) /\ 3 * (k + 1) <= Delivered
  BY <1>0, <1>4, <1>7
<1>9. told' = Run(ByLine(reply))[k + 1] /\ Gathered(k + 1)'
  <2> DEFINE line == SubSeq(pending_line, 1, 2)
  <2>1. process_sse_line(line)
    BY <1>1, <1>7
  <2>2. /\ line \in Seq(Token) /\ Len(line) = 2 /\ line[1] = pending_line[1] /\ line[2] = pending_line[2]
    <3>1. \A i \in 1..2 : pending_line[i] \in Token
      BY <1>4, <1>7, ElementOfSeq
    <3>2. /\ line \in Seq(Token) /\ Len(line) = IF 1 <= 2 THEN 2 - 1 + 1 ELSE 0
          /\ \A i \in 1..2 - 1 + 1 : line[i] = pending_line[1 + i - 1]
      BY <3>1, SubSeqProperties
    <3> QED
      BY <3>2
  <2>3. line[1] = <<k + 1, "first">> /\ line[2] = <<k + 1, "second">>
    BY <1>4, <1>5, <1>7, <2>2
  <2> HIDE DEF line
  <2>4. IsWhole(line) /\ line[1][1] = k + 1
    BY <2>2, <2>3, WholeLine
  <2>5. /\ told' = told \o Chunks(reply.lines[k + 1])
        /\ tool_call_acc' = Gather(tool_call_acc, reply.lines[k + 1].tools)
    BY <2>1, <2>4 DEF process_sse_line
  <2>6. IsGathered(tool_call_acc', Run(ToolsByLine(reply))[k + 1])
    BY <1>0, <1>4, <1>8, <2>5, LineTaken DEF Gathered
  <2>7. Gathered(k + 1)'
    BY <1>1, <2>6 DEF Gathered, ToolsByLine
  <2> QED
    BY <1>0, <1>4, <1>8, <2>5, <2>7, LineTold
<1>10. /\ pending_line' \in Seq(Token) /\ Len(pending_line') = Delivered - 3 * (k + 1)
       /\ \A i \in 1..Len(pending_line') : pending_line'[i] = TokenAt(3 * (k + 1) + i)
  <2>1. pending_line' = SubSeq(pending_line, 4, Len(pending_line))
    BY <1>1, <1>7
  <2>2. 4 \in Int /\ Len(pending_line) \in Int /\ \A i \in 4..Len(pending_line) : pending_line[i] \in Token
    BY <1>4, <1>7, ElementOfSeq
  <2>3. /\ pending_line' \in Seq(Token)
        /\ Len(pending_line') = IF 4 <= Len(pending_line) THEN Len(pending_line) - 4 + 1 ELSE 0
        /\ \A i \in 1..Len(pending_line) - 4 + 1 : pending_line'[i] = pending_line[4 + i - 1]
    BY <2>1, <2>2, SubSeqProperties
  <2>4. Len(pending_line') = Len(pending_line) - 3
    <3>1. CASE 4 <= Len(pending_line)
      <4>1. Len(pending_line') = Len(pending_line) - 4 + 1
        BY <2>3, <3>1
      <4> QED
        BY <1>7, <4>1
    <3>2. CASE ~(4 <= Len(pending_line))
      <4>1. Len(pending_line') = 0
        BY <2>3, <3>2
      <4>2. PICK n \in Nat : n = Len(pending_line)
        BY <1>7
      <4>3. n >= 3 /\ ~(4 <= n)
        BY <1>7, <3>2, <4>2
      <4>4. n - 3 = 0
        BY <4>3
      <4> QED
        BY <4>1, <4>2, <4>4
    <3> QED
      BY <3>1, <3>2
  <2>5. ASSUME NEW i \in 1..Len(pending_line') PROVE pending_line'[i] = TokenAt(3 * (k + 1) + i)
    <3>1. i + 3 \in 1..Len(pending_line) /\ 4 + i - 1 = i + 3 /\ 3 * k + (i + 3) = 3 * (k + 1) + i
      BY <1>7, <2>4
    <3>2. i \in 1..Len(pending_line) - 4 + 1
      BY <1>7, <2>4
    <3>3. pending_line'[i] = pending_line[4 + i - 1]
      BY <2>3, <3>2
    <3>4. pending_line'[i] = pending_line[i + 3]
      BY <3>1, <3>3
    <3> QED
      BY <1>4, <3>1, <3>4
  <2> QED
    BY <1>0, <1>4, <1>7, <2>3, <2>4, <2>5
<1>11. LinesTaken(k + 1)'
  <2>1. reply' = reply /\ step' = "lines" /\ k + 1 \in 0..Len(reply.lines)
    BY <1>0, <1>1, <1>8
  <2> QED
    BY <1>2, <1>8, <1>9, <1>10, <2>1 DEF LinesTaken, ByLine
<1>12. ~success' /\ step' = "lines"
  BY <1>1 DEF RelayInv
<1> QED
  BY <1>2, <1>11, <1>12 DEF RelayInv, CallsAreWhole

(* on_data returns with no line end in what is pending.                    *)
LEMMA RelayDataEnds ==
  ASSUME TransferInv, RelayInv, OnDataEnds
  PROVE  TransferInv' /\ RelayInv'
<1> USE DEF postVars, parseVars
<1>1. step = "lines" /\ step' = "check" /\ LineEndsAt = {} /\ UNCHANGED <<postVars, parseVars>>
  BY DEF OnDataEnds
<1>2. TransferInv'
  BY <1>1 DEF TransferInv, Size, Steps
<1>3. PICK k \in Nat : LinesTaken(k)
  BY <1>1 DEF RelayInv
<1>4. /\ k \in 0..Len(reply.lines) /\ 3 * k <= Delivered /\ told = Run(ByLine(reply))[k]
      /\ pending_line \in Seq(Token) /\ Len(pending_line) = Delivered - 3 * k
      /\ \A i \in 1..Len(pending_line) : pending_line[i] = TokenAt(3 * k + i)
      /\ Gathered(k)
  BY <1>3 DEF LinesTaken
<1>5. Len(pending_line) \in Nat /\ DOMAIN pending_line = 1..Len(pending_line)
  BY <1>4, LenProperties
<1>6. Len(pending_line) <= 2
  <2>1. SUFFICES ASSUME Len(pending_line) >= 3 PROVE FALSE
    BY <1>5
  <2>2. 3 \in DOMAIN pending_line
    BY <1>5, <2>1
  <2>3. pending_line[3] = <<k + 1, "LF">>
    BY <1>4, <1>5, <2>2, Tokens
  <2> QED
    BY <1>1, <2>2, <2>3 DEF LineEndsAt
<1>7. LinesTaken(k)'
  <2>1. reply' = reply /\ Delivered' = Delivered /\ told' = told /\ pending_line' = pending_line
    BY <1>1 DEF Delivered, Size
  <2> QED
    BY <1>1, <1>4, <1>6, <2>1 DEF LinesTaken, ByLine, Gathered, ToolsByLine
<1>8. ~success' /\ step' = "check"
  BY <1>1 DEF RelayInv
<1> QED
  BY <1>2, <1>7, <1>8 DEF RelayInv, CallsAreWhole

(* The loop of post() and its end touch nothing of what is parsed.         *)
LEMMA RelayPost ==
  ASSUME TransferInv, RelayInv, NEW flag \in BOOLEAN,
         Check(flag) \/ Poll(flag) \/ PostResult, UNCHANGED parseVars
  PROVE  TransferInv' /\ RelayInv'
<1> USE DEF parseVars
<1>1. /\ step \in {"check", "poll", "result"} /\ step' \in {"perform", "poll", "result", "leftover"}
      /\ reply' = reply /\ coming' = coming
  BY DEF Check, Poll, PostResult
<1>2. TransferInv'
  <2>1. CASE Check(flag)
    BY <1>1, <2>1 DEF TransferInv, Check, Size, Steps
  <2>2. CASE Poll(flag)
    BY <1>1, <2>2 DEF TransferInv, Poll, Size, Steps
  <2>3. CASE PostResult
    <3>1. ok' = (~aborted /\ ~failed /\ reply.code < 400)
      BY <2>3 DEF PostResult
    <3>2. ok' \in BOOLEAN
      BY <3>1
    <3>3. ok' => coming = 0
      BY <2>3, <3>1 DEF TransferInv, PostResult
    <3> QED
      BY <1>1, <2>3, <3>2, <3>3 DEF TransferInv, PostResult, Size, Steps
  <2> QED
    BY <2>1, <2>2, <2>3
<1>3. PICK k \in Nat : LinesTaken(k)
  BY <1>1 DEF RelayInv
<1>4. LinesTaken(k)'
  <2>1. Delivered' = Delivered
    BY <1>1 DEF Delivered, Size
  <2> QED
    BY <1>1, <1>3, <2>1 DEF LinesTaken, ByLine, Gathered, ToolsByLine
<1> QED
  BY <1>1, <1>2, <1>4 DEF RelayInv, CallsAreWhole

(* What is left over is a whole line, the last, or no line at all: a       *)
(* transfer that succeeds leaves no line untold.                           *)
LEMMA RelayLeftover ==
  ASSUME TransferInv, RelayInv, NEW flag \in BOOLEAN, Leftover(flag)
  PROVE  TransferInv' /\ RelayInv'
<1> USE DEF postVars, parseVars
<1>0. /\ coming \in Nat /\ Size(reply) \in Nat /\ coming <= Size(reply)
      /\ Delivered \in Nat /\ Delivered + coming = Size(reply) /\ reply \in Reply
      /\ Len(reply.lines) \in Nat
      /\ Size(reply) <= 3 * Len(reply.lines) /\ 3 * Len(reply.lines) <= Size(reply) + 1
  BY Progress DEF TransferInv
<1>1. /\ step = "leftover" /\ step' = "merge" /\ success' = (ok /\ ~flag)
      /\ process_sse_line(pending_line) /\ UNCHANGED postVars
  BY DEF Leftover
<1>2. TransferInv' /\ (success' => ok)
  BY <1>1 DEF TransferInv, Size, Steps
<1>3. PICK k \in Nat : LinesTaken(k)
  BY <1>1 DEF RelayInv
<1>4. /\ k \in 0..Len(reply.lines) /\ 3 * k <= Delivered /\ told = Run(ByLine(reply))[k]
      /\ pending_line \in Seq(Token) /\ Len(pending_line) = Delivered - 3 * k
      /\ \A i \in 1..Len(pending_line) : pending_line[i] = TokenAt(3 * k + i)
      /\ Len(pending_line) <= 2 /\ Gathered(k)
  BY <1>1, <1>3 DEF LinesTaken
<1>5. Len(pending_line) \in Nat
  BY <1>4, LenProperties
<1>6. Len(pending_line) = 2 => /\ k + 1 <= Len(reply.lines)
                               /\ told' = Run(ByLine(reply))[k + 1] /\ Gathered(k + 1)'
  <2>1. SUFFICES ASSUME Len(pending_line) = 2
                 PROVE  /\ k + 1 <= Len(reply.lines)
                        /\ told' = Run(ByLine(reply))[k + 1] /\ Gathered(k + 1)'
    OBVIOUS
  <2>2. k + 1 <= Len(reply.lines)
    <3>1. Delivered - 3 * k = 2
      BY <1>4, <2>1
    <3>2. Delivered <= 3 * Len(reply.lines)
      BY <1>0
    <3> QED
      BY <1>0, <1>4, <3>1, <3>2
  <2>3. pending_line[1] = <<k + 1, "first">> /\ pending_line[2] = <<k + 1, "second">>
    <3>1. 1 \in 1..Len(pending_line) /\ 2 \in 1..Len(pending_line)
      BY <2>1
    <3>2. pending_line[1] = TokenAt(3 * k + 1) /\ pending_line[2] = TokenAt(3 * k + 2)
      BY <1>4, <3>1
    <3> QED
      BY <3>2, Tokens
  <2>4. IsWhole(pending_line) /\ pending_line[1][1] = k + 1
    BY <1>4, <2>1, <2>3, WholeLine
  <2>5. /\ told' = told \o Chunks(reply.lines[k + 1])
        /\ tool_call_acc' = Gather(tool_call_acc, reply.lines[k + 1].tools)
    BY <1>1, <2>4 DEF process_sse_line
  <2>6. IsGathered(tool_call_acc', Run(ToolsByLine(reply))[k + 1])
    BY <1>0, <1>4, <2>2, <2>5, LineTaken DEF Gathered
  <2>7. Gathered(k + 1)'
    BY <1>1, <2>6 DEF Gathered, ToolsByLine
  <2> QED
    BY <1>0, <1>4, <2>2, <2>5, <2>7, LineTold
<1>7. Len(pending_line) # 2 => told' = told /\ Gathered(k)'
  <2>1. SUFFICES ASSUME Len(pending_line) # 2 PROVE ~IsWhole(pending_line)
    BY <1>1, <1>4 DEF process_sse_line, Gathered, ToolsByLine
  <2>2. SUFFICES ASSUME IsWhole(pending_line) PROVE FALSE
    OBVIOUS
  <2>3. PICK t : t = LineTokens(pending_line[1][1])
    OBVIOUS
  <2>4. pending_line = SubSeq(t, 1, 2)
    BY <2>2, <2>3 DEF IsWhole
  <2>5. \A i \in 1..2 : t[i] \in {t[1], t[2]}
    <3>1. \A i \in 1..2 : i = 1 \/ i = 2
      OBVIOUS
    <3> QED
      BY <3>1
  <2>6. Len(pending_line) = IF 1 <= 2 THEN 2 - 1 + 1 ELSE 0
    BY <2>4, <2>5, SubSeqProperties
  <2> QED
    BY <2>1, <2>6
<1>8. \E m \in 0..Len(reply.lines) :
        /\ told' = Run(ByLine(reply))[m] /\ Gathered(m)'
        /\ success' => m = Len(reply.lines)
  <2>1. success' => coming = 0
    BY <1>1, <1>2 DEF TransferInv
  <2>2. CASE Len(pending_line) = 2
    <3>1. k + 1 \in 0..Len(reply.lines)
      <4>1. PICK n \in Nat : n = Len(reply.lines)
        BY <1>0
      <4>2. k + 1 <= n
        BY <1>6, <2>2, <4>1
      <4> QED
        BY <4>1, <4>2
    <3>2. success' => k + 1 = Len(reply.lines)
      <4>1. Delivered - 3 * k = 2 /\ k + 1 <= Len(reply.lines)
        BY <1>4, <1>6, <2>2
      <4>2. coming = 0 => 3 * Len(reply.lines) <= Delivered + 1
        BY <1>0
      <4> QED
        BY <1>0, <1>4, <2>1, <4>1, <4>2
    <3> QED
      BY <1>6, <2>2, <3>1, <3>2
  <2>3. CASE Len(pending_line) # 2
    <3>1. success' => k = Len(reply.lines)
      BY <1>0, <1>4, <1>5, <2>1, <2>3
    <3> QED
      BY <1>4, <1>7, <2>3, <3>1
  <2> QED
    BY <2>2, <2>3
<1>9. told' \in Seq(Chunk) /\ IsPrefix(told', Events(reply)) /\ (success' => told' = Events(reply))
  BY <1>0, <1>8, ToldIsPrefix
<1>10. Events(reply') = Events(reply) /\ step' = "merge"
  BY <1>1
<1>11. success' => IsGathered(tool_call_acc', Fragments(reply'))
  <2>1. PICK m \in 0..Len(reply.lines) : Gathered(m)' /\ (success' => m = Len(reply.lines))
    BY <1>8
  <2>2. IsGathered(tool_call_acc', Run(ToolsByLine(reply))[m])
    BY <1>1, <2>1 DEF Gathered, ToolsByLine
  <2>3. Fragments(reply) = Run(ToolsByLine(reply))[Len(reply.lines)]
    BY <1>0, ToolsByLineType, RunIsSequence
  <2> QED
    BY <1>1, <2>1, <2>2, <2>3
<1> QED
  BY <1>2, <1>9, <1>10, <1>11 DEF RelayInv, CallsAreWhole

LEMMA RelayMerge ==
  ASSUME TransferInv, RelayInv, Merge
  PROVE  TransferInv' /\ RelayInv'
<1>1. step = "merge" /\ step' = "over" /\ UNCHANGED <<postVars, told, success>>
  BY DEF Merge
<1>2. TransferInv'
  BY <1>1 DEF TransferInv, postVars, Size, Steps
<1>3. Events(reply') = Events(reply)
  BY <1>1 DEF postVars
<1>4. ASSUME success' PROVE CallsAreWhole'
  <2> DEFINE fs == Fragments(reply)
             named == {i \in DOMAIN tool_call_acc : tool_call_acc[i].name # <<>>}
  <2>1. success /\ reply' = reply
    BY <1>1, <1>4 DEF postVars
  <2>2. IsGathered(tool_call_acc, fs) /\ Indexes(fs) \subseteq Int
    <3>1. fs \in Seq(Frag)
      BY ToolsByLineType DEF TransferInv
    <3> QED
      BY <1>1, <2>1, <3>1, IndexesAre DEF RelayInv
  <2>3. \A i \in DOMAIN tool_call_acc : tool_call_acc[i] = CallIn(fs, i)
    BY <2>2 DEF IsGathered
  <2>4. named = Named(reply)
    BY <2>2, <2>3 DEF IsGathered, Named
  <2>5. PICK order \in SetToSeqs(named) :
          tool_calls' = [k \in DOMAIN order |-> tool_call_acc[order[k]]]
    BY DEF Merge
  <2>6. \A k \in DOMAIN order : order[k] \in DOMAIN tool_call_acc
    BY DEF SetToSeqs
  <2>7. tool_calls' = [k \in DOMAIN order |-> CallIn(fs, order[k])]
    BY <2>3, <2>5, <2>6
  <2> QED
    BY <2>1, <2>4, <2>7 DEF CallsAreWhole
<1>5. CallsAreWhole'
  BY <1>4 DEF CallsAreWhole
<1> QED
  BY <1>1, <1>2, <1>3, <1>5 DEF RelayInv

LEMMA RelayBegin ==
  ASSUME RefuseCall \/ \E r \in Replies : BeginCall(r)
  PROVE  TransferInv' /\ RelayInv' /\ told' = <<>>
<1>0. NoReply \in Reply /\ Replies \subseteq Reply
  <2>1. <<>> \in Seq(Lines)
    BY EmptySeq
  <2> QED
    BY <2>1, ReplyAssumption DEF NoReply, Reply
<1>1. /\ told' = <<>> /\ pending_line' = <<>> /\ success' = FALSE /\ ok' = FALSE /\ aborted' = FALSE
      /\ tool_call_acc' = <<>>
  BY DEF RefuseCall, BeginCall, PostBegin, PostRefused, Forgotten
<1>2. CASE RefuseCall
  <2>1. /\ step' = "over" /\ reply' = NoReply /\ coming' = 0 /\ running' = FALSE /\ failed' = TRUE
    BY <1>2 DEF RefuseCall, PostRefused
  <2>2. TransferInv'
    <3>1. Size(NoReply) \in Nat
      BY <1>0, ReplySize
    <3>2. reply' \in Reply /\ coming' \in 0..Size(reply')
      BY <1>0, <2>1, <3>1
    <3> QED
      BY <1>1, <2>1, <3>2 DEF TransferInv, Steps
  <2>3. told' \in Seq(Chunk) /\ IsPrefix(told', Events(reply'))
    <3>1. /\ Len(NoReply.lines) \in Nat /\ Run(ByLine(NoReply))[0] = <<>>
      BY <1>0, ByLineType, RunIsSequence, ReplySize
    <3>2. 0 \in 0..Len(NoReply.lines)
      BY <3>1
    <3>3. IsPrefix(<<>>, Events(NoReply)) /\ <<>> \in Seq(Chunk)
      BY <1>0, <3>1, <3>2, ToldIsPrefix
    <3> QED
      BY <1>1, <2>1, <3>3
  <2> QED
    BY <1>1, <2>1, <2>2, <2>3 DEF RelayInv, CallsAreWhole
<1>3. ASSUME NEW r \in Replies, BeginCall(r) PROVE TransferInv' /\ RelayInv'
  <2>1. /\ step' = "perform" /\ reply' = r /\ coming' = Size(r) /\ running' = TRUE /\ failed' = FALSE
    BY <1>3 DEF BeginCall, PostBegin
  <2>2. r \in Reply /\ Size(r) \in Nat /\ Len(r.lines) \in Nat
    BY <1>0, ReplySize
  <2>3. TransferInv'
    <3>1. reply' \in Reply /\ coming' \in 0..Size(reply')
      BY <2>1, <2>2
    <3> QED
      BY <1>1, <2>1, <3>1 DEF TransferInv, Steps
  <2>4. LinesTaken(0)'
    <3>1. Delivered' = 0 /\ 3 * 0 = 0 /\ 0 - 0 = 0
      BY <2>1, <2>2 DEF Delivered
    <3>2. Run(ByLine(r))[0] = <<>>
      BY <2>2, ByLineType, RunIsSequence
    <3>3. <<>> \in Seq(Token) /\ Len(<<>>) = 0
      BY EmptySeq
    <3>4. Run(ToolsByLine(r))[0] = <<>>
      BY <2>2, ToolsByLineType, RunIsSequence
    <3>5. Gathered(0)'
      BY <1>1, <2>1, <3>4, NothingGathered DEF Gathered, ToolsByLine
    <3> QED
      BY <1>1, <2>1, <2>2, <3>1, <3>2, <3>3, <3>5 DEF LinesTaken, ByLine
  <2> QED
    BY <1>1, <2>1, <2>3, <2>4 DEF RelayInv, CallsAreWhole
<1> QED
  BY <1>1, <1>2, <1>3

LEMMA RelayInit ==
  ASSUME LLMInit
  PROVE  TransferInv /\ RelayInv /\ told = <<>>
<1>1. /\ step = "none" /\ reply = NoReply /\ coming = 0 /\ running = FALSE /\ failed = FALSE
      /\ aborted = FALSE /\ ok = FALSE /\ told = <<>> /\ success = FALSE
  BY DEF LLMInit, HttpClientInit
<1>2. <<>> \in Seq(Lines)
  BY EmptySeq
<1>3. NoReply \in Reply
  BY <1>2 DEF NoReply, Reply
<1>4. Size(NoReply) \in Nat
  BY <1>3, ReplySize
<1>5. TransferInv
  <2>1. reply \in Reply /\ coming \in 0..Size(reply)
    BY <1>1, <1>3, <1>4
  <2> QED
    BY <1>1, <2>1 DEF TransferInv, Steps
<1> QED
  BY <1>1, <1>5 DEF RelayInv, CallsAreWhole

LEMMA RelayStutters ==
  ASSUME TransferInv, RelayInv, UNCHANGED callVars
  PROVE  TransferInv' /\ RelayInv'
<1> USE DEF callVars, postVars, parseVars
<1>1. TransferInv'
  BY DEF TransferInv, Size
<1>2. Events(reply') = Events(reply) /\ Fragments(reply') = Fragments(reply)
  OBVIOUS
<1>3. \A k \in Nat : LinesTaken(k) => LinesTaken(k)'
  BY DEF LinesTaken, ByLine, Delivered, Size, Gathered, ToolsByLine
<1>4. CallsAreWhole => CallsAreWhole'
  BY DEF CallsAreWhole
<1> QED
  BY <1>1, <1>2, <1>3, <1>4 DEF RelayInv

(* The calls' part of ClientSeesReply.                                     *)
LEMMA Relayed ==
  ASSUME TransferInv, RelayInv
  PROVE  step # "none" => told \in Seq(Chunk) /\ ReplyIsRelayed
<1>1. SUFFICES ASSUME step # "none"
               PROVE  told \in Seq(Chunk) /\ IsPrefix(told, Events(reply))
  BY DEF ReplyIsRelayed, RelayInv
<1>2. CASE step \in {"merge", "over"}
  BY <1>2 DEF RelayInv
<1>3. CASE step \notin {"merge", "over"}
  <2>1. step \in {"perform", "lines", "check", "poll", "result", "leftover"}
    BY <1>1, <1>3 DEF TransferInv, Steps
  <2>2. PICK k \in Nat : LinesTaken(k)
    BY <2>1 DEF RelayInv
  <2> QED
    BY <2>2, ToldIsPrefix DEF TransferInv, LinesTaken
<1> QED
  BY <1>2, <1>3
=============================================================================
