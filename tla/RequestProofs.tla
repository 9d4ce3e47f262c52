---------------------------- MODULE RequestProofs ----------------------------
(***************************************************************************)
(* Theorems about RequestStream, for any scripts, files and limits: what   *)
(* the parser has in its members is the record of the request it reads, up *)
(* to where it stands in the stream.                                       *)
(***************************************************************************)
EXTENDS RequestStream, SequenceLemmas

----------------------------------------------------------------------------
(* Where the requests and their parts stand in the stream.                 *)

(* The end of the k-th request of the script s.                            *)
Ends(s, k) == Len(Stream(SubSeq(s, 1, k)))

LEMMA CrLf ==
  /\ CRLF \in Seq(Token) /\ Len(CRLF) = 2 /\ CRLF[1] = "CR" /\ CRLF[2] = "LF"
<1>1. "CR" \in Token /\ "LF" \in Token
  BY DEF Token
<1> QED
  BY <1>1 DEF CRLF

LEMMA LineEnded ==
  ASSUME NEW l \in Seq(Token)
  PROVE  l \o CRLF \in Seq(Token) /\ Len(l \o CRLF) = Len(l) + 2 /\ Len(l) \in Nat
<1>1. PICK e \in Seq(Token) : e = CRLF /\ Len(e) = 2
  BY CrLf
<1>2. l \o e \in Seq(Token) /\ Len(l \o e) = Len(l) + Len(e)
  BY ConcatProperties
<1> QED
  BY <1>1, <1>2, LenProperties

LEMMA LineAt ==
  ASSUME NEW s \in Seq(Token), NEW l \in Seq(Token), NEW p, At(s, p, l \o CRLF)
  PROVE  /\ p \in Nat /\ Len(l) \in Nat /\ p + Len(l) + 2 <= Len(s)
         /\ \A i \in 1..Len(l) : s[p + i] = l[i]
         /\ s[p + Len(l) + 1] = "CR" /\ s[p + Len(l) + 2] = "LF"
<1>1. At(s, p, l) /\ At(s, p + Len(l), CRLF)
  BY CrLf, AtConcat
<1>2. p \in Nat /\ Len(l) \in Nat /\ Len(s) \in Nat
  BY <1>1, LenProperties DEF At
<1>3. \A i \in 1..Len(l) : s[p + i] = l[i]
  BY <1>1 DEF At
<1>4. (p + Len(l)) + 2 <= Len(s) /\ \A i \in 1..2 : s[(p + Len(l)) + i] = CRLF[i]
  BY <1>1, CrLf DEF At
<1>5. s[(p + Len(l)) + 1] = "CR" /\ s[(p + Len(l)) + 2] = "LF"
  <2>1. 1 \in 1..2 /\ 2 \in 1..2
    OBVIOUS
  <2> QED
    BY <1>4, <2>1, CrLf
<1> QED
  BY <1>2, <1>3, <1>4, <1>5

LEMMA RequestType ==
  ASSUME NEW r \in Request
  PROVE  /\ r.line \in Seq(Token) /\ r.headers \in Seq(Seq(Token)) /\ r.body \in Seq(Token)
         /\ Len(r.line) \in Nat /\ Len(r.headers) \in Nat /\ Len(r.body) \in Nat
         /\ DOMAIN r.line = 1..Len(r.line) /\ DOMAIN r.headers = 1..Len(r.headers)
         /\ \A i \in 1..Len(r.headers) : r.headers[i] \in Seq(Token) /\ Len(r.headers[i]) \in Nat
                                         /\ DOMAIN r.headers[i] = 1..Len(r.headers[i])
<1>1. r.line \in Seq(Token) /\ r.headers \in Seq(Seq(Token)) /\ r.body \in Seq(Token)
  BY DEF Request
<1>2. \A i \in 1..Len(r.headers) : r.headers[i] \in Seq(Token)
  BY <1>1, ElementOfSeq
<1> QED
  BY <1>1, <1>2, LenProperties

HeaderLines(r) == [i \in 1..Len(r.headers) |-> r.headers[i] \o CRLF]

LEMMA PreambleIs ==
  ASSUME NEW r \in Request, NEW n \in 0..Len(r.headers)
  PROVE  /\ HeaderLines(r) \in Seq(Seq(Token)) /\ Len(HeaderLines(r)) = Len(r.headers)
         /\ r.line \o CRLF \in Seq(Token) /\ Len(r.line \o CRLF) = Len(r.line) + 2
         /\ Run(HeaderLines(r))[n] \in Seq(Token)
         /\ Preamble(r, n) = (r.line \o CRLF) \o Run(HeaderLines(r))[n]
         /\ Preamble(r, n) \in Seq(Token) /\ Len(Preamble(r, n)) \in Nat
         /\ Len(Preamble(r, n)) = Len(r.line) + 2 + Len(Run(HeaderLines(r))[n])
<1> DEFINE hs == HeaderLines(r)
           part == [i \in 1..n |-> r.headers[i] \o CRLF]
<1>1. \A i \in 1..Len(r.headers) : r.headers[i] \o CRLF \in Seq(Token)
  BY RequestType, CrLf, ConcatProperties
<1>2. Len(r.headers) \in Nat /\ n \in Nat /\ n <= Len(r.headers)
  BY RequestType
<1>3. hs \in Seq(Seq(Token)) /\ Len(hs) = Len(r.headers)
  <2>1. hs \in [1..Len(r.headers) -> Seq(Token)]
    BY <1>1 DEF HeaderLines
  <2>2. hs \in Seq(Seq(Token))
    BY <1>2, <2>1, SeqDef
  <2>3. DOMAIN hs = 1..Len(r.headers) /\ DOMAIN hs = 1..Len(hs) /\ Len(hs) \in Nat
    BY <2>1, <2>2, LenProperties
  <2> QED
    BY <1>2, <2>2, <2>3
<1>4. part \in Seq(Seq(Token)) /\ Len(part) = n
  <2>1. part \in [1..n -> Seq(Token)]
    BY <1>1, <1>2
  <2>2. part \in Seq(Seq(Token))
    BY <1>2, <2>1, SeqDef
  <2>3. DOMAIN part = 1..n /\ DOMAIN part = 1..Len(part) /\ Len(part) \in Nat
    BY <2>1, <2>2, LenProperties
  <2> QED
    BY <1>2, <2>2, <2>3
<1>5. part = SubSeq(hs, 1, n)
  <2>1. PICK sub \in Seq(Seq(Token)) : sub = SubSeq(hs, 1, n) /\ Len(sub) = n /\ \A i \in 1..n : sub[i] = hs[i]
    <3>1. PICK q \in Seq(Seq(Token)) : q = hs /\ Len(q) = Len(r.headers)
      BY <1>3
    <3>2. n \in 0..Len(q)
      BY <3>1
    <3>3. /\ SubSeq(q, 1, n) \in Seq(Seq(Token)) /\ Len(SubSeq(q, 1, n)) = n
          /\ \A i \in 1..n : SubSeq(q, 1, n)[i] = q[i]
      BY <3>2, Split
    <3> HIDE DEF hs
    <3> QED
      BY <3>1, <3>3
  <2>2. \A i \in 1..n : part[i] = hs[i]
    BY <1>2 DEF HeaderLines
  <2> QED
    BY <1>4, <2>1, <2>2, SeqEqual
<1>6. FlattenSeq(part) = Run(hs)[n]
  BY <1>2, <1>3, <1>5, RunOfPrefix
<1>7. Run(hs)[n] \in Seq(Token)
  BY <1>2, <1>3, RunIsSequence
<1>8. r.line \o CRLF \in Seq(Token) /\ Len(r.line \o CRLF) = Len(r.line) + 2
  BY RequestType, LineEnded
<1>9. Preamble(r, n) = (r.line \o CRLF) \o Run(hs)[n]
  BY <1>6 DEF Preamble
<1>10. PICK x \in Seq(Token), y \in Seq(Token) : x = r.line \o CRLF /\ y = Run(hs)[n]
  BY <1>7, <1>8
<1>11. x \o y \in Seq(Token) /\ Len(x \o y) = Len(x) + Len(y)
  BY ConcatProperties
<1>12. Len(x) = Len(r.line) + 2 /\ Len(y) \in Nat /\ Len(r.line) \in Nat
  BY <1>8, <1>10, LenProperties, RequestType
<1> HIDE DEF hs
<1>13. Preamble(r, n) = x \o y /\ Len(y) = Len(Run(hs)[n])
  BY <1>9, <1>10
<1>14. Len(x \o y) = Len(r.line) + 2 + Len(y) /\ Len(x \o y) \in Nat
  BY <1>11, <1>12
<1> QED
  BY <1>3, <1>7, <1>8, <1>9, <1>11, <1>13, <1>14 DEF hs

LEMMA PreambleStart ==
  ASSUME NEW r \in Request
  PROVE  Preamble(r, 0) = r.line \o CRLF /\ Len(Preamble(r, 0)) = Len(r.line) + 2
<1>1. 0 \in 0..Len(r.headers)
  BY RequestType
<1>2. Run(HeaderLines(r))[0] = <<>> /\ r.line \o CRLF \in Seq(Token)
  BY <1>1, PreambleIs, RunIsSequence
<1>3. Preamble(r, 0) = (r.line \o CRLF) \o <<>>
  BY <1>1, <1>2, PreambleIs
<1>4. PICK x \in Seq(Token) : x = r.line \o CRLF
  BY <1>2
<1> QED
  BY <1>1, <1>3, <1>4, ConcatEmptySeq, PreambleIs

LEMMA PreambleGrows ==
  ASSUME NEW r \in Request, NEW j \in Nat, j < Len(r.headers)
  PROVE  /\ Len(Preamble(r, j + 1)) = Len(Preamble(r, j)) + Len(r.headers[j + 1]) + 2
         /\ j \in 0..Len(r.headers) /\ j + 1 \in 0..Len(r.headers) /\ j + 1 \in 1..Len(r.headers)
<1>1. j \in 0..Len(r.headers) /\ j + 1 \in 0..Len(r.headers) /\ j + 1 \in 1..Len(r.headers)
  BY RequestType
<1>2. /\ HeaderLines(r) \in Seq(Seq(Token)) /\ j < Len(HeaderLines(r))
      /\ Len(Preamble(r, j)) = Len(r.line) + 2 + Len(Run(HeaderLines(r))[j])
      /\ Len(Preamble(r, j + 1)) = Len(r.line) + 2 + Len(Run(HeaderLines(r))[j + 1])
  BY <1>1, PreambleIs
<1>3. /\ Len(Run(HeaderLines(r))[j + 1]) = Len(Run(HeaderLines(r))[j]) + Len(HeaderLines(r)[j + 1])
      /\ Run(HeaderLines(r))[j] \in Seq(Token)
  BY <1>2, RunAt
<1>4. HeaderLines(r)[j + 1] = r.headers[j + 1] \o CRLF
  BY <1>1 DEF HeaderLines
<1>5. r.headers[j + 1] \in Seq(Token)
  BY <1>1, RequestType
<1>6. Len(HeaderLines(r)[j + 1]) = Len(r.headers[j + 1]) + 2 /\ Len(r.headers[j + 1]) \in Nat
  BY <1>4, <1>5, LineEnded
<1>7. Len(Run(HeaderLines(r))[j]) \in Nat /\ Len(r.line) \in Nat
  BY <1>3, LenProperties, RequestType
<1>8. PICK a \in Nat, b \in Nat, l \in Nat :
        /\ a = Len(Run(HeaderLines(r))[j]) /\ b = Len(r.headers[j + 1]) /\ l = Len(r.line)
        /\ Len(Run(HeaderLines(r))[j + 1]) = a + (b + 2)
  BY <1>3, <1>6, <1>7
<1>9. l + 2 + (a + (b + 2)) = (l + 2 + a) + b + 2
  OBVIOUS
<1> QED
  BY <1>1, <1>2, <1>8, <1>9

(* The parts of an HTTP request.                                           *)
LEMMA HttpBytes ==
  ASSUME NEW r \in Request, r.proto = "http"
  PROVE  LET n == Len(r.headers) IN
         /\ Bytes(r) \in Seq(Token) /\ Len(Bytes(r)) = Len(Preamble(r, n)) + 2 + Len(r.body)
         /\ At(Bytes(r), 0, r.line \o CRLF)
         /\ \A j \in 0..n - 1 : At(Bytes(r), Len(Preamble(r, j)), r.headers[j + 1] \o CRLF)
         /\ At(Bytes(r), Len(Preamble(r, n)), <<>> \o CRLF)
         /\ At(Bytes(r), Len(Preamble(r, n)) + 2, r.body)
<1> DEFINE n == Len(r.headers)
<1>1. n \in Nat /\ n \in 0..n
  BY RequestType
<1> HIDE DEF n
<1>2. /\ HeaderLines(r) \in Seq(Seq(Token)) /\ Len(HeaderLines(r)) = n
      /\ r.line \o CRLF \in Seq(Token) /\ Len(r.line \o CRLF) = Len(r.line) + 2
      /\ Run(HeaderLines(r))[n] \in Seq(Token)
      /\ Preamble(r, n) = (r.line \o CRLF) \o Run(HeaderLines(r))[n]
      /\ Preamble(r, n) \in Seq(Token) /\ Len(Preamble(r, n)) \in Nat
  BY <1>1, PreambleIs DEF n
<1>3. PICK x \in Seq(Token), y \in Seq(Token), p \in Seq(Token), b \in Seq(Token) :
        x = r.line \o CRLF /\ y = Run(HeaderLines(r))[n] /\ p = Preamble(r, n) /\ b = r.body
  BY <1>2, RequestType
<1>4. /\ p \o CRLF \in Seq(Token) /\ Len(p \o CRLF) = Len(p) + 2 /\ Len(p) \in Nat
      /\ (p \o CRLF) \o b \in Seq(Token) /\ Len((p \o CRLF) \o b) = Len(p) + 2 + Len(b)
      /\ Len(b) \in Nat /\ Len(x) = Len(r.line) + 2 /\ Len(r.line) \in Nat
  <2>1. p \o CRLF \in Seq(Token) /\ Len(p \o CRLF) = Len(p) + 2 /\ Len(p) \in Nat
    BY LineEnded
  <2>2. PICK q \in Seq(Token) : q = p \o CRLF
    BY <2>1
  <2>3. q \o b \in Seq(Token) /\ Len(q \o b) = Len(q) + Len(b) /\ Len(b) \in Nat
    BY ConcatProperties, LenProperties
  <2>4. Len(x) = Len(r.line) + 2 /\ Len(r.line) \in Nat
    BY <1>2, <1>3, RequestType
  <2> QED
    BY <2>1, <2>2, <2>3, <2>4
<1>5. PICK all \in Seq(Token) : all = Bytes(r) /\ all = (p \o CRLF) \o b
  BY <1>3, <1>4 DEF Bytes, n
<1>6. At(all, 0, (p \o CRLF) \o b)
  BY <1>5, AtStart
<1>7. At(all, 0, p \o CRLF) /\ At(all, 0 + Len(p \o CRLF), b)
  BY <1>4, <1>6, AtConcat
<1>8. At(all, 0, p) /\ At(all, 0 + Len(p), CRLF)
  BY <1>7, CrLf, AtConcat
<1>9. p = x \o y
  BY <1>2, <1>3
<1>10. At(all, 0, x) /\ At(all, 0 + Len(x), y)
  BY <1>8, <1>9, AtConcat
<1>11. At(all, Len(p), <<>> \o CRLF) /\ At(all, Len(p) + 2, b)
  <2>1. 0 + Len(p) = Len(p) /\ 0 + (Len(p) + 2) = Len(p) + 2
    BY <1>4
  <2>2. <<>> \o CRLF = CRLF
    BY CrLf, ConcatEmptySeq
  <2> QED
    BY <1>4, <1>7, <1>8, <2>1, <2>2
<1>12. ASSUME NEW j \in 0..n - 1 PROVE At(all, Len(Preamble(r, j)), r.headers[j + 1] \o CRLF)
  <2>1. j \in Nat /\ j < n /\ j \in 0..n /\ j + 1 \in 1..n
    BY <1>1
  <2>2. /\ Run(HeaderLines(r))[j] \in Seq(Token)
        /\ HeaderLines(r)[j + 1] \in Seq(Token)
        /\ At(FlattenSeq(HeaderLines(r)), Len(Run(HeaderLines(r))[j]), HeaderLines(r)[j + 1])
        /\ FlattenSeq(HeaderLines(r)) = y
    BY <1>2, <1>3, <2>1, RunAt, RunIsSequence
  <2>3. HeaderLines(r)[j + 1] = r.headers[j + 1] \o CRLF
    BY <2>1 DEF HeaderLines, n
  <2>4. Len(Preamble(r, j)) = Len(r.line) + 2 + Len(Run(HeaderLines(r))[j])
    BY <2>1, PreambleIs DEF n
  <2>5. PICK m \in Nat, h \in Seq(Token) : m = Len(Run(HeaderLines(r))[j]) /\ h = r.headers[j + 1] \o CRLF
    BY <2>2, <2>3, LenProperties
  <2>6. At(y, m, h)
    BY <2>2, <2>3, <2>5
  <2>7. At(all, (0 + Len(x)) + m, h)
    BY <1>10, <2>6, AtTransitive
  <2>8. (0 + Len(x)) + m = Len(Preamble(r, j))
    BY <1>4, <2>4, <2>5
  <2> QED
    BY <2>5, <2>7, <2>8
<1> QED
  BY <1>3, <1>4, <1>5, <1>10, <1>11, <1>12 DEF n

LEMMA BytesType ==
  ASSUME NEW r \in Request
  PROVE  Bytes(r) \in Seq(Token) /\ Len(Bytes(r)) \in Nat
<1>1. CASE r.proto = "http"
  BY <1>1, HttpBytes, LenProperties
<1>2. CASE r.proto # "http"
  <2>1. Bytes(r) = r.line \o r.body
    BY <1>2 DEF Bytes
  <2>2. r.line \o r.body \in Seq(Token)
    BY RequestType, ConcatProperties
  <2> QED
    BY <2>1, <2>2, LenProperties
<1> QED
  BY <1>1, <1>2

Pieces(s) == [i \in DOMAIN s |-> Bytes(s[i])]

LEMMA PiecesType ==
  ASSUME NEW s \in Seq(Request)
  PROVE  /\ Pieces(s) \in Seq(Seq(Token)) /\ Len(Pieces(s)) = Len(s) /\ Len(s) \in Nat
         /\ \A i \in 1..Len(s) : Pieces(s)[i] = Bytes(s[i]) /\ s[i] \in Request
         /\ Stream(s) = FlattenSeq(Pieces(s)) /\ Stream(s) \in Seq(Token)
<1>1. Len(s) \in Nat /\ DOMAIN s = 1..Len(s) /\ \A i \in 1..Len(s) : s[i] \in Request
  BY LenProperties, ElementOfSeq
<1>2. \A i \in 1..Len(s) : Bytes(s[i]) \in Seq(Token)
  BY <1>1, BytesType
<1>3. Pieces(s) \in [1..Len(s) -> Seq(Token)]
  BY <1>1, <1>2 DEF Pieces
<1>4. Pieces(s) \in Seq(Seq(Token))
  BY <1>1, <1>3, SeqDef
<1>5. DOMAIN Pieces(s) = 1..Len(s) /\ DOMAIN Pieces(s) = 1..Len(Pieces(s)) /\ Len(Pieces(s)) \in Nat
  BY <1>3, <1>4, LenProperties
<1>6. Len(Pieces(s)) = Len(s)
  BY <1>1, <1>5
<1>7. \A i \in 1..Len(s) : Pieces(s)[i] = Bytes(s[i])
  BY <1>1 DEF Pieces
<1>8. Stream(s) = FlattenSeq(Pieces(s)) /\ FlattenSeq(Pieces(s)) \in Seq(Token)
  BY <1>4, FlattenType DEF Stream, Pieces
<1> QED
  BY <1>1, <1>4, <1>6, <1>7, <1>8

LEMMA EndsIs ==
  ASSUME NEW s \in Seq(Request), NEW k \in 0..Len(s)
  PROVE  /\ Run(Pieces(s))[k] \in Seq(Token) /\ Ends(s, k) = Len(Run(Pieces(s))[k]) /\ Ends(s, k) \in Nat
         /\ Ends(s, k) <= Len(Stream(s))
<1>1. Pieces(s) \in Seq(Seq(Token)) /\ Len(Pieces(s)) = Len(s) /\ Len(s) \in Nat /\ k \in 0..Len(Pieces(s))
  BY PiecesType
<1>2. PICK t : t = SubSeq(s, 1, k)
  OBVIOUS
<1>3. t \in Seq(Request) /\ Len(t) = k /\ \A i \in 1..k : t[i] = s[i]
  BY <1>2, Split
<1>4. PICK u : u = SubSeq(Pieces(s), 1, k)
  OBVIOUS
<1>5. u \in Seq(Seq(Token)) /\ Len(u) = k /\ \A i \in 1..k : u[i] = Pieces(s)[i]
  BY <1>1, <1>4, Split
<1>6. \A i \in 1..k : Pieces(t)[i] = u[i]
  <2>1. \A i \in 1..k : i \in 1..Len(s)
    BY <1>1
  <2> QED
    BY <1>3, <1>5, <2>1, PiecesType
<1>7. Pieces(t) = u
  BY <1>3, <1>5, <1>6, PiecesType, SeqEqual
<1>8. Stream(t) = Run(Pieces(s))[k]
  <2>1. FlattenSeq(u) = Run(Pieces(s))[k]
    BY <1>1, <1>4, RunOfPrefix
  <2>2. Stream(t) = FlattenSeq(Pieces(t))
    BY <1>3, PiecesType
  <2> QED
    BY <1>7, <2>1, <2>2
<1>9. Run(Pieces(s))[k] \in Seq(Token) /\ IsPrefix(Run(Pieces(s))[k], Stream(s))
  BY <1>1, PiecesType, RunIsSequence, RunIsPrefix
<1>10. Len(Run(Pieces(s))[k]) <= Len(Stream(s)) /\ Len(Run(Pieces(s))[k]) \in Nat
  BY <1>9, PiecesType, PrefixIs, LenProperties
<1> QED
  BY <1>2, <1>8, <1>9, <1>10 DEF Ends

LEMMA EndsGrow ==
  ASSUME NEW s \in Seq(Request), NEW k \in Nat, k < Len(s)
  PROVE  /\ s[k + 1] \in Request /\ Ends(s, k) \in Nat /\ Ends(s, k + 1) \in Nat
         /\ Ends(s, k + 1) = Ends(s, k) + Len(Bytes(s[k + 1])) /\ Ends(s, k + 1) <= Len(Stream(s))
         /\ At(Stream(s), Ends(s, k), Bytes(s[k + 1]))
<1>1. Pieces(s) \in Seq(Seq(Token)) /\ Len(Pieces(s)) = Len(s) /\ Len(s) \in Nat
  BY PiecesType
<1>2. k \in 0..Len(s) /\ k + 1 \in 0..Len(s) /\ k + 1 \in 1..Len(s)
  BY <1>1
<1>3. /\ Len(Run(Pieces(s))[k + 1]) = Len(Run(Pieces(s))[k]) + Len(Pieces(s)[k + 1])
      /\ At(FlattenSeq(Pieces(s)), Len(Run(Pieces(s))[k]), Pieces(s)[k + 1])
  BY <1>1, RunAt
<1>4. Pieces(s)[k + 1] = Bytes(s[k + 1]) /\ s[k + 1] \in Request /\ Stream(s) = FlattenSeq(Pieces(s))
  BY <1>2, PiecesType
<1> QED
  BY <1>2, <1>3, <1>4, EndsIs

LEMMA EndsEdges ==
  ASSUME NEW s \in Seq(Request)
  PROVE  Ends(s, 0) = 0 /\ Ends(s, Len(s)) = Len(Stream(s))
<1>1. Pieces(s) \in Seq(Seq(Token)) /\ Len(Pieces(s)) = Len(s) /\ Len(s) \in Nat
  BY PiecesType
<1>2. 0 \in 0..Len(s) /\ Len(s) \in 0..Len(s)
  BY <1>1
<1>3. Run(Pieces(s))[0] = <<>> /\ Stream(s) = Run(Pieces(s))[Len(s)]
  BY <1>1, RunIsSequence, PiecesType
<1>4. Len(<<>>) = 0
  OBVIOUS
<1> QED
  BY <1>2, <1>3, <1>4, EndsIs

(* The parts of a request that is a line.                                  *)
LEMMA LineBytes ==
  ASSUME NEW r \in Request, r.proto # "http"
  PROVE  /\ At(Bytes(r), 0, r.line) /\ At(Bytes(r), Len(r.line), r.body)
         /\ Bytes(r) \in Seq(Token) /\ Len(Bytes(r)) = Len(r.line) + Len(r.body)
<1>1. PICK l \in Seq(Token), e \in Seq(Token) : l = r.line /\ e = r.body
  BY RequestType
<1>2. Bytes(r) = l \o e
  BY <1>1 DEF Bytes
<1>3. l \o e \in Seq(Token) /\ Len(l \o e) = Len(l) + Len(e) /\ Len(l) \in Nat
  BY ConcatProperties, LenProperties
<1>4. PICK b \in Seq(Token) : b = l \o e
  BY <1>3
<1>5. At(b, 0, l \o e)
  BY <1>4, AtStart
<1>6. At(b, 0, l) /\ At(b, 0 + Len(l), e)
  BY <1>5, AtConcat
<1>7. 0 + Len(l) = Len(l)
  BY <1>3
<1> QED
  BY <1>1, <1>2, <1>3, <1>4, <1>6, <1>7

LEMMA EndsMonotone ==
  ASSUME NEW s \in Seq(Request), NEW i \in 0..Len(s), NEW j \in 0..Len(s), i <= j
  PROVE  Ends(s, i) <= Ends(s, j)
<1> DEFINE P == {d \in Nat : i + d <= Len(s) => Ends(s, i) <= Ends(s, i + d)}
<1>1. Len(s) \in Nat /\ i \in Nat /\ j \in Nat /\ i <= Len(s) /\ \A k \in 0..Len(s) : Ends(s, k) \in Nat
  BY LenProperties, EndsIs
<1>2. 0 \in P
  BY <1>1
<1>3. ASSUME NEW d \in Nat, d \in P PROVE d + 1 \in P
  <2>1. SUFFICES ASSUME i + (d + 1) <= Len(s) PROVE Ends(s, i) <= Ends(s, i + (d + 1))
    OBVIOUS
  <2>2. PICK k \in Nat : k = i + d
    BY <1>1
  <2>3. k < Len(s) /\ k \in 0..Len(s) /\ k + 1 \in 0..Len(s) /\ i + (d + 1) = k + 1 /\ i + d <= Len(s)
    BY <1>1, <2>1, <2>2
  <2>4. Ends(s, i) <= Ends(s, k)
    BY <1>3, <2>2, <2>3
  <2>5. s[k + 1] \in Request /\ Ends(s, k + 1) = Ends(s, k) + Len(Bytes(s[k + 1]))
    BY <2>3, EndsGrow
  <2>6. Len(Bytes(s[k + 1])) \in Nat
    BY <2>5, BytesType
  <2>7. Ends(s, i) \in Nat /\ Ends(s, k) \in Nat
    BY <1>1, <2>3
  <2>8. Ends(s, i) <= Ends(s, k + 1)
    BY <2>4, <2>5, <2>6, <2>7
  <2> QED
    BY <2>3, <2>8
<1>4. \A d \in Nat : d \in P
  <2> HIDE DEF P
  <2> QED
    BY <1>2, <1>3, Induction
<1>5. PICK d \in Nat : d = j - i
  BY <1>1
<1>6. i + d = j /\ i + d <= Len(s)
  BY <1>1, <1>5
<1> QED
  BY <1>4, <1>6

(* A request has at least one byte.                                        *)
LEMMA EndsRise ==
  ASSUME NEW s \in Scripts, NEW k \in Nat, k < Len(s)
  PROVE  Ends(s, k) < Ends(s, k + 1) /\ Ends(s, k) \in Nat /\ Ends(s, k + 1) \in Nat
<1>1. s \in Seq(Request) /\ DOMAIN s = 1..Len(s) /\ Len(s) \in Nat
  BY ScriptAssumption, LenProperties
<1>2. k + 1 \in 1..Len(s)
  BY <1>1
<1>3. PICK b \in Seq(Token) : b = Bytes(s[k + 1]) /\ b # <<>>
  <2>1. s[k + 1] \in Request
    BY <1>1, <1>2, ElementOfSeq
  <2>2. Bytes(s[k + 1]) \in Seq(Token)
    BY <2>1, BytesType
  <2> QED
    BY <1>1, <1>2, <2>2, ScriptAssumption
<1>4. Len(b) \in Nat /\ Len(b) # 0
  BY <1>3, EmptySeq, LenProperties
<1>5. Ends(s, k + 1) = Ends(s, k) + Len(b) /\ Ends(s, k) \in Nat /\ Ends(s, k + 1) \in Nat
  BY <1>1, <1>3, EndsGrow
<1> QED
  BY <1>4, <1>5

----------------------------------------------------------------------------
(* The least and the greatest.                                             *)
LEMMA LeastIs ==
  ASSUME NEW S, S \subseteq Int, NEW x \in S, \A y \in S : x <= y
  PROVE  Min(S) = x
<1>1. PICK m \in S : m = Min(S) /\ \A y \in S : m <= y
  BY DEF Min
<1>2. m <= x /\ x <= m /\ m \in Int /\ x \in Int
  BY <1>1
<1> QED
  BY <1>1, <1>2

LEMMA GreatestIs ==
  ASSUME NEW S, S \subseteq Int, NEW x \in S, \A y \in S : y <= x
  PROVE  Max(S) = x
<1>1. PICK m \in S : m = Max(S) /\ \A y \in S : y <= m
  BY DEF Max
<1>2. m <= x /\ x <= m /\ m \in Int /\ x \in Int
  BY <1>1
<1> QED
  BY <1>1, <1>2

LEMMA LeastExists ==
  ASSUME NEW S, S \subseteq Nat, S # {}
  PROVE  Min(S) \in S /\ \A y \in S : Min(S) <= y
<1> DEFINE P == {n \in Nat : \A y \in S : n <= y}
<1>1. SUFFICES ASSUME ~\E x \in S : \A y \in S : x <= y PROVE FALSE
  <2>1. ASSUME NEW x \in S, \A y \in S : x <= y PROVE Min(S) = x
    <3>1. S \subseteq Int
      OBVIOUS
    <3> QED
      BY <2>1, <3>1, LeastIs
  <2> QED
    BY <2>1
<1>2. 0 \in P
  OBVIOUS
<1>3. ASSUME NEW n \in Nat, n \in P PROVE n + 1 \in P
  <2>1. \A y \in S : n <= y
    BY <1>3
  <2>2. n \notin S
    BY <1>1, <2>1
  <2>3. \A y \in S : n + 1 <= y
    BY <2>1, <2>2
  <2> QED
    BY <2>3
<1>4. \A n \in Nat : n \in P
  <2> HIDE DEF P
  <2> QED
    BY <1>2, <1>3, Induction
<1>5. PICK y \in S : TRUE
  OBVIOUS
<1>6. y + 1 \in P /\ y \in Nat
  BY <1>4
<1> QED
  BY <1>5, <1>6

LEMMA GreatestExists ==
  ASSUME NEW S, NEW n \in Nat, S \subseteq 0..n, S # {}
  PROVE  Max(S) \in S /\ \A y \in S : y <= Max(S)
<1> DEFINE P == {d \in Nat : d <= n => \A y \in S : y <= n - d}
<1>1. SUFFICES ASSUME ~\E x \in S : \A y \in S : y <= x PROVE FALSE
  <2>1. ASSUME NEW x \in S, \A y \in S : y <= x PROVE Max(S) = x
    <3>1. S \subseteq Int
      OBVIOUS
    <3> QED
      BY <2>1, <3>1, GreatestIs
  <2> QED
    BY <2>1
<1>2. 0 \in P
  OBVIOUS
<1>3. ASSUME NEW d \in Nat, d \in P PROVE d + 1 \in P
  <2>1. SUFFICES ASSUME d + 1 <= n PROVE \A y \in S : y <= n - (d + 1)
    OBVIOUS
  <2>2. \A y \in S : y <= n - d
    BY <1>3, <2>1
  <2>3. n - d \notin S
    BY <1>1, <2>2
  <2>4. \A y \in S : y \in Nat /\ y # n - d
    BY <2>3
  <2> QED
    BY <2>2, <2>4
<1>4. \A d \in Nat : d \in P
  <2> HIDE DEF P
  <2> QED
    BY <1>2, <1>3, Induction
<1>5. n \in P
  BY <1>4
<1>6. \A y \in S : y <= 0 /\ y \in Nat
  BY <1>5
<1>7. PICK x \in S : TRUE
  OBVIOUS
<1>8. x = 0 /\ \A y \in S : y <= x
  BY <1>6
<1> QED
  BY <1>1, <1>8

----------------------------------------------------------------------------
(* The requests that have wholly arrived with the first n bytes.           *)
Whole(s, n) == Max({i \in 0..Len(s) : Ends(s, i) <= n})

LEMMA WholeIs ==
  ASSUME NEW s \in Seq(Request), NEW n \in Nat
  PROVE  /\ Whole(s, n) \in 0..Len(s)
         /\ \A k \in 0..Len(s) : k <= Whole(s, n) <=> Ends(s, k) <= n
<1> DEFINE S == {i \in 0..Len(s) : Ends(s, i) <= n}
<1>1. Len(s) \in Nat /\ 0 \in S /\ S \subseteq 0..Len(s)
  BY EndsEdges, LenProperties
<1>2. PICK m : m = Whole(s, n)
  OBVIOUS
<1>3. m \in S /\ \A y \in S : y <= m
  <2>1. m = Max(S)
    BY <1>2 DEF Whole
  <2> HIDE DEF S
  <2> QED
    BY <1>1, <2>1, GreatestExists
<1>4. m \in 0..Len(s) /\ Ends(s, m) <= n
  BY <1>3
<1>5. ASSUME NEW k \in 0..Len(s) PROVE k <= m <=> Ends(s, k) <= n
  <2>1. Ends(s, k) \in Nat /\ Ends(s, m) \in Nat
    BY <1>4, EndsIs
  <2>2. ASSUME k <= m PROVE Ends(s, k) <= n
    <3>1. Ends(s, k) <= Ends(s, m)
      BY <1>4, <2>2, EndsMonotone
    <3> QED
      BY <1>4, <2>1, <3>1
  <2>3. ASSUME Ends(s, k) <= n PROVE k <= m
    BY <1>3, <2>3
  <2> QED
    BY <2>2, <2>3
<1> QED
  BY <1>2, <1>4, <1>5

----------------------------------------------------------------------------
(* The buffer and the wire.                                                *)

(* What is in the buffer, b, and on the wire, w, is the rest of the stream *)
(* of s, from the Place on.                                                *)
Place(s, b, w) == Len(Stream(s)) - Len(w) - Len(b)

Placed(s, b, w) ==
  /\ b \in Seq(Token) /\ w \in Seq(Token)
  /\ At(Stream(s), Place(s, b, w), b)
  /\ At(Stream(s), Len(Stream(s)) - Len(w), w)

LEMMA AtJoin ==
  ASSUME NEW T, NEW s \in Seq(T), NEW t \in Seq(T), NEW u \in Seq(T), NEW p,
         At(s, p, t), At(s, p + Len(t), u)
  PROVE  At(s, p, t \o u)
<1>1. /\ Len(s) \in Nat /\ Len(t) \in Nat /\ Len(u) \in Nat /\ p \in Nat
      /\ Len(t \o u) = Len(t) + Len(u)
      /\ \A i \in 1..Len(t) + Len(u) : (t \o u)[i] = IF i <= Len(t) THEN t[i] ELSE u[i - Len(t)]
  BY LenProperties, ConcatProperties DEF At
<1>2. p + (Len(t) + Len(u)) <= Len(s)
  <2>1. (p + Len(t)) + Len(u) <= Len(s)
    BY DEF At
  <2> QED
    BY <1>1, <2>1
<1>3. ASSUME NEW i \in 1..Len(t) + Len(u) PROVE s[p + i] = (t \o u)[i]
  <2>1. CASE i <= Len(t)
    <3>1. i \in 1..Len(t)
      BY <1>1, <2>1
    <3>2. s[p + i] = t[i]
      BY <3>1 DEF At
    <3> QED
      BY <1>1, <2>1, <3>2
  <2>2. CASE ~(i <= Len(t))
    <3>1. PICK j \in 1..Len(u) : j = i - Len(t)
      BY <1>1, <2>2
    <3>2. s[(p + Len(t)) + j] = u[j]
      BY DEF At
    <3>3. (p + Len(t)) + j = p + i
      BY <1>1, <3>1
    <3> QED
      BY <1>1, <2>2, <3>1, <3>2, <3>3
  <2> QED
    BY <2>1, <2>2
<1> QED
  BY <1>1, <1>2, <1>3 DEF At

LEMMA PlacedIs ==
  ASSUME NEW s \in Seq(Request), NEW b, NEW w, Placed(s, b, w)
  PROVE  /\ Stream(s) \in Seq(Token) /\ b \in Seq(Token) /\ w \in Seq(Token)
         /\ Len(Stream(s)) \in Nat /\ Len(b) \in Nat /\ Len(w) \in Nat /\ Place(s, b, w) \in Nat
         /\ Place(s, b, w) + Len(b) = Len(Stream(s)) - Len(w)
         /\ \A i \in 1..Len(b) : b[i] = Stream(s)[Place(s, b, w) + i]
<1>1. Stream(s) \in Seq(Token) /\ b \in Seq(Token) /\ w \in Seq(Token)
  BY PiecesType DEF Placed
<1>2. Len(Stream(s)) \in Nat /\ Len(b) \in Nat /\ Len(w) \in Nat
  BY <1>1, LenProperties
<1>3. Place(s, b, w) \in Nat /\ \A i \in 1..Len(b) : b[i] = Stream(s)[Place(s, b, w) + i]
  BY DEF Placed, At
<1>4. Place(s, b, w) + Len(b) = Len(Stream(s)) - Len(w)
  BY <1>2 DEF Place
<1> QED
  BY <1>1, <1>2, <1>3, <1>4

LEMMA Halves ==
  ASSUME NEW s \in Seq(Token), NEW n \in 0..Len(s)
  PROVE  \E x \in Seq(Token), y \in Seq(Token) :
           /\ x = SubSeq(s, 1, n) /\ y = SubSeq(s, n + 1, Len(s)) /\ s = x \o y
           /\ Len(x) = n /\ Len(y) = Len(s) - n /\ \A i \in 1..n : x[i] = s[i]
<1>1. PICK x \in Seq(Token), y \in Seq(Token) : x = SubSeq(s, 1, n) /\ y = SubSeq(s, n + 1, Len(s))
  BY Split
<1>2. Len(x) = n /\ Len(y) = Len(s) - n /\ s = x \o y /\ \A i \in 1..n : x[i] = s[i]
  BY <1>1, Split
<1> QED
  BY <1>1, <1>2

(* A step that takes n bytes from the buffer.                              *)
LEMMA Consume ==
  ASSUME NEW s \in Seq(Request), NEW b, NEW w, Placed(s, b, w), NEW n \in 0..Len(b)
  PROVE  LET rest == SubSeq(b, n + 1, Len(b)) IN
         /\ Placed(s, rest, w) /\ Len(rest) = Len(b) - n /\ Place(s, rest, w) = Place(s, b, w) + n
<1>1. /\ Stream(s) \in Seq(Token) /\ b \in Seq(Token) /\ w \in Seq(Token)
      /\ Len(Stream(s)) \in Nat /\ Len(b) \in Nat /\ Len(w) \in Nat /\ Place(s, b, w) \in Nat
  BY PlacedIs
<1>2. PICK x \in Seq(Token), rest \in Seq(Token) :
        /\ x = SubSeq(b, 1, n) /\ rest = SubSeq(b, n + 1, Len(b)) /\ b = x \o rest
        /\ Len(x) = n /\ Len(rest) = Len(b) - n
  BY <1>1, Halves
<1>3. At(Stream(s), Place(s, b, w), x \o rest)
  BY <1>2 DEF Placed
<1>4. At(Stream(s), Place(s, b, w) + n, rest)
  BY <1>1, <1>2, <1>3, AtConcat
<1>5. Place(s, rest, w) = Place(s, b, w) + n
  <2>1. PICK l \in Nat, m \in Nat, k \in Nat : l = Len(Stream(s)) /\ m = Len(w) /\ k = Len(b)
    BY <1>1
  <2>2. Place(s, rest, w) = l - m - (k - n) /\ Place(s, b, w) = l - m - k
    BY <1>2, <2>1 DEF Place
  <2>3. l - m - (k - n) = (l - m - k) + n
    OBVIOUS
  <2> QED
    BY <2>2, <2>3
<1>6. Placed(s, rest, w)
  BY <1>4, <1>5 DEF Placed
<1> QED
  BY <1>2, <1>5, <1>6

(* A recv of n bytes.                                                      *)
LEMMA Receive ==
  ASSUME NEW s \in Seq(Request), NEW b, NEW w, Placed(s, b, w), NEW n \in 1..Len(w)
  PROVE  LET more == b \o SubSeq(w, 1, n)  rest == SubSeq(w, n + 1, Len(w)) IN
         /\ Placed(s, more, rest) /\ Len(more) = Len(b) + n /\ Len(rest) = Len(w) - n
         /\ Place(s, more, rest) = Place(s, b, w)
<1>1. /\ Stream(s) \in Seq(Token) /\ b \in Seq(Token) /\ w \in Seq(Token)
      /\ Len(Stream(s)) \in Nat /\ Len(b) \in Nat /\ Len(w) \in Nat /\ Place(s, b, w) \in Nat
      /\ Place(s, b, w) + Len(b) = Len(Stream(s)) - Len(w)
  BY PlacedIs
<1>2. n \in 0..Len(w)
  BY <1>1
<1>3. PICK x \in Seq(Token), rest \in Seq(Token) :
        /\ x = SubSeq(w, 1, n) /\ rest = SubSeq(w, n + 1, Len(w)) /\ w = x \o rest
        /\ Len(x) = n /\ Len(rest) = Len(w) - n
  BY <1>1, <1>2, Halves
<1>4. PICK q : q = Len(Stream(s)) - Len(w)
  OBVIOUS
<1>5. At(Stream(s), q, x \o rest)
  BY <1>3, <1>4 DEF Placed
<1>6. At(Stream(s), q, x) /\ At(Stream(s), q + n, rest)
  BY <1>1, <1>3, <1>5, AtConcat
<1>7. At(Stream(s), Place(s, b, w), b) /\ Place(s, b, w) + Len(b) = q
  BY <1>1, <1>4 DEF Placed
<1>8. PICK more \in Seq(Token) : more = b \o x /\ Len(more) = Len(b) + n
  <2>1. b \o x \in Seq(Token) /\ Len(b \o x) = Len(b) + Len(x)
    BY <1>1, ConcatProperties
  <2> QED
    BY <1>3, <2>1
<1>9. At(Stream(s), Place(s, b, w), more)
  BY <1>1, <1>6, <1>7, <1>8, AtJoin
<1>10. Place(s, more, rest) = Place(s, b, w) /\ Len(Stream(s)) - Len(rest) = q + n
  <2>1. PICK l \in Nat, m \in Nat, k \in Nat : l = Len(Stream(s)) /\ m = Len(w) /\ k = Len(b)
    BY <1>1
  <2>2. Place(s, more, rest) = l - (m - n) - (k + n) /\ Place(s, b, w) = l - m - k
    BY <1>3, <1>8, <2>1 DEF Place
  <2>3. l - (m - n) - (k + n) = l - m - k /\ l - (m - n) = (l - m) + n
    OBVIOUS
  <2> QED
    BY <1>3, <1>4, <2>1, <2>2, <2>3
<1>11. Placed(s, more, rest)
  BY <1>6, <1>9, <1>10 DEF Placed
<1> QED
  BY <1>3, <1>8, <1>10, <1>11

(* The buffer begins with what stands at its place in the stream.          *)
LEMMA BufferHolds ==
  ASSUME NEW s \in Seq(Request), NEW b, NEW w, Placed(s, b, w),
         NEW t \in Seq(Token), At(Stream(s), Place(s, b, w), t)
  PROVE  /\ \A i \in 1..Len(t) : i <= Len(b) => b[i] = t[i]
         /\ Place(s, b, w) + Len(t) <= Len(Stream(s))
<1>1. Len(b) \in Nat /\ \A i \in 1..Len(b) : b[i] = Stream(s)[Place(s, b, w) + i]
  BY PlacedIs
<1>2. /\ Len(t) \in Nat /\ Place(s, b, w) + Len(t) <= Len(Stream(s))
      /\ \A i \in 1..Len(t) : Stream(s)[Place(s, b, w) + i] = t[i]
  BY LenProperties DEF At
<1>3. \A i \in 1..Len(t) : i <= Len(b) => i \in 1..Len(b)
  BY <1>1, <1>2
<1> QED
  BY <1>1, <1>2, <1>3

LEMMA TwoBytes ==
  ASSUME NEW b \in Seq(Token), NEW i \in 1..(Len(b) - 1)
  PROVE  SubSeq(b, i, i + 1) = CRLF <=> b[i] = "CR" /\ b[i + 1] = "LF"
<1>1. Len(b) \in Nat /\ i \in 1..Len(b) /\ i + 1 \in 1..Len(b) /\ \A j \in i..(i + 1) : j \in 1..Len(b)
  BY LenProperties
<1>2. \A j \in i..(i + 1) : b[j] \in Token
  BY <1>1, ElementOfSeq
<1>3. PICK t : t = SubSeq(b, i, i + 1)
  OBVIOUS
<1>4. t \in Seq(Token) /\ Len(t) = 2 /\ \A j \in 1..2 : t[j] = b[i + j - 1]
  <2>1. /\ t \in Seq(Token) /\ Len(t) = (IF i <= i + 1 THEN (i + 1) - i + 1 ELSE 0)
        /\ \A j \in 1..(i + 1) - i + 1 : t[j] = b[i + j - 1]
    BY <1>1, <1>2, <1>3, SubSeqProperties
  <2>2. i <= i + 1 /\ (i + 1) - i + 1 = 2
    OBVIOUS
  <2> QED
    BY <2>1, <2>2
<1>5. t[1] = b[i] /\ t[2] = b[i + 1]
  <2>1. 1 \in 1..2 /\ 2 \in 1..2 /\ i + 1 - 1 = i /\ i + 2 - 1 = i + 1
    OBVIOUS
  <2> QED
    BY <1>4, <2>1
<1>6. t = CRLF <=> t[1] = "CR" /\ t[2] = "LF"
  <2>1. ASSUME t[1] = "CR", t[2] = "LF" PROVE t = CRLF
    <3>1. \A j \in 1..2 : t[j] = CRLF[j]
      <4>1. \A j \in 1..2 : j = 1 \/ j = 2
        OBVIOUS
      <4> QED
        BY <2>1, <4>1, CrLf
    <3> QED
      BY <1>4, <3>1, CrLf, SeqEqual
  <2> QED
    BY <2>1, CrLf
<1> QED
  BY <1>3, <1>5, <1>6

(* extract_line finds the line that stands at the buffer's place when its  *)
(* end is in the buffer, and only then.                                    *)
LEMMA LineFound ==
  ASSUME script \in Seq(Request), Placed(script, read_buffer_, wire), NEW l \in Seq(Token), OneLine(l),
         At(Stream(script), Place(script, read_buffer_, wire), l \o CRLF)
  PROVE  /\ HasLine <=> Len(l) + 2 <= Len(read_buffer_)
         /\ HasLine => Line = l /\ Min(LineEnds) + 2 = (Len(l) + 2) + 1
<1>1. PICK b \in Seq(Token) : b = read_buffer_
  BY DEF Placed
<1>2. PICK n \in Nat, m \in Nat : n = Len(l) /\ m = Len(b)
  BY LenProperties
<1>3. PICK t \in Seq(Token) : t = l \o CRLF /\ Len(t) = n + 2
  BY <1>2, LineEnded
<1>4. (\A i \in 1..n : t[i] = l[i]) /\ t[n + 1] = "CR" /\ t[n + 2] = "LF"
  <2>1. At(t, 0, l \o CRLF)
    BY <1>3, AtStart
  <2>2. /\ \A i \in 1..n : t[0 + i] = l[i]
        /\ t[0 + n + 1] = "CR" /\ t[0 + n + 2] = "LF"
    BY <1>2, <2>1, LineAt
  <2>3. 0 + n + 1 = n + 1 /\ 0 + n + 2 = n + 2 /\ \A i \in 1..n : 0 + i = i
    OBVIOUS
  <2> QED
    BY <2>2, <2>3
<1>5. \A i \in 1..n + 2 : i <= m => b[i] = t[i]
  <2>1. Placed(script, b, wire) /\ At(Stream(script), Place(script, b, wire), t)
    BY <1>1, <1>3
  <2>2. \A i \in 1..Len(t) : i <= Len(b) => b[i] = t[i]
    BY <2>1, BufferHolds
  <2> QED
    BY <1>2, <1>3, <2>2
<1>6. /\ \A i \in 1..n : i <= m => b[i] = l[i]
      /\ n + 1 <= m => b[n + 1] = "CR"
      /\ n + 2 <= m => b[n + 2] = "LF"
  <2>1. n + 1 \in 1..n + 2 /\ n + 2 \in 1..n + 2 /\ \A i \in 1..n : i \in 1..n + 2
    OBVIOUS
  <2> QED
    BY <1>4, <1>5, <2>1
<1>7. \A i \in 1..(m - 1) : i \in LineEnds <=> b[i] = "CR" /\ b[i + 1] = "LF"
  BY <1>1, <1>2, TwoBytes DEF LineEnds
<1>8. LineEnds \subseteq 1..(m - 1)
  BY <1>1, <1>2 DEF LineEnds
<1>9. ASSUME NEW i \in LineEnds PROVE i \in Int /\ n + 1 <= i /\ i <= m - 1
  <2>1. i \in 1..(m - 1) /\ b[i] = "CR" /\ b[i + 1] = "LF"
    BY <1>7, <1>8
  <2>2. CASE i < n
    <3>1. i \in 1..n /\ i + 1 \in 1..n /\ i <= m /\ i + 1 <= m /\ i \in 1..(n - 1)
      BY <2>1, <2>2
    <3>2. l[i] = "CR" /\ l[i + 1] = "LF"
      BY <1>6, <2>1, <3>1
    <3> QED
      BY <1>2, <3>1, <3>2 DEF OneLine
  <2>3. CASE i = n
    <3>1. n + 1 <= m
      BY <2>1, <2>3
    <3> QED
      BY <1>6, <2>1, <2>3, <3>1
  <2>4. CASE n < i
    BY <2>1, <2>4
  <2> QED
    BY <2>1, <2>2, <2>3, <2>4
<1>10. n + 2 <= m => n + 1 \in LineEnds
  <2>1. SUFFICES ASSUME n + 2 <= m PROVE n + 1 \in LineEnds
    OBVIOUS
  <2>2. n + 1 \in 1..(m - 1) /\ n + 1 <= m /\ (n + 1) + 1 = n + 2
    BY <2>1
  <2> QED
    BY <1>6, <1>7, <2>1, <2>2
<1>11. HasLine <=> n + 2 <= m
  <2>1. ASSUME NEW i \in LineEnds PROVE n + 2 <= m
    BY <1>9
  <2> QED
    BY <1>10, <2>1 DEF HasLine
<1>12. ASSUME HasLine PROVE Min(LineEnds) = n + 1 /\ Line = l
  <2>1. n + 1 \in LineEnds /\ LineEnds \subseteq Int /\ \A i \in LineEnds : n + 1 <= i
    BY <1>8, <1>9, <1>10, <1>11, <1>12
  <2>2. Min(LineEnds) = n + 1
    BY <2>1, LeastIs
  <2>3. n \in 0..m /\ (n + 1) - 1 = n /\ \A i \in 1..n : i <= m
    BY <1>11, <1>12
  <2>4. Line = SubSeq(b, 1, n)
    BY <1>1, <2>2, <2>3 DEF Line
  <2>5. PICK x \in Seq(Token) : x = SubSeq(b, 1, n) /\ Len(x) = n /\ \A i \in 1..n : x[i] = b[i]
    <3>1. n \in 0..Len(b)
      BY <1>2, <2>3
    <3> QED
      BY <3>1, Halves
  <2>6. \A i \in 1..n : x[i] = l[i]
    BY <1>6, <2>3, <2>5
  <2>7. x = l
    BY <1>2, <2>5, <2>6, SeqEqual
  <2> QED
    BY <2>2, <2>4, <2>5, <2>7
<1>13. (n + 1) + 2 = (n + 2) + 1
  OBVIOUS
<1> QED
  BY <1>1, <1>2, <1>11, <1>12, <1>13

(* The line protocol: up to the first LF, less a CR before it.             *)
LEMMA FeedFound ==
  ASSUME script \in Seq(Request), Placed(script, read_buffer_, wire), NEW r \in Request, IsLine(r),
         At(Stream(script), Place(script, read_buffer_, wire), Bytes(r))
  PROVE  /\ Feeds # {} <=> Len(Bytes(r)) <= Len(read_buffer_)
         /\ Feeds # {} => LfLine = r.line /\ Min(Feeds) = Len(Bytes(r))
<1>1. PICK b \in Seq(Token) : b = read_buffer_
  BY DEF Placed
<1>2. PICK l \in Seq(Token), e \in Seq(Token), t \in Seq(Token) : l = r.line /\ e = r.body /\ t = Bytes(r)
  BY RequestType, BytesType
<1>3. PICK n \in Nat, d \in Nat, m \in Nat : n = Len(l) /\ d = Len(e) /\ m = Len(b) /\ Len(t) = n + d
  <2>1. Len(t) = Len(l) + Len(e)
    BY <1>2, LineBytes DEF IsLine
  <2> QED
    BY <2>1, LenProperties
<1>4. (\A i \in 1..n : t[i] = l[i]) /\ \A i \in 1..d : t[n + i] = e[i]
  <2>1. At(t, 0, l) /\ At(t, n, e)
    BY <1>2, <1>3, LineBytes DEF IsLine
  <2>2. (\A i \in 1..n : t[0 + i] = l[i]) /\ \A i \in 1..d : t[n + i] = e[i]
    BY <1>3, <2>1 DEF At
  <2>3. \A i \in 1..n : 0 + i = i
    OBVIOUS
  <2> QED
    BY <2>2, <2>3
<1>5. \A i \in 1..n + d : i <= m => b[i] = t[i]
  <2>1. Placed(script, b, wire) /\ At(Stream(script), Place(script, b, wire), t)
    BY <1>1, <1>2
  <2>2. \A i \in 1..Len(t) : i <= Len(b) => b[i] = t[i]
    BY <2>1, BufferHolds
  <2> QED
    BY <1>2, <1>3, <2>2
<1>6. \/ d = 2 /\ e[1] = "CR" /\ e[2] = "LF"
      \/ d = 1 /\ e[1] = "LF" /\ (n > 0 => l[n] # "CR")
  <2>1. CASE e = CRLF
    <3>1. d = 2
      BY <1>3, <2>1, CrLf
    <3>2. e[1] = "CR" /\ e[2] = "LF"
      BY <2>1, CrLf
    <3> QED
      BY <3>1, <3>2
  <2>2. CASE e = <<"LF">> /\ (l # <<>> => l[Len(l)] # "CR")
    <3>1. Len(<<"LF">>) = 1 /\ <<"LF">>[1] = "LF" /\ Len(<<>>) = 0
      OBVIOUS
    <3>2. n > 0 => l # <<>>
      BY <1>3, <3>1
    <3> QED
      BY <1>3, <2>2, <3>1, <3>2
  <2> QED
    BY <1>2, <2>1, <2>2 DEF IsLine
<1>7. \A i \in 1..n : l[i] # "LF"
  BY <1>2, <1>3, LenProperties DEF IsLine
<1>8. Feeds = {i \in 1..m : b[i] = "LF"}
  BY <1>1, <1>3, LenProperties DEF Feeds
<1>9. ASSUME NEW i \in Feeds PROVE i \in 1..m /\ n + d <= i
  <2>1. i \in 1..m /\ b[i] = "LF"
    BY <1>8
  <2>2. CASE i <= n
    <3>1. i \in 1..n /\ i \in 1..n + d
      BY <2>1, <2>2
    <3> QED
      BY <1>4, <1>5, <1>7, <2>1, <3>1
  <2>3. CASE n < i /\ i < n + d
    <3>1. d = 2 /\ i = n + 1 /\ e[1] = "CR" /\ 1 \in 1..d /\ i \in 1..n + d
      BY <1>6, <2>1, <2>3
    <3>2. t[n + 1] = "CR"
      BY <1>4, <3>1
    <3> QED
      BY <1>5, <2>1, <3>1, <3>2
  <2> QED
    BY <2>1, <2>2, <2>3
<1>10. n + d <= m => n + d \in Feeds
  <2>1. SUFFICES ASSUME n + d <= m PROVE n + d \in Feeds
    OBVIOUS
  <2>2. n + d \in 1..m /\ n + d \in 1..n + d /\ d \in 1..d /\ e[d] = "LF"
    BY <1>6, <2>1
  <2>3. b[n + d] = "LF"
    BY <1>4, <1>5, <2>1, <2>2
  <2> QED
    BY <1>8, <2>2, <2>3
<1>11. Feeds # {} <=> n + d <= m
  <2>1. ASSUME NEW i \in Feeds PROVE n + d <= m
    BY <1>9
  <2> QED
    BY <1>10, <2>1
<1>12. ASSUME Feeds # {} PROVE Min(Feeds) = n + d /\ LfLine = l
  <2>1. n + d \in Feeds /\ Feeds \subseteq Int /\ \A i \in Feeds : n + d <= i
    BY <1>8, <1>9, <1>10, <1>11, <1>12
  <2>2. Min(Feeds) = n + d
    BY <2>1, LeastIs
  <2>3. PICK k \in Nat : k = (n + d) - 1 /\ k <= m
    BY <1>6, <1>11, <1>12
  <2>4. LfLine = SubSeq(b, 1, IF k > 0 /\ b[k] = "CR" THEN k - 1 ELSE k)
    BY <1>1, <2>2, <2>3 DEF LfLine
  <2>5. (IF k > 0 /\ b[k] = "CR" THEN k - 1 ELSE k) = n
    <3>1. CASE d = 2
      <4>1. k = n + 1 /\ k > 0 /\ k - 1 = n /\ e[1] = "CR" /\ 1 \in 1..d /\ n + 1 \in 1..n + d
        BY <1>6, <2>3, <3>1
      <4>2. b[k] = "CR"
        BY <1>4, <1>5, <2>3, <4>1
      <4> QED
        BY <4>1, <4>2
    <3>2. CASE d = 1
      <4>1. k = n /\ (n > 0 => l[n] # "CR")
        BY <1>6, <2>3, <3>2
      <4>2. n > 0 => b[n] # "CR"
        <5>1. n > 0 => n \in 1..n /\ n \in 1..n + d /\ n <= m
          BY <2>3, <4>1
        <5> QED
          BY <1>4, <1>5, <4>1, <5>1
      <4> QED
        BY <4>1, <4>2
    <3> QED
      BY <1>6, <3>1, <3>2
  <2>6. n \in 0..m /\ \A i \in 1..n : i <= m /\ i \in 1..n + d
    BY <1>11, <1>12
  <2>7. PICK x \in Seq(Token) : x = SubSeq(b, 1, n) /\ Len(x) = n /\ \A i \in 1..n : x[i] = b[i]
    <3>1. n \in 0..Len(b)
      BY <1>3, <2>6
    <3> QED
      BY <3>1, Halves
  <2>8. \A i \in 1..n : x[i] = l[i]
    BY <1>4, <1>5, <2>6, <2>7
  <2>9. x = l
    BY <1>3, <2>7, <2>8, SeqEqual
  <2> QED
    BY <2>2, <2>4, <2>5, <2>7, <2>9
<1> QED
  BY <1>1, <1>2, <1>3, <1>11, <1>12

----------------------------------------------------------------------------
(* The words of the abstract specification are the ones of this one.       *)
LEMMA SameFlatten == ASSUME NEW x PROVE Service!FlattenSeq(x) = FlattenSeq(x)
BY DEF FlattenSeq, Service!FlattenSeq

LEMMA SamePreamble == ASSUME NEW r, NEW n PROVE Service!Preamble(r, n) = Preamble(r, n)
BY SameFlatten DEF Preamble, Service!Preamble, CRLF, Service!CRLF

LEMMA SameStream == ASSUME NEW s PROVE Service!Stream(s) = Stream(s)
BY SameFlatten, SamePreamble DEF Stream, Service!Stream, Bytes, Service!Bytes, CRLF, Service!CRLF

LEMMA SameKnown == ASSUME NEW s PROVE Service!Known(s) <=> Known(s)
BY DEF Known, Service!Known, Versions, Service!Versions, Greets, Service!Greets

LEMMA SameNumeral == Service!Numeral = Numeral
BY DEF Numeral, Service!Numeral

LEMMA SameMinMax == ASSUME NEW S PROVE Service!Max(S) = Max(S) /\ Service!Min(S) = Min(S)
BY DEF Max, Min, Service!Max, Service!Min

LEMMA SameResponse == ASSUME NEW s, NEW b, NEW k PROVE Service!Response(s, b, k) = Response(s, b, k)
BY DEF Response, Service!Response

----------------------------------------------------------------------------
(* The headers 1..j of the request r, by what they set.                    *)
Connections(r, j) ==
  {i \in 1..j : r.headers[i][1] = "connection" /\ r.headers[i][2] \in {"close", "keep-alive"}}
Lengths(r, j) == {i \in 1..j : r.headers[i][1] = "content-length"}
Accepts(r, j) == {i \in 1..j : r.headers[i][1] = "accept"}

(* The members after the request line and j headers of r.                  *)
HeadRead(h, r, j) ==
  /\ h.line = r.line /\ h.header_count_ = j /\ h.header_bytes_ = Len(Preamble(r, j))
  /\ h.keep_alive_ <=> (Connections(r, j) # {} => r.headers[Max(Connections(r, j))][2] # "close")
  /\ h.content_length_ = IF Lengths(r, j) = {} THEN 0 ELSE Numeral[r.headers[Max(Lengths(r, j))][2]]
  /\ "accept" \in DOMAIN h.headers_ <=> Accepts(r, j) # {}
  /\ Accepts(r, j) # {} => h.headers_["accept"] = r.headers[Max(Accepts(r, j))][2]

(* The request line and the first j headers are accepted; all of it is.    *)
GoodHead(r, j) ==
  /\ j \in 0..Len(r.headers) /\ Len(Preamble(r, 0)) <= MaxHeaderBytes /\ parse_request_line(r.line)
  /\ \A i \in 1..j : /\ parse_header_line(r.headers[i]) /\ i <= MaxHeaderCount
                     /\ Len(Preamble(r, i)) <= MaxHeaderBytes

Good(r) == GoodHead(r, Len(r.headers)) /\ Len(r.body) <= MaxBody

LEMMA RefuseIs ==
  ASSUME NEW s
  PROVE  Service!Refuse(s).send = <<Response(s, <<>>, FALSE)>> /\ Service!Refuse(s).next = "close"
<1>1. PICK x : x = Response(s, <<>>, FALSE) /\ x = Service!Response(s, <<>>, FALSE)
  BY SameResponse
<1>2. Service!Refuse(s) = [send |-> <<x>>, next |-> "close"]
  BY <1>1 DEF Service!Refuse
<1>3. Service!Refuse(s).send = <<x>> /\ Service!Refuse(s).next = "close"
  BY <1>2
<1> QED
  BY <1>1, <1>3

LEMMA GiveIs ==
  ASSUME NEW b, NEW keep \in BOOLEAN
  PROVE  /\ Service!Give(b, keep).send = <<Response("200", b, keep)>>
         /\ Service!Give(b, keep).next = IF keep THEN "keep" ELSE "close"
<1>1. PICK x : x = Response("200", b, keep) /\ x = Service!Response("200", b, keep)
  BY SameResponse
<1>2. Service!Give(b, keep) = [send |-> <<x>>, next |-> IF keep THEN "keep" ELSE "close"]
  BY <1>1 DEF Service!Give
<1> QED
  BY <1>1, <1>2

LEMMA UpgradeIs ==
  ASSUME NEW what
  PROVE  /\ Service!Upgrade(what).send = <<Response("200", <<what>>, TRUE)>>
         /\ Service!Upgrade(what).next = "stream"
<1>1. PICK x : x = Response("200", <<what>>, TRUE) /\ x = Service!Response("200", <<what>>, TRUE)
  BY SameResponse
<1>2. Service!Upgrade(what) = [send |-> <<x>>, next |-> "stream"]
  BY <1>1 DEF Service!Upgrade
<1>3. Service!Upgrade(what).send = <<x>> /\ Service!Upgrade(what).next = "stream"
  BY <1>2
<1> QED
  BY <1>1, <1>3

LEMMA BadHeaderIs ==
  ASSUME NEW r \in Request, NEW i \in 1..Len(r.headers)
  PROVE  i \in Service!BadHeaders(r) <=>
           ~(parse_header_line(r.headers[i]) /\ i <= MaxHeaderCount /\ Len(Preamble(r, i)) <= MaxHeaderBytes)
<1>1. /\ DOMAIN r.headers = 1..Len(r.headers) /\ Len(r.headers[i]) \in Nat /\ i \in Nat
      /\ i \in 0..Len(r.headers) /\ Len(r.headers) \in Nat
  BY RequestType
<1>2. Len(Preamble(r, i)) \in Nat
  BY <1>1, PreambleIs
<1>3. MaxHeaderCount \in Nat /\ MaxHeaderBytes \in Nat
  BY LimitAssumption
<1>4. Service!Malformed(r.headers[i]) <=> ~parse_header_line(r.headers[i])
  BY <1>1, SameNumeral DEF Service!Malformed, parse_header_line
<1>5. Service!TooBig(r, i) <=> ~(i <= MaxHeaderCount /\ Len(Preamble(r, i)) <= MaxHeaderBytes)
  BY <1>1, <1>2, <1>3, SamePreamble DEF Service!TooBig
<1> QED
  BY <1>1, <1>4, <1>5 DEF Service!BadHeaders

LEMMA BadLineIs ==
  ASSUME NEW r \in Request
  PROVE  Service!BadLine(r) <=> ~parse_request_line(r.line)
BY RequestType DEF Service!BadLine, parse_request_line

(* A request that is accepted is not refused early.                        *)
LEMMA GoodIs ==
  ASSUME NEW r \in Request, r.proto = "http", GoodHead(r, Len(r.headers))
  PROVE  /\ Service!BadHeaders(r) = {} /\ ~Service!BadLine(r)
         /\ Service!Early(r) <=> Len(r.body) > MaxBody
         /\ Len(r.body) > MaxBody => Service!Answer(r) = Service!Refuse("413")
<1>1. Service!BadHeaders(r) = {}
  <2>1. \A i \in 1..Len(r.headers) : i \notin Service!BadHeaders(r)
    BY BadHeaderIs DEF GoodHead
  <2>2. Service!BadHeaders(r) \subseteq 1..Len(r.headers)
    BY RequestType DEF Service!BadHeaders
  <2> QED
    BY <2>1, <2>2
<1>2. ~Service!BadLine(r)
  BY BadLineIs DEF GoodHead
<1>3. ~(Len(Service!Preamble(r, 0)) > MaxHeaderBytes)
  <2>1. Len(Preamble(r, 0)) \in Nat /\ 0 \in 0..Len(r.headers)
    BY RequestType, PreambleIs
  <2> QED
    BY <2>1, SamePreamble, LimitAssumption DEF GoodHead
<1>4. Service!Early(r) <=> Len(r.body) > MaxBody
  BY <1>1, <1>2, <1>3 DEF Service!Early
<1>5. Service!Refusal(r) = Service!Refuse("413")
  BY <1>1, <1>2, <1>3 DEF Service!Refusal
<1>6. Len(r.body) > MaxBody => Service!Answer(r) = Service!Refuse("413")
  BY <1>4, <1>5 DEF Service!Answer
<1> QED
  BY <1>1, <1>2, <1>4, <1>6

(* What a request line, or a header after accepted ones, is refused with.  *)
LEMMA BadLineAnswer ==
  ASSUME NEW r \in Request, r.proto = "http",
         Len(Preamble(r, 0)) > MaxHeaderBytes \/ ~parse_request_line(r.line)
  PROVE  /\ Service!Early(r)
         /\ Service!Answer(r) = IF Len(Preamble(r, 0)) > MaxHeaderBytes THEN Service!Refuse("431") ELSE Service!Drop
<1>1. Service!Early(r)
  BY BadLineIs, SamePreamble DEF Service!Early
<1>2. Service!Answer(r) = Service!Refusal(r)
  BY <1>1 DEF Service!Answer
<1> QED
  BY <1>1, <1>2, BadLineIs, SamePreamble DEF Service!Refusal

LEMMA BadHeaderAnswer ==
  ASSUME NEW r \in Request, r.proto = "http", NEW j \in Nat, j < Len(r.headers), GoodHead(r, j), NEW i, i = j + 1,
         ~(parse_header_line(r.headers[i]) /\ i <= MaxHeaderCount /\ Len(Preamble(r, i)) <= MaxHeaderBytes)
  PROVE  /\ Service!Early(r)
         /\ Service!Answer(r) = Service!Refuse(IF i > MaxHeaderCount \/ Len(Preamble(r, i)) > MaxHeaderBytes
                                               THEN "431" ELSE "400")
<1>1. Len(r.headers) \in Nat /\ i \in 1..Len(r.headers) /\ DOMAIN r.headers = 1..Len(r.headers)
  BY RequestType
<1>2. i \in Service!BadHeaders(r)
  BY <1>1, BadHeaderIs
<1>3. Service!BadHeaders(r) \subseteq 1..Len(r.headers)
  BY RequestType DEF Service!BadHeaders
<1>4. ASSUME NEW k \in Service!BadHeaders(r) PROVE i <= k
  <2>1. SUFFICES ASSUME k <= j PROVE FALSE
    BY <1>1, <1>3
  <2>2. k \in 1..j /\ k \in 1..Len(r.headers)
    BY <1>3, <2>1
  <2> QED
    BY <2>2, BadHeaderIs DEF GoodHead
<1>5. Min(Service!BadHeaders(r)) = i
  <2>1. Service!BadHeaders(r) \subseteq Int
    BY <1>3
  <2> QED
    BY <1>2, <1>4, <2>1, LeastIs
<1>6. Service!Early(r)
  BY <1>2 DEF Service!Early
<1>7. ~(Len(Service!Preamble(r, 0)) > MaxHeaderBytes) /\ ~Service!BadLine(r)
  <2>1. Len(Preamble(r, 0)) \in Nat /\ 0 \in 0..Len(r.headers)
    BY RequestType, PreambleIs
  <2> QED
    BY <2>1, SamePreamble, LimitAssumption, BadLineIs DEF GoodHead
<1>8. Service!TooBig(r, i) <=> i > MaxHeaderCount \/ Len(Preamble(r, i)) > MaxHeaderBytes
  BY SamePreamble DEF Service!TooBig
<1>9. Service!Refusal(r) = Service!Refuse(IF Service!TooBig(r, i) THEN "431" ELSE "400")
  BY <1>2, <1>5, <1>7, SameMinMax DEF Service!Refusal
<1> QED
  BY <1>6, <1>8, <1>9 DEF Service!Answer

(* The members of an HttpChannel.                                          *)
States  == {"PARSE_REQUEST_LINE", "PARSE_HEADERS", "PARSE_BODY", "PARSE_DONE"}
HeaderTable == UNION {[d -> Token] : d \in SUBSET Token}
Members == [state_ : States, line : Seq(Token), headers_ : HeaderTable, body_ : Seq(Token),
            content_length_ : Nat, keep_alive_ : BOOLEAN, header_bytes_ : Nat, header_count_ : Nat]

LEMMA FreshType == Fresh \in Members
<1>1. <<>> \in HeaderTable
  <2>1. <<>> \in [{} -> Token]
    OBVIOUS
  <2> QED
    BY <2>1 DEF HeaderTable
<1> QED
  BY <1>1 DEF Fresh, Members, States

LEMMA NumeralIs == \A t \in DOMAIN Numeral : Numeral[t] \in Nat
BY DEF Numeral

LEMMA StoredIs ==
  ASSUME NEW t \in HeaderTable, NEW x \in Seq(Token), Len(x) >= 2
  PROVE  /\ Stored(t, x) \in HeaderTable /\ DOMAIN Stored(t, x) = DOMAIN t \cup {x[1]}
         /\ \A n \in DOMAIN t \cup {x[1]} : Stored(t, x)[n] = IF n = x[1] THEN x[2] ELSE t[n]
<1>1. PICK d \in SUBSET Token : t \in [d -> Token]
  BY DEF HeaderTable
<1>2. x[1] \in Token /\ x[2] \in Token
  <2>1. 1 \in 1..Len(x) /\ 2 \in 1..Len(x)
    BY LenProperties
  <2> QED
    BY <2>1, ElementOfSeq
<1>3. Stored(t, x) \in [d \cup {x[1]} -> Token] /\ DOMAIN t = d
  BY <1>1, <1>2 DEF Stored
<1>4. d \cup {x[1]} \in SUBSET Token
  BY <1>2
<1>5. Stored(t, x) \in HeaderTable
  BY <1>3, <1>4 DEF HeaderTable
<1>6. \A n \in DOMAIN t \cup {x[1]} : Stored(t, x)[n] = IF n = x[1] THEN x[2] ELSE t[n]
  BY DEF Stored
<1> QED
  BY <1>3, <1>5, <1>6

(* One more header.                                                        *)
LEMMA SelectGrows ==
  ASSUME NEW j \in Nat, NEW A, NEW B, A \subseteq 1..j, B = A \/ B = A \cup {j + 1}
  PROVE  j + 1 \in B => B # {} /\ Max(B) = j + 1
<1>1. SUFFICES ASSUME j + 1 \in B PROVE Max(B) = j + 1
  OBVIOUS
<1>2. ASSUME NEW y \in B PROVE y \in Int /\ y <= j + 1
  <2>1. y \in 1..j \/ y = j + 1
    OBVIOUS
  <2> QED
    BY <2>1
<1> QED
  BY <1>1, <1>2, GreatestIs

LEMMA HeadGrows ==
  ASSUME NEW r \in Request, NEW j \in Nat, j < Len(r.headers), NEW x, x = r.headers[j + 1], parse_header_line(x),
         NEW h \in Members, HeadRead(h, r, j),
         NEW g \in Members,
         g.line = h.line /\ g.header_count_ = j + 1 /\ g.header_bytes_ = h.header_bytes_ + Len(x) + 2,
         g.headers_ = Stored(h.headers_, x),
         g.content_length_ = (IF x[1] = "content-length" THEN Numeral[x[2]] ELSE h.content_length_),
         g.keep_alive_ = (IF x[1] = "connection" /\ x[2] \in {"close", "keep-alive"} THEN x[2] = "keep-alive"
                          ELSE h.keep_alive_)
  PROVE  HeadRead(g, r, j + 1)
<1>0. PICK i \in Nat : i = j + 1 /\ i \in 1..Len(r.headers) /\ i \notin 1..j /\ x = r.headers[i]
  BY RequestType
<1>1. 1..i = 1..j \cup {i}
  BY <1>0
<1>2. g.header_bytes_ = Len(Preamble(r, i)) /\ g.line = r.line /\ g.header_count_ = i
  <2>1. Len(Preamble(r, j + 1)) = Len(Preamble(r, j)) + Len(r.headers[j + 1]) + 2
    BY PreambleGrows
  <2> QED
    BY <1>0, <2>1 DEF HeadRead
<1>3. g.keep_alive_ <=> (Connections(r, i) # {} => r.headers[Max(Connections(r, i))][2] # "close")
  <2>1. CASE x[1] = "connection" /\ x[2] \in {"close", "keep-alive"}
    <3>1. Connections(r, i) = Connections(r, j) \cup {i} /\ Connections(r, j) \subseteq 1..j
      BY <1>0, <1>1, <2>1 DEF Connections
    <3>2. Connections(r, i) # {} /\ Max(Connections(r, i)) = i
      BY <1>0, <3>1, SelectGrows
    <3>3. g.keep_alive_ <=> x[2] = "keep-alive"
      BY <2>1
    <3>4. x[2] = "keep-alive" <=> x[2] # "close"
      BY <2>1
    <3> QED
      BY <1>0, <3>2, <3>3, <3>4
  <2>2. CASE ~(x[1] = "connection" /\ x[2] \in {"close", "keep-alive"})
    <3>1. Connections(r, i) = Connections(r, j)
      BY <1>0, <1>1, <2>2 DEF Connections
    <3>2. g.keep_alive_ = h.keep_alive_
      BY <2>2
    <3> QED
      BY <3>1, <3>2 DEF HeadRead
  <2> QED
    BY <2>1, <2>2
<1>4. g.content_length_ = IF Lengths(r, i) = {} THEN 0 ELSE Numeral[r.headers[Max(Lengths(r, i))][2]]
  <2>1. CASE x[1] = "content-length"
    <3>1. Lengths(r, i) = Lengths(r, j) \cup {i} /\ Lengths(r, j) \subseteq 1..j
      BY <1>0, <1>1, <2>1 DEF Lengths
    <3>2. Lengths(r, i) # {} /\ Max(Lengths(r, i)) = i
      BY <1>0, <3>1, SelectGrows
    <3> QED
      BY <1>0, <2>1, <3>2
  <2>2. CASE x[1] # "content-length"
    <3>1. Lengths(r, i) = Lengths(r, j)
      BY <1>0, <1>1, <2>2 DEF Lengths
    <3> QED
      BY <2>2, <3>1 DEF HeadRead
  <2> QED
    BY <2>1, <2>2
<1>5. /\ "accept" \in DOMAIN g.headers_ <=> Accepts(r, i) # {}
      /\ Accepts(r, i) # {} => g.headers_["accept"] = r.headers[Max(Accepts(r, i))][2]
  <2>0. /\ DOMAIN g.headers_ = DOMAIN h.headers_ \cup {x[1]}
        /\ \A n \in DOMAIN h.headers_ \cup {x[1]} : g.headers_[n] = IF n = x[1] THEN x[2] ELSE h.headers_[n]
    <3>1. x \in Seq(Token) /\ Len(x) >= 2 /\ h.headers_ \in HeaderTable
      BY <1>0, RequestType DEF parse_header_line, Members
    <3>2. PICK t \in HeaderTable : t = h.headers_ /\ g.headers_ = Stored(t, x)
      BY <3>1
    <3>3. PICK y \in Seq(Token) : y = x /\ Len(y) >= 2
      BY <3>1
    <3>4. /\ DOMAIN Stored(t, y) = DOMAIN t \cup {y[1]}
          /\ \A n \in DOMAIN t \cup {y[1]} : Stored(t, y)[n] = IF n = y[1] THEN y[2] ELSE t[n]
      BY <3>3, StoredIs
    <3> QED
      BY <3>2, <3>3, <3>4
  <2>1. CASE x[1] = "accept"
    <3>1. Accepts(r, i) = Accepts(r, j) \cup {i} /\ Accepts(r, j) \subseteq 1..j
      BY <1>0, <1>1, <2>1 DEF Accepts
    <3>2. Accepts(r, i) # {} /\ Max(Accepts(r, i)) = i
      BY <1>0, <3>1, SelectGrows
    <3> QED
      BY <1>0, <2>0, <2>1, <3>2
  <2>2. CASE x[1] # "accept"
    <3>1. Accepts(r, i) = Accepts(r, j)
      BY <1>0, <1>1, <2>2 DEF Accepts
    <3> QED
      BY <2>0, <2>2, <3>1 DEF HeadRead
  <2> QED
    BY <2>1, <2>2
<1> QED
  BY <1>0, <1>2, <1>3, <1>4, <1>5 DEF HeadRead

(* What the members say when all headers are read.                         *)
LEMMA HeadMeans ==
  ASSUME NEW r \in Request, r.proto = "http", GoodHead(r, Len(r.headers)),
         NEW h \in Members, HeadRead(h, r, Len(r.headers))
  PROVE  /\ h.content_length_ = ContentLength(r)
         /\ h.keep_alive_ = Service!Persistent(r)
         /\ Service!WantsEvents(r) <=> "accept" \in DOMAIN h.headers_ /\ h.headers_["accept"] = "text/event-stream"
<1>1. PICK n \in Nat : n = Len(r.headers) /\ DOMAIN r.headers = 1..n
  BY RequestType
<1>2. \A i \in 1..n : Len(r.headers[i]) >= 2 /\ (r.headers[i][1] = "content-length" => r.headers[i][2] \in DOMAIN Numeral)
  BY <1>1 DEF GoodHead, parse_header_line
<1>3. h.content_length_ = ContentLength(r)
  <2>1. {i \in DOMAIN r.headers : /\ Len(r.headers[i]) >= 2 /\ r.headers[i][1] = "content-length"
                                  /\ r.headers[i][2] \in DOMAIN Numeral} = Lengths(r, n)
    BY <1>1, <1>2 DEF Lengths
  <2> QED
    BY <1>1, <2>1 DEF HeadRead, ContentLength
<1>4. h.keep_alive_ = Service!Persistent(r)
  <2>1. {i \in DOMAIN r.headers : r.headers[i][1] = "connection" /\ r.headers[i][2] \in {"close", "keep-alive"}}
          = Connections(r, n)
    BY <1>1 DEF Connections
  <2>2. Service!Value(r, "connection", {"close", "keep-alive"}) =
          IF Connections(r, n) = {} THEN "none" ELSE r.headers[Max(Connections(r, n))][2]
    BY <2>1, SameMinMax DEF Service!Value
  <2>3. h.keep_alive_ <=> Service!Value(r, "connection", {"close", "keep-alive"}) # "close"
    BY <1>1, <2>2 DEF HeadRead
  <2>4. h.keep_alive_ \in BOOLEAN
    BY DEF Members
  <2> QED
    BY <2>3, <2>4 DEF Service!Persistent
<1>5. Service!WantsEvents(r) <=> "accept" \in DOMAIN h.headers_ /\ h.headers_["accept"] = "text/event-stream"
  <2>1. {i \in DOMAIN r.headers : r.headers[i][1] = "accept"} = Accepts(r, n)
    BY <1>1 DEF Accepts
  <2> QED
    BY <1>1, <2>1, SameMinMax DEF HeadRead, Service!WantsEvents
<1> QED
  BY <1>3, <1>4, <1>5

----------------------------------------------------------------------------
(* The inductive invariant.                                                *)

(* Where process() stands in the request r: q bytes of it are consumed.    *)
InHeaders(h, r, q) ==
  /\ h.state_ = "PARSE_HEADERS" /\ h.body_ = <<>>
  /\ \E j \in 0..Len(r.headers) : GoodHead(r, j) /\ HeadRead(h, r, j) /\ q = Len(Preamble(r, j))

InBody(h, r, q) ==
  /\ h.state_ = "PARSE_BODY" /\ Good(r) /\ HeadRead(h, r, Len(r.headers)) /\ IsPost(r)
  /\ Len(h.body_) < Len(r.body) /\ h.body_ = SubSeq(r.body, 1, Len(h.body_))
  /\ q = Len(Preamble(r, Len(r.headers))) + 2 + Len(h.body_)

IsDone(h, r, q) ==
  /\ h.state_ = "PARSE_DONE" /\ Good(r) /\ HeadRead(h, r, Len(r.headers)) /\ h.body_ = r.body
  /\ q = Len(Bytes(r))

Upgrading(h, r, q, chat) ==
  /\ h = Fresh /\ Good(r) /\ q = Len(Bytes(r))
  /\ Service!Answer(r) = Service!Upgrade(IF chat THEN "chat" ELSE "events")

InRequest(h, r, q, at, res, chat) ==
  \/ res = "UPGRADE_SSE" /\ Upgrading(h, r, q, chat)
  \/ res \in {"none", "NEED_MORE"} /\ (InHeaders(h, r, q) \/ InBody(h, r, q))
  \/ res = "none" /\ at = "process" /\ IsDone(h, r, q)

(* k requests of s are answered, and the parser stands at p.               *)
HttpParse(h, s, k, p, at, res, chat) ==
  \/ res # "UPGRADE_SSE" /\ h = Fresh /\ p = Ends(s, k)
  \/ k < Len(s) /\ InRequest(h, s[k + 1], p - Ends(s, k), at, res, chat)

Pos     == Place(script, read_buffer_, wire)
Working == ~closing /\ result # "CLOSE" /\ handler_ # "sse" /\ Known(script)

BytesInv ==
  /\ script \in Scripts /\ Placed(script, read_buffer_, wire)
  /\ Len(read_buffer_) <= MaxRead \/ closing

MembersInv ==
  /\ http \in Members /\ (\E S : out \in Seq(S))
  /\ http.header_bytes_ <= MaxHeaderBytes /\ http.header_count_ <= MaxHeaderCount
  /\ http.state_ = "PARSE_BODY" => Len(http.body_) < http.content_length_

PlaceInv ==
  /\ pc \in {"wait", "recv", "process"} /\ result \in Results \cup {"none"}
  /\ handler_ \in {"none", "http", "line", "sse"} /\ peer_closed \in BOOLEAN /\ closing \in BOOLEAN
  /\ pending_llm \in BOOLEAN /\ (pending_llm => result = "UPGRADE_SSE")
  /\ result # "none" => pc = "process"
  /\ pc = "process" => handler_ # "none"
  /\ pc = "recv" => read_buffer_ # <<>>
  /\ closing => pc = "wait"
  /\ handler_ # "none" => Known(script)
  /\ handler_ \in {"http", "line"} => script[1].proto = handler_
  /\ handler_ = "none" => http = Fresh /\ out = <<>> /\ Pos = 0
  /\ handler_ = "sse" => result \in {"none", "NEED_MORE"}
  /\ result = "UPGRADE_SSE" => handler_ = "http"

ParseInv ==
  Working =>
    /\ Len(out) <= Len(script)
    /\ script[1].proto = "line" => Pos = Ends(script, Len(out))
    /\ script[1].proto = "http" =>
         HttpParse(http, script, Len(out), Pos, pc, result, pending_llm)

(* Nothing that could be answered has arrived.                             *)
Starved == Len(out) < Len(script) => Received < Ends(script, Len(out) + 1)
RestInv == Working /\ (pc = "wait" \/ result = "NEED_MORE") => Starved

RequestInv == BytesInv /\ MembersInv /\ PlaceInv /\ ParseInv /\ RestInv

Moves == Service!ServiceNext \/ UNCHANGED Service!svars

LEMMA Setting ==
  ASSUME BytesInv, MembersInv
  PROVE  /\ script \in Seq(Request) /\ Len(script) \in Nat /\ Len(out) \in Nat /\ Pos \in Nat
         /\ Len(read_buffer_) \in Nat /\ read_buffer_ \in Seq(Token) /\ wire \in Seq(Token)
         /\ Received = Pos + Len(read_buffer_) /\ Received \in Nat /\ Received <= Len(Stream(script))
         /\ Len(Stream(script)) \in Nat /\ Arrived = Whole(script, Received)
<1>1. script \in Seq(Request) /\ Placed(script, read_buffer_, wire)
  BY ScriptAssumption DEF BytesInv
<1>2. /\ read_buffer_ \in Seq(Token) /\ wire \in Seq(Token)
      /\ Len(Stream(script)) \in Nat /\ Len(read_buffer_) \in Nat /\ Len(wire) \in Nat /\ Pos \in Nat
      /\ Pos + Len(read_buffer_) = Len(Stream(script)) - Len(wire)
  BY <1>1, PlacedIs DEF Pos
<1>3. Received = Pos + Len(read_buffer_)
  BY <1>2 DEF Received
<1>4. Received \in Nat /\ Received <= Len(Stream(script))
  <2>1. Received = Len(Stream(script)) - Len(wire)
    BY DEF Received
  <2> QED
    BY <1>2, <1>3, <2>1
<1>5. Arrived = Whole(script, Received)
  BY DEF Arrived, Whole, Ends
<1>6. Len(out) \in Nat /\ Len(script) \in Nat
  <2>1. PICK S : out \in Seq(S)
    BY DEF MembersInv
  <2> QED
    BY <1>1, <2>1, LenProperties
<1> QED
  BY <1>1, <1>2, <1>3, <1>4, <1>5, <1>6

LEMMA KnownScript ==
  ASSUME script \in Scripts, Known(script)
  PROVE  /\ script[1].proto \in {"http", "line"} /\ 1 \in 1..Len(script)
         /\ script[1].proto = "http" => \A i \in 1..Len(script) : script[i] \in Request /\ IsHttp(script[i])
         /\ script[1].proto = "line" => \A i \in 1..Len(script) : script[i] \in Request /\ IsLine(script[i])
<1>1. script \in Seq(Request) /\ DOMAIN script = 1..Len(script) /\ Len(script) \in Nat
  BY ScriptAssumption, LenProperties
<1>2. 1 \in 1..Len(script)
  <2>1. Len(script) # 0
    BY <1>1, EmptySeq DEF Known
  <2> QED
    BY <1>1, <2>1
<1>3. \A i \in 1..Len(script) : script[i] \in Request
  BY <1>1, ElementOfSeq
<1>4. (\A i \in 1..Len(script) : IsHttp(script[i])) \/ (\A i \in 1..Len(script) : IsLine(script[i]))
  BY <1>1, ScriptAssumption
<1> QED
  BY <1>2, <1>3, <1>4 DEF IsHttp, IsLine

----------------------------------------------------------------------------
(* Steps of the abstract specification.                                    *)
LEMMA Stutters ==
  ASSUME UNCHANGED <<script, wire, peer_closed, out>>, Mode' = Mode
  PROVE  Moves
BY DEF Moves, Service!svars, Arrived, Received

LEMMA Serves ==
  ASSUME BytesInv, MembersInv, Known(script), Mode = "open", Len(out) < Len(script),
         NEW r, r = script[Len(out) + 1],
         Ends(script, Len(out) + 1) <= Received \/ Service!Early(r),
         UNCHANGED <<script, wire, peer_closed>>, out' = out \o Service!Answer(r).send,
         Mode' = (CASE Service!Answer(r).next = "keep" -> "open" [] Service!Answer(r).next = "close" -> "closed"
                    [] OTHER -> "stream")
  PROVE  Moves
<1>1. PICK k : k = Len(out) + 1
  OBVIOUS
<1>2. k <= Len(script) /\ k \in 0..Len(script)
  BY <1>1, Setting
<1>3. k <= Arrived \/ Service!Early(r)
  <2>1. k <= Whole(script, Received) <=> Ends(script, k) <= Received
    BY <1>2, Setting, WholeIs
  <2> QED
    BY <1>1, <2>1, Setting
<1>4. Arrived' = Arrived
  BY DEF Arrived, Received
<1>5. Service!Known(script)
  BY SameKnown
<1>6. Service!Serve
  BY <1>1, <1>2, <1>3, <1>4, <1>5 DEF Service!Serve
<1> QED
  BY <1>6 DEF Moves, Service!ServiceNext

LEMMA ArrivedGrows ==
  ASSUME BytesInv, MembersInv, script' = script, Len(wire') <= Len(wire), Len(wire') \in Nat
  PROVE  Arrived' \in Arrived..Len(script)
<1>1. PICK n \in Nat, m \in Nat : n = Received /\ m = Received' /\ n <= m
  <2>1. PICK l \in Nat, a \in Nat, b \in Nat : l = Len(Stream(script)) /\ a = Len(wire) /\ b = Len(wire')
    BY Setting, LenProperties
  <2>2. Received = l - a /\ Received' = l - b
    BY <2>1 DEF Received
  <2>3. Received \in Nat /\ b <= a
    BY <2>1, Setting
  <2>4. Received' \in Nat /\ Received <= Received'
    BY <2>2, <2>3
  <2> QED
    BY <2>3, <2>4
<1>2. Arrived = Whole(script, n) /\ Arrived' = Whole(script, m)
  BY <1>1, Setting DEF Arrived, Whole, Ends
<1>3. PICK a \in 0..Len(script), b \in 0..Len(script) : a = Whole(script, n) /\ b = Whole(script, m)
  BY Setting, WholeIs
<1>4. Ends(script, a) <= n /\ Ends(script, a) \in Nat
  <2>1. a <= Whole(script, n) <=> Ends(script, a) <= n
    BY Setting, WholeIs
  <2>2. a <= a
    BY Setting
  <2>3. Ends(script, a) \in Nat
    BY Setting, EndsIs
  <2> QED
    BY <1>3, <2>1, <2>2, <2>3
<1>5. Ends(script, a) <= m
  BY <1>1, <1>4
<1>6. a <= b
  BY <1>3, <1>5, Setting, WholeIs
<1> QED
  BY <1>2, <1>3, <1>6, Setting

LEMMA HangsUp ==
  ASSUME BytesInv, MembersInv, Mode # "closed", Mode' = "closed",
         peer_closed' = peer_closed \/ peer_closed' = TRUE,
         UNCHANGED <<script, out>>, Len(wire') <= Len(wire), Len(wire') \in Nat,
         \/ peer_closed' /\ (Mode = "stream" \/ Len(out) = Arrived)
         \/ ~Known(script)
         \/ Len(Stream(script)) > MaxRead
  PROVE  Moves
<1>1. Arrived' \in Arrived..Len(script)
  BY ArrivedGrows
<1>2. Service!HangUp
  BY <1>1, SameKnown, SameStream DEF Service!HangUp
<1> QED
  BY <1>2 DEF Moves, Service!ServiceNext

LEMMA ModeIs ==
  /\ closing \/ result = "CLOSE" => Mode = "closed"
  /\ ~closing /\ result # "CLOSE" /\ handler_ = "sse" => Mode = "stream"
  /\ ~closing /\ result # "CLOSE" /\ handler_ # "sse" => Mode = "open"
BY DEF Mode

----------------------------------------------------------------------------
(* Facts about where the parser stands.                                    *)
LEMMA ParsePlace ==
  ASSUME NEW h \in Members, NEW s \in Seq(Request), NEW k \in Nat, k <= Len(s), NEW p \in Nat,
         NEW at, NEW res, NEW chat, HttpParse(h, s, k, p, at, res, chat)
  PROVE  Ends(s, k) <= p /\ Ends(s, k) \in Nat
<1>1. Ends(s, k) \in Nat
  BY LenProperties, EndsIs
<1>2. CASE p = Ends(s, k)
  BY <1>1, <1>2
<1>3. CASE k < Len(s) /\ InRequest(h, s[k + 1], p - Ends(s, k), at, res, chat)
  <2>1. PICK r \in Request : r = s[k + 1]
    BY <1>3, EndsGrow
  <2>2. PICK q \in Int : q = p - Ends(s, k)
    BY <1>1
  <2>3. \A j \in 0..Len(r.headers) : Len(Preamble(r, j)) \in Nat
    BY PreambleIs
  <2>4. Len(Bytes(r)) \in Nat /\ Len(h.body_) \in Nat /\ Len(r.headers) \in 0..Len(r.headers)
    BY BytesType, LenProperties, RequestType DEF Members
  <2>5. q \in Nat
    <3>1. CASE InHeaders(h, r, q)
      BY <2>3, <3>1 DEF InHeaders
    <3>2. CASE InBody(h, r, q)
      <4>1. PICK n \in Nat, m \in Nat : n = Len(Preamble(r, Len(r.headers))) /\ m = Len(h.body_)
        BY <2>3, <2>4
      <4>2. q = n + 2 + m
        BY <3>2, <4>1 DEF InBody
      <4> QED
        BY <4>2
    <3>3. CASE IsDone(h, r, q) \/ Upgrading(h, r, q, chat)
      BY <2>4, <3>3 DEF IsDone, Upgrading
    <3> QED
      BY <1>3, <2>1, <2>2, <3>1, <3>2, <3>3 DEF InRequest
  <2> QED
    BY <1>1, <2>2, <2>5
<1> QED
  BY <1>2, <1>3 DEF HttpParse

LEMMA ServedIsReceived ==
  ASSUME BytesInv, MembersInv, ParseInv, Working
  PROVE  Ends(script, Len(out)) <= Received /\ Len(out) \in 0..Len(script)
<1>1. Len(out) \in 0..Len(script) /\ Len(out) \in Nat /\ Len(out) <= Len(script)
  BY Setting DEF ParseInv
<1>2. Known(script) /\ script \in Scripts
  BY DEF Working, BytesInv
<1>3. Ends(script, Len(out)) <= Pos /\ Ends(script, Len(out)) \in Nat
  <2>1. CASE script[1].proto = "line"
    BY <1>1, <2>1, Setting DEF ParseInv
  <2>2. CASE script[1].proto = "http"
    <3>1. HttpParse(http, script, Len(out), Pos, pc, result, pending_llm) /\ http \in Members
      BY <2>2 DEF ParseInv, MembersInv
    <3> QED
      BY <1>1, <3>1, Setting, ParsePlace
  <2> QED
    BY <1>2, <2>1, <2>2, KnownScript
<1> QED
  BY <1>1, <1>3, Setting

LEMMA StarvedMeans ==
  ASSUME BytesInv, MembersInv, ParseInv, Working, Starved
  PROVE  Len(out) = Arrived
<1>1. PICK k \in Nat, n \in Nat : k = Len(out) /\ n = Received /\ Arrived = Whole(script, n)
  BY Setting
<1>2. k \in 0..Len(script) /\ Ends(script, k) <= n
  BY <1>1, ServedIsReceived
<1>3. PICK a \in 0..Len(script) : a = Arrived /\ \A i \in 0..Len(script) : i <= a <=> Ends(script, i) <= n
  BY <1>1, Setting, WholeIs
<1>4. k <= a
  BY <1>2, <1>3
<1>5. SUFFICES ASSUME k < a PROVE FALSE
  BY <1>1, <1>3, <1>4
<1>6. k + 1 \in 0..Len(script) /\ k + 1 <= a /\ k < Len(script)
  BY <1>3, <1>5, Setting
<1>7. Ends(script, k + 1) <= n /\ Ends(script, k + 1) \in Nat
  BY <1>3, <1>6, Setting, EndsIs
<1> QED
  BY <1>1, <1>6, <1>7 DEF Starved

(* Between two calls of process() nothing is done.                         *)
LEMMA ParseAt ==
  ASSUME NEW h, NEW s, NEW k, NEW p, NEW at, NEW here, NEW res, NEW chat, at # "process",
         HttpParse(h, s, k, p, at, res, chat)
  PROVE  HttpParse(h, s, k, p, here, res, chat)
BY DEF HttpParse, InRequest

----------------------------------------------------------------------------
(* The steps of on_readable, one by one.                                   *)
LEMMA Appended ==
  ASSUME NEW s, \E S : s \in Seq(S), NEW x
  PROVE  /\ Append(s, x) = s \o <<x>> /\ \E S : Append(s, x) \in Seq(S)
         /\ Len(Append(s, x)) = Len(s) + 1 /\ Len(s) \in Nat
<1>1. PICK S : s \in Seq(S)
  OBVIOUS
<1>2. PICK T : T = S \cup {x}
  OBVIOUS
<1>3. s \in Seq(T) /\ x \in T /\ Len(s) \in Nat
  <2>1. Len(s) \in Nat /\ DOMAIN s = 1..Len(s) /\ \A i \in 1..Len(s) : s[i] \in T
    BY <1>1, <1>2, LenProperties, ElementOfSeq
  <2>2. s \in [1..Len(s) -> T]
    <3>1. s \in [1..Len(s) -> S]
      BY <1>1, LenProperties
    <3> QED
      BY <1>2, <3>1
  <2> QED
    BY <1>2, <2>1, <2>2, SeqDef
<1>4. Append(s, x) \in Seq(T) /\ Len(Append(s, x)) = Len(s) + 1
  BY <1>3, AppendProperties
<1>5. Append(s, x) = s \o <<x>>
  BY <1>3, AppendIsConcat
<1> QED
  BY <1>3, <1>4, <1>5

LEMMA NothingAppended ==
  ASSUME NEW s, \E S : s \in Seq(S)
  PROVE  s \o <<>> = s
BY ConcatEmptySeq

LEMMA BytesKept ==
  ASSUME BytesInv, UNCHANGED <<script, wire, read_buffer_>>, closing => closing'
  PROVE  BytesInv' /\ Pos' = Pos /\ Received' = Received
<1>1. Pos' = Pos /\ Received' = Received
  BY DEF Pos, Received
<1>2. BytesInv'
  BY DEF BytesInv
<1> QED
  BY <1>1, <1>2

(* A request that is next to be answered and is served.                    *)
LEMMA EndsNext ==
  ASSUME BytesInv, MembersInv, NEW k \in Nat, k < Len(script)
  PROVE  /\ script[k + 1] \in Request
         /\ Ends(script, k) \in Nat /\ Ends(script, k + 1) \in Nat
         /\ Ends(script, k + 1) = Ends(script, k) + Len(Bytes(script[k + 1]))
         /\ Ends(script, k) < Ends(script, k + 1)
         /\ At(Stream(script), Ends(script, k), Bytes(script[k + 1]))
<1>1. script \in Seq(Request) /\ script \in Scripts
  BY Setting DEF BytesInv
<1> QED
  BY <1>1, EndsGrow, EndsRise

(* As long as there are bytes behind the end of the k-th request, there is *)
(* a next one.                                                             *)
LEMMA MoreToCome ==
  ASSUME BytesInv, MembersInv, NEW k \in Nat, k <= Len(script), Pos = Ends(script, k), read_buffer_ # <<>>
  PROVE  k < Len(script)
<1>1. /\ script \in Seq(Request) /\ Len(script) \in Nat /\ Len(read_buffer_) \in Nat /\ Pos \in Nat
      /\ Received = Pos + Len(read_buffer_) /\ Received <= Len(Stream(script)) /\ Len(Stream(script)) \in Nat
      /\ read_buffer_ \in Seq(Token)
  BY Setting
<1>2. Len(read_buffer_) # 0
  BY <1>1, EmptySeq
<1>3. Ends(script, Len(script)) = Len(Stream(script))
  BY <1>1, EndsEdges
<1>4. Pos # Ends(script, Len(script))
  BY <1>1, <1>2, <1>3
<1>5. k # Len(script)
  BY <1>4
<1> QED
  BY <1>1, <1>5

(* When all of it is answered up to where the bytes end, nothing waits.    *)
LEMMA NothingLeft ==
  ASSUME BytesInv, MembersInv, Pos = Ends(script, Len(out)), read_buffer_ = <<>>
  PROVE  Starved
<1>1. PICK k \in Nat : k = Len(out)
  BY Setting
<1>2. Received = Pos
  <2>1. Len(read_buffer_) = 0
    OBVIOUS
  <2> QED
    BY <2>1, Setting
<1>3. k < Len(script) => Ends(script, k) < Ends(script, k + 1)
  BY EndsNext
<1> QED
  BY <1>1, <1>2, <1>3 DEF Starved

LEMMA StartsRight ==
  ASSUME Init
  PROVE  RequestInv /\ Service!ServiceInit
<1>1. script \in Scripts /\ script \in Seq(Request) /\ Len(script) \in Nat
  BY ScriptAssumption, LenProperties DEF Init
<1>2. PICK all \in Seq(Token) : all = Stream(script) /\ wire = all /\ Len(all) \in Nat
  BY <1>1, PiecesType, LenProperties DEF Init
<1>3. read_buffer_ = <<>> /\ Len(read_buffer_) = 0 /\ out = <<>> /\ Len(out) = 0 /\ result = "none" /\ http = Fresh
  BY DEF Init, HttpInit
<1>4. Pos = 0 /\ Received = 0
  <2>1. PICK n \in Nat : n = Len(Stream(script)) /\ n = Len(wire)
    BY <1>2
  <2>2. Pos = n - n - 0 /\ Received = n - n
    BY <1>3, <2>1 DEF Pos, Place, Received
  <2> QED
    BY <2>2
<1>5. Placed(script, read_buffer_, wire)
  <2>1. At(all, 0, <<>>)
    BY <1>2 DEF At
  <2>2. At(all, 0, all)
    BY AtStart
  <2>3. Len(all) - Len(all) = 0 /\ <<>> \in Seq(Token)
    BY <1>2
  <2> QED
    BY <1>2, <1>3, <1>4, <2>1, <2>2, <2>3 DEF Placed, Pos
<1>6. BytesInv
  BY <1>1, <1>3, <1>5, LimitAssumption DEF BytesInv
<1>7. MembersInv
  <2>1. \E S : out \in Seq(S)
    <3>1. out \in Seq(Token)
      BY <1>3
    <3> QED
      BY <3>1
  <2>2. Fresh.header_bytes_ = 0 /\ Fresh.header_count_ = 0 /\ Fresh.state_ = "PARSE_REQUEST_LINE"
    BY DEF Fresh
  <2> QED
    BY <1>3, <2>1, <2>2, FreshType, LimitAssumption DEF MembersInv
<1>8. PlaceInv
  BY <1>3, <1>4 DEF PlaceInv, Init, HttpInit, Results
<1>9. Ends(script, 0) = 0
  BY <1>1, EndsEdges
<1>10. ParseInv
  BY <1>1, <1>3, <1>4, <1>9 DEF ParseInv, HttpParse
<1>11. RestInv
  BY <1>3, <1>4, <1>6, <1>7, <1>9, NothingLeft DEF RestInv
<1>12. Arrived = 0
  <2>1. PICK a \in 0..Len(script) : a = Arrived /\ \A k \in 0..Len(script) : k <= a <=> Ends(script, k) <= 0
    BY <1>1, <1>2, <1>4, WholeIs DEF Arrived, Whole, Ends
  <2>2. SUFFICES ASSUME a # 0 PROVE FALSE
    BY <2>1
  <2>3. 1 \in 0..Len(script) /\ 1 <= a /\ 0 < Len(script) /\ 0 + 1 = 1
    BY <1>1, <2>2
  <2>4. Ends(script, 1) <= 0
    BY <2>1, <2>3
  <2>5. Ends(script, 0) < Ends(script, 1) /\ Ends(script, 1) \in Nat
    BY <1>1, <2>3, EndsRise
  <2> QED
    BY <1>9, <2>4, <2>5
<1>13. Service!ServiceInit
  BY <1>1, <1>3, <1>12 DEF Service!ServiceInit, Init, Mode
<1> QED
  BY <1>6, <1>7, <1>8, <1>10, <1>11, <1>13 DEF RequestInv

LEMMA Arriving ==
  ASSUME RequestInv, RecvBytes
  PROVE  RequestInv' /\ Moves
<1>1. BytesInv /\ MembersInv /\ PlaceInv /\ ParseInv /\ RestInv
  BY DEF RequestInv
<1>2. PICK n \in 1..Len(wire) :
        /\ read_buffer_' = read_buffer_ \o SubSeq(wire, 1, n)
        /\ wire' = SubSeq(wire, n + 1, Len(wire))
  BY DEF RecvBytes
<1>3. /\ script \in Seq(Request) /\ Len(read_buffer_) \in Nat /\ Len(wire) \in Nat
      /\ Placed(script, read_buffer_, wire) /\ script' = script
  BY <1>1, Setting, LenProperties DEF BytesInv, RecvBytes
<1>4. /\ Placed(script, read_buffer_', wire') /\ Len(read_buffer_') = Len(read_buffer_) + n
      /\ Len(wire') = Len(wire) - n /\ Place(script, read_buffer_', wire') = Pos
  BY <1>2, <1>3, Receive DEF Pos
<1>5. Len(wire') \in Nat /\ Len(wire') <= Len(wire) /\ n \in Nat /\ Len(read_buffer_') \in Nat /\ n > 0
  BY <1>3, <1>4
<1>6. Pos' = Pos /\ Placed(script, read_buffer_, wire)'
  BY <1>3, <1>4 DEF Pos
<1>7. pc = "wait" /\ result = "none" /\ ~closing /\ ~peer_closed
  BY <1>1 DEF PlaceInv, RecvBytes
<1>8. MembersInv'
  BY <1>1 DEF MembersInv, RecvBytes
<1>9. read_buffer_' # <<>>
  BY <1>3, <1>4, <1>5
<1>10. CASE Len(read_buffer_') > MaxRead
  <2>1. closing' /\ UNCHANGED <<script, peer_closed, out, result, http, pending_llm, handler_, pc>>
    BY <1>10 DEF RecvBytes
  <2>2. BytesInv'
    BY <1>1, <1>3, <1>6, <2>1 DEF BytesInv
  <2>3. PlaceInv'
    BY <1>1, <1>6, <1>7, <2>1 DEF PlaceInv, RecvBytes
  <2>4. ParseInv' /\ RestInv'
    BY <2>1 DEF ParseInv, RestInv, Working
  <2>5. Len(Stream(script)) > MaxRead
    <3>1. /\ Place(script, read_buffer_', wire') + Len(read_buffer_') = Len(Stream(script)) - Len(wire')
          /\ Place(script, read_buffer_', wire') \in Nat /\ Len(Stream(script)) \in Nat
      BY <1>3, <1>4, PlacedIs
    <3> QED
      BY <1>5, <1>10, <3>1, LimitAssumption
  <2>6. Mode # "closed" /\ Mode' = "closed"
    BY <1>7, <2>1 DEF Mode
  <2>7. Moves
    BY <1>1, <1>5, <2>1, <2>5, <2>6, HangsUp
  <2> QED
    BY <1>8, <2>2, <2>3, <2>4, <2>7 DEF RequestInv
<1>11. CASE ~(Len(read_buffer_') > MaxRead)
  <2>1. pc' = "recv" /\ UNCHANGED <<script, peer_closed, out, result, http, pending_llm, handler_, closing>>
    BY <1>11 DEF RecvBytes
  <2>2. BytesInv'
    BY <1>1, <1>3, <1>5, <1>6, <1>11, <2>1, LimitAssumption DEF BytesInv
  <2>3. PlaceInv'
    BY <1>1, <1>6, <1>7, <1>9, <2>1 DEF PlaceInv
  <2>4. ParseInv'
    <3>1. SUFFICES ASSUME Working'
                   PROVE  /\ Len(out) <= Len(script)
                          /\ script[1].proto = "line" => Pos = Ends(script, Len(out))
                          /\ script[1].proto = "http" =>
                               HttpParse(http, script, Len(out), Pos, "recv", result, pending_llm)
      BY <1>6, <2>1 DEF ParseInv
    <3>2. Working
      BY <2>1, <3>1 DEF Working
    <3> QED
      BY <1>1, <1>7, <3>2, ParseAt DEF ParseInv
  <2>5. RestInv'
    BY <1>7, <2>1 DEF RestInv
  <2>6. Arrived' \in Arrived..Len(script)
    BY <1>1, <1>5, <2>1, ArrivedGrows
  <2>7. Mode # "closed" /\ Mode' = Mode
    BY <1>7, <2>1 DEF Mode
  <2>8. Service!Arrive
    BY <2>1, <2>6, <2>7 DEF Service!Arrive
  <2> QED
    BY <1>8, <2>2, <2>3, <2>4, <2>5, <2>8 DEF RequestInv, Moves, Service!ServiceNext
<1> QED
  BY <1>10, <1>11

LEMMA Ending ==
  ASSUME RequestInv, RecvEof
  PROVE  RequestInv' /\ Moves
<1>1. BytesInv /\ MembersInv /\ PlaceInv /\ ParseInv /\ RestInv
  BY DEF RequestInv
<1>2. pc \in {"wait", "recv"} /\ ~closing /\ result = "none" /\ peer_closed'
  BY <1>1 DEF PlaceInv, RecvEof
<1>3. UNCHANGED <<script, wire, read_buffer_, out, result, http, pending_llm, handler_>>
  BY DEF RecvEof, httpVars
<1>4. BytesInv' /\ Pos' = Pos /\ Received' = Received
  BY <1>1, <1>2, <1>3, BytesKept
<1>5. MembersInv'
  BY <1>1, <1>3 DEF MembersInv
<1>6. Len(wire) \in Nat /\ Len(wire) <= Len(wire)
  BY <1>1, Setting, LenProperties
<1>7. CASE read_buffer_ = <<>>
  <2>1. closing' /\ pc' = "wait" /\ pc = "wait" /\ peer_closed' = TRUE
    BY <1>1, <1>2, <1>7 DEF RecvEof, PlaceInv
  <2>2. PlaceInv'
    BY <1>1, <1>2, <1>3, <1>4, <2>1 DEF PlaceInv, RecvEof
  <2>3. ParseInv' /\ RestInv'
    BY <2>1 DEF ParseInv, RestInv, Working
  <2>4. Mode = "stream" \/ Len(out) = Arrived \/ ~Known(script)
    <3>1. SUFFICES ASSUME handler_ # "sse", Known(script) PROVE Len(out) = Arrived
      BY <1>2, ModeIs
    <3>2. Working
      BY <1>2, <3>1 DEF Working
    <3>3. Starved
      BY <1>1, <2>1, <3>2 DEF RestInv
    <3> QED
      BY <1>1, <3>2, <3>3, StarvedMeans
  <2>5. Mode # "closed" /\ Mode' = "closed"
    BY <1>2, <2>1 DEF Mode
  <2>6. Moves
    BY <1>1, <1>3, <1>6, <2>1, <2>4, <2>5, HangsUp
  <2> QED
    BY <1>4, <1>5, <2>2, <2>3, <2>6 DEF RequestInv
<1>8. CASE read_buffer_ # <<>>
  <2>1. pc' = "recv" /\ closing' = closing /\ peer_closed' = TRUE
    BY <1>8 DEF RecvEof
  <2>2. PlaceInv'
    BY <1>1, <1>2, <1>3, <1>4, <1>8, <2>1 DEF PlaceInv, RecvEof
  <2>3. ParseInv'
    <3>1. SUFFICES ASSUME Working'
                   PROVE  /\ Len(out) <= Len(script)
                          /\ script[1].proto = "line" => Pos = Ends(script, Len(out))
                          /\ script[1].proto = "http" =>
                               HttpParse(http, script, Len(out), Pos, "recv", result, pending_llm)
      BY <1>3, <1>4, <2>1 DEF ParseInv
    <3>2. Working /\ pc # "process"
      BY <1>2, <1>3, <2>1, <3>1 DEF Working
    <3> QED
      BY <1>1, <3>2, ParseAt DEF ParseInv
  <2>4. RestInv'
    BY <1>2, <1>3, <2>1 DEF RestInv
  <2>5. Mode # "closed" /\ Mode' = Mode /\ Arrived' = Arrived
    BY <1>2, <1>3, <1>4, <2>1 DEF Mode, Arrived
  <2>6. Service!Leave
    BY <1>3, <2>1, <2>5 DEF Service!Leave
  <2> QED
    BY <1>4, <1>5, <2>2, <2>3, <2>4, <2>6 DEF RequestInv, Moves, Service!ServiceNext
<1> QED
  BY <1>7, <1>8

(* The detection: what the first line has to be, once it shows.            *)
LEMMA Detection ==
  ASSUME BytesInv, MembersInv, Pos = 0, read_buffer_ # <<>>, handler_ = "none"
  PROVE  /\ Detected \in {"none", "line", "http"}
         /\ Detected # "none" => Known(script) /\ script[1].proto = Detected
         /\ Detected = "none" /\ HasLine => ~Known(script)
         /\ Detected = "none" /\ Known(script) => Received < Ends(script, 1)
<1>1. /\ script \in Seq(Request) /\ script \in Scripts /\ Len(script) \in Nat
      /\ Placed(script, read_buffer_, wire) /\ Place(script, read_buffer_, wire) = 0
  BY Setting DEF BytesInv, Pos
<1>2. PICK b \in Seq(Token), all \in Seq(Token), m \in Nat :
        /\ b = read_buffer_ /\ all = Stream(script) /\ m = Len(b) /\ m > 0 /\ m <= Len(all) /\ Received = m
        /\ Len(all) \in Nat
  <2>1. PICK b \in Seq(Token), all \in Seq(Token) : b = read_buffer_ /\ all = Stream(script)
    BY <1>1, PlacedIs
  <2>2. Len(b) \in Nat /\ Len(b) # 0 /\ Received = 0 + Len(b) /\ Received <= Len(all) /\ Len(all) \in Nat
    BY <2>1, Setting, EmptySeq
  <2>3. Received = Len(b)
    BY <2>2
  <2> QED
    BY <2>1, <2>2, <2>3
<1>3. \A i \in 1..m : b[i] = all[i]
  <2>1. \A i \in 1..m : b[i] = all[0 + i]
    BY <1>1, <1>2, PlacedIs
  <2>2. \A i \in 1..m : 0 + i = i
    OBVIOUS
  <2> QED
    BY <2>1, <2>2
<1>4. 1 \in 1..m /\ b[1] = all[1]
  BY <1>2, <1>3
<1>5. Detected = IF b[1] \in Greets THEN "line" ELSE IF looks_like_http_request THEN "http" ELSE "none"
  BY <1>2 DEF Detected
<1>6. CASE ~Known(script)
  <2>1. (Len(all) > 0 => all[1] \notin Greets) /\ (Len(all) > 2 => all[3] \notin Versions)
    BY <1>1, <1>2, <1>6, ScriptAssumption
  <2>2. b[1] \notin Greets
    BY <1>2, <1>4, <2>1
  <2>3. ASSUME looks_like_http_request PROVE FALSE
    <3>1. HasLine /\ Len(Line) >= 3 /\ Line[3] \in Versions
      BY <2>3 DEF looks_like_http_request
    <3>2. LineEnds \subseteq Nat /\ LineEnds # {} /\ LineEnds \subseteq 1..(m - 1)
      BY <1>2, <3>1 DEF HasLine, LineEnds
    <3>3. PICK e \in Nat : e = Min(LineEnds) /\ e \in 1..(m - 1)
      BY <3>2, LeastExists
    <3>4. PICK n \in Nat : n = e - 1 /\ n \in 0..m
      BY <3>3
    <3>5. PICK x \in Seq(Token) : x = SubSeq(b, 1, n) /\ Len(x) = n /\ \A i \in 1..n : x[i] = b[i]
      BY <1>2, <3>4, Halves
    <3>6. Line = x
      BY <1>2, <3>3, <3>4, <3>5 DEF Line
    <3>7. 3 \in 1..n /\ 3 \in 1..m /\ Len(all) > 2
      BY <1>2, <3>1, <3>4, <3>5, <3>6
    <3> QED
      BY <1>3, <2>1, <3>1, <3>5, <3>6, <3>7
  <2> QED
    BY <1>5, <1>6, <2>2, <2>3
<1>7. CASE Known(script)
  <2>1. /\ script[1].proto \in {"http", "line"} /\ 1 \in 1..Len(script) /\ 0 < Len(script)
        /\ script[1].proto = "http" => script[1] \in Request /\ IsHttp(script[1])
        /\ script[1].proto = "line" => script[1] \in Request /\ IsLine(script[1])
    BY <1>1, <1>7, KnownScript
  <2>2. PICK r \in Request : r = script[1]
    BY <2>1
  <2>3. At(all, 0, Bytes(r)) /\ Ends(script, 1) = Len(Bytes(r)) /\ Bytes(r) \in Seq(Token) /\ Len(Bytes(r)) \in Nat
    <3>1. 0 + 1 = 1 /\ Ends(script, 0) = 0
      BY <1>1, EndsEdges
    <3>2. At(all, Ends(script, 0), Bytes(r)) /\ Ends(script, 1) = Ends(script, 0) + Len(Bytes(r))
      BY <1>1, <1>2, <2>1, <2>2, <3>1, EndsGrow
    <3>3. Bytes(r) \in Seq(Token) /\ Len(Bytes(r)) \in Nat
      BY BytesType
    <3> QED
      BY <3>1, <3>2, <3>3
  <2>4. PICK l \in Seq(Token) : l = r.line /\ Len(l) \in Nat
    BY RequestType
  <2>5. CASE r.proto = "line"
    <3>1. l # <<>> /\ l[1] \in Greets
      BY <1>7, <2>2, <2>4, <2>5 DEF Known
    <3>2. At(Bytes(r), 0, l)
      BY <2>4, <2>5, LineBytes
    <3>3. At(all, 0 + 0, l)
      BY <2>3, <3>2, AtTransitive
    <3>4. 1 \in 1..Len(l) /\ (0 + 0) + 1 = 1
      BY <2>4, <3>1
    <3>5. all[1] = l[1]
      BY <3>3, <3>4 DEF At
    <3> QED
      BY <1>4, <1>5, <1>7, <2>2, <2>5, <3>1, <3>5
  <2>6. CASE r.proto = "http"
    <3>1. Len(l) >= 3 /\ l[1] \notin Greets /\ l[3] \in Versions /\ OneLine(l)
      BY <1>7, <2>1, <2>2, <2>4, <2>6 DEF Known, IsHttp
    <3>2. /\ At(Bytes(r), 0, l \o CRLF)
          /\ Len(Bytes(r)) = Len(Preamble(r, Len(r.headers))) + 2 + Len(r.body)
      BY <2>4, <2>6, HttpBytes
    <3>3. PICK t \in Seq(Token) : t = l \o CRLF /\ Len(t) = Len(l) + 2
      BY LineEnded
    <3>4. At(all, 0 + 0, t) /\ 0 + Len(t) <= Len(Bytes(r))
      <4>1. PICK y \in Seq(Token) : y = Bytes(r) /\ At(all, 0, y) /\ At(y, 0, t)
        BY <2>3, <3>2, <3>3
      <4>2. At(all, 0 + 0, t)
        BY <4>1, AtTransitive
      <4>3. 0 + Len(t) <= Len(y)
        BY <4>1 DEF At
      <4> QED
        BY <4>1, <4>2, <4>3
    <3>5. At(all, 0, l \o CRLF) /\ 0 + 0 = 0
      BY <3>3, <3>4
    <3>6. all[1] = l[1]
      <4>1. 1 \in 1..Len(l) /\ 0 + 1 = 1 /\ \A i \in 1..Len(l) : all[0 + i] = l[i]
        BY <2>4, <3>1, <3>5, LineAt
      <4> QED
        BY <4>1
    <3>7. (HasLine <=> Len(l) + 2 <= m) /\ (HasLine => Line = l)
      BY <1>1, <1>2, <3>1, <3>5, LineFound
    <3>8. Detected = IF HasLine THEN "http" ELSE "none"
      BY <1>4, <1>5, <3>1, <3>6, <3>7 DEF looks_like_http_request
    <3>9. ~HasLine => m < Ends(script, 1)
      BY <1>2, <2>3, <2>4, <3>3, <3>4, <3>7
    <3> QED
      BY <1>2, <1>7, <2>2, <2>6, <3>8, <3>9
  <2> QED
    BY <2>1, <2>2, <2>5, <2>6
<1> QED
  BY <1>6, <1>7

LEMMA Detecting ==
  ASSUME RequestInv, RecvAgain
  PROVE  RequestInv' /\ Moves
<1>1. BytesInv /\ MembersInv /\ PlaceInv /\ ParseInv /\ RestInv
  BY DEF RequestInv
<1>2. /\ UNCHANGED <<script, wire, peer_closed, read_buffer_, out, result, http, pending_llm>>
      /\ handler_' = Detected
  BY DEF RecvAgain, netVars, httpVars
<1>3. pc = "recv" /\ result = "none" /\ ~closing /\ read_buffer_ # <<>> /\ Mode # "closed"
  BY <1>1 DEF PlaceInv, RecvAgain, Mode
<1>4. BytesInv' /\ Pos' = Pos /\ Received' = Received
  BY <1>1, <1>2, <1>3, BytesKept
<1>5. MembersInv'
  BY <1>1, <1>2 DEF MembersInv
<1>6. CASE handler_ # "none"
  <2>1. handler_' = handler_ /\ pc' = "process" /\ closing' = closing
    BY <1>2, <1>6 DEF RecvAgain, Detected
  <2>2. PlaceInv'
    BY <1>1, <1>2, <1>3, <1>4, <1>6, <2>1 DEF PlaceInv
  <2>3. ParseInv'
    <3>1. SUFFICES ASSUME Working'
                   PROVE  /\ Len(out) <= Len(script)
                          /\ script[1].proto = "line" => Pos = Ends(script, Len(out))
                          /\ script[1].proto = "http" =>
                               HttpParse(http, script, Len(out), Pos, "process", result, pending_llm)
      BY <1>2, <1>4, <2>1 DEF ParseInv
    <3>2. Working /\ pc # "process"
      BY <1>2, <1>3, <2>1, <3>1 DEF Working
    <3> QED
      BY <1>1, <3>2, ParseAt DEF ParseInv
  <2>4. RestInv'
    BY <1>2, <1>3, <2>1 DEF RestInv
  <2>5. Mode' = Mode
    BY <1>2, <2>1 DEF Mode
  <2>6. Moves
    BY <1>2, <2>5, Stutters
  <2> QED
    BY <1>4, <1>5, <2>2, <2>3, <2>4, <2>6 DEF RequestInv
<1>7. CASE handler_ = "none"
  <2>1. http = Fresh /\ out = <<>> /\ Pos = 0 /\ Len(out) = 0
    BY <1>1, <1>7 DEF PlaceInv
  <2>2. /\ Detected \in {"none", "line", "http"}
        /\ Detected # "none" => Known(script) /\ script[1].proto = Detected
        /\ Detected = "none" /\ HasLine => ~Known(script)
        /\ Detected = "none" /\ Known(script) => Received < Ends(script, 1)
    BY <1>1, <1>3, <1>7, <2>1, Detection
  <2>3. Ends(script, 0) = 0 /\ Len(script) \in Nat
    BY <1>1, Setting, EndsEdges
  <2>4. ParseInv'
    <3>1. Len(out) <= Len(script) /\ Pos = Ends(script, Len(out))
      BY <2>1, <2>3
    <3>2. HttpParse(http, script, Len(out), Pos, pc', result, pending_llm)
      BY <1>3, <2>1, <3>1 DEF HttpParse
    <3> QED
      BY <1>2, <1>4, <3>1, <3>2 DEF ParseInv
  <2>5. CASE Detected # "none"
    <3>1. pc' = "process" /\ closing' = closing
      BY <2>5 DEF RecvAgain
    <3>2. PlaceInv'
      BY <1>1, <1>2, <1>3, <1>4, <2>2, <2>5, <3>1 DEF PlaceInv
    <3>3. RestInv'
      BY <1>2, <1>3, <3>1 DEF RestInv
    <3>4. Mode' = Mode
      BY <1>2, <1>7, <2>2, <3>1 DEF Mode
    <3>5. Moves
      BY <1>2, <3>4, Stutters
    <3> QED
      BY <1>4, <1>5, <2>4, <3>2, <3>3, <3>5 DEF RequestInv
  <2>6. CASE Detected = "none"
    <3>1. pc' = "wait" /\ closing' = (HasLine \/ peer_closed) /\ handler_' = handler_
      BY <1>2, <1>7, <2>6 DEF RecvAgain
    <3>2. PlaceInv'
      <4>1. closing' \in BOOLEAN
        BY <3>1
      <4> QED
        BY <1>1, <1>2, <1>3, <1>4, <1>7, <2>1, <3>1, <4>1 DEF PlaceInv
    <3>3. Known(script) => Starved
      BY <2>1, <2>2, <2>6 DEF Starved
    <3>4. RestInv'
      <4>1. Working' => Known(script)
        BY <1>2 DEF Working
      <4>2. Starved' <=> Starved
        BY <1>2, <1>4 DEF Starved
      <4> QED
        BY <3>3, <4>1, <4>2 DEF RestInv
    <3>5. Moves
      <4>1. CASE closing'
        <5>1. ~Known(script) \/ (peer_closed /\ Len(out) = Arrived)
          <6>1. SUFFICES ASSUME Known(script) PROVE (peer_closed /\ Len(out) = Arrived)
            OBVIOUS
          <6>2. peer_closed
            BY <2>2, <2>6, <3>1, <4>1, <6>1
          <6>3. Working
            BY <1>3, <1>7, <6>1 DEF Working
          <6> QED
            BY <1>1, <3>3, <6>1, <6>2, <6>3, StarvedMeans
        <5>2. Mode' = "closed"
          BY <4>1 DEF Mode
        <5>3. Len(wire') \in Nat /\ Len(wire') <= Len(wire)
          BY <1>1, <1>2, Setting, LenProperties
        <5> QED
          BY <1>1, <1>2, <1>3, <5>1, <5>2, <5>3, HangsUp
      <4>2. CASE ~closing'
        <5>1. Mode' = Mode
          BY <1>2, <1>3, <3>1, <4>2 DEF Mode
        <5> QED
          BY <1>2, <5>1, Stutters
      <4> QED
        BY <4>1, <4>2
    <3> QED
      BY <1>4, <1>5, <2>4, <3>2, <3>4, <3>5 DEF RequestInv
  <2> QED
    BY <2>5, <2>6
<1> QED
  BY <1>6, <1>7

(* The ends of a turn.                                                     *)
LEMMA Closing ==
  ASSUME RequestInv, Close
  PROVE  RequestInv' /\ Moves
<1>1. BytesInv /\ MembersInv /\ PlaceInv /\ ParseInv /\ RestInv
  BY DEF RequestInv
<1>2. /\ UNCHANGED <<script, wire, peer_closed, read_buffer_, out, http, pending_llm, handler_>>
      /\ closing' = TRUE /\ pc' = "wait" /\ result' = "none" /\ result = "CLOSE"
  BY DEF Close, netVars, EndTurn, Return
<1>3. BytesInv' /\ Pos' = Pos
  BY <1>1, <1>2, BytesKept
<1>4. MembersInv'
  BY <1>1, <1>2 DEF MembersInv
<1>5. PlaceInv'
  BY <1>1, <1>2, <1>3 DEF PlaceInv
<1>6. ParseInv' /\ RestInv'
  BY <1>2 DEF ParseInv, RestInv, Working
<1>7. Mode' = Mode
  BY <1>2 DEF Mode
<1>8. Moves
  BY <1>2, <1>7, Stutters
<1> QED
  BY <1>3, <1>4, <1>5, <1>6, <1>8 DEF RequestInv

(* Closing or keeping the connection at the end of a turn in which nothing *)
(* that could be answered is left.                                         *)
LEMMA TurnOver ==
  ASSUME BytesInv, MembersInv, PlaceInv, ParseInv, pc = "process", result # "CLOSE", result # "UPGRADE_SSE",
         UNCHANGED <<script, wire, peer_closed, read_buffer_, out, http, pending_llm, handler_>>,
         pc' = "wait", result' = "none", closing' = peer_closed,
         Working => Starved,
         Working /\ script[1].proto = "http" =>
           HttpParse(http, script, Len(out), Pos, "wait", "none", pending_llm)
  PROVE  RequestInv' /\ Moves
<1>1. ~closing /\ Known(script) /\ peer_closed \in BOOLEAN /\ handler_ # "none"
  BY DEF PlaceInv
<1>2. BytesInv' /\ Pos' = Pos /\ Received' = Received
  BY <1>1, BytesKept
<1>3. MembersInv'
  BY DEF MembersInv
<1>4. PlaceInv'
  BY <1>1, <1>2 DEF PlaceInv
<1>5. Working' => Working
  BY <1>1 DEF Working
<1>6. ParseInv'
  <2>1. SUFFICES ASSUME Working
                 PROVE  /\ Len(out) <= Len(script)
                        /\ script[1].proto = "line" => Pos = Ends(script, Len(out))
                        /\ script[1].proto = "http" =>
                             HttpParse(http, script, Len(out), Pos, "wait", "none", pending_llm)
    BY <1>2, <1>5 DEF ParseInv
  <2> QED
    BY <2>1 DEF ParseInv
<1>7. RestInv'
  <2>1. Starved' <=> Starved
    BY <1>2 DEF Starved
  <2> QED
    BY <1>5, <2>1 DEF RestInv
<1>8. Moves
  <2>1. CASE peer_closed
    <3>1. Mode = "stream" \/ Len(out) = Arrived
      <4>1. SUFFICES ASSUME handler_ # "sse" PROVE Len(out) = Arrived
        BY <1>1, ModeIs
      <4>2. Working
        BY <1>1, <4>1 DEF Working
      <4> QED
        BY <4>2, StarvedMeans
    <3>2. Mode # "closed" /\ Mode' = "closed"
      BY <1>1, <2>1 DEF Mode
    <3>3. Len(wire') \in Nat /\ Len(wire') <= Len(wire)
      BY Setting, LenProperties
    <3> QED
      BY <2>1, <3>1, <3>2, <3>3, HangsUp
  <2>2. CASE ~peer_closed
    <3>1. Mode' = Mode
      BY <1>1, <2>2 DEF Mode
    <3> QED
      BY <3>1, Stutters
  <2> QED
    BY <2>1, <2>2
<1> QED
  BY <1>2, <1>3, <1>4, <1>6, <1>7, <1>8 DEF RequestInv

LEMMA Resting ==
  ASSUME RequestInv, NeedMore
  PROVE  RequestInv' /\ Moves
<1>1. BytesInv /\ MembersInv /\ PlaceInv /\ ParseInv /\ RestInv
  BY DEF RequestInv
<1>2. /\ UNCHANGED <<script, wire, peer_closed, read_buffer_, out, http, pending_llm, handler_>>
      /\ pc' = "wait" /\ result' = "none" /\ closing' = peer_closed /\ pc = "process" /\ result = "NEED_MORE"
  BY DEF NeedMore, netVars, EndTurn, Return
<1>3. Working => Starved
  BY <1>1, <1>2 DEF RestInv
<1>4. Working /\ script[1].proto = "http" =>
        HttpParse(http, script, Len(out), Pos, "wait", "none", pending_llm)
  <2>1. SUFFICES ASSUME HttpParse(http, script, Len(out), Pos, pc, "NEED_MORE", pending_llm)
                 PROVE  HttpParse(http, script, Len(out), Pos, "wait", "none", pending_llm)
    BY <1>1, <1>2 DEF ParseInv
  <2> QED
    BY <2>1 DEF HttpParse, InRequest
<1> QED
  BY <1>1, <1>2, <1>3, <1>4, TurnOver

LEMMA GoingOn ==
  ASSUME RequestInv, Continue
  PROVE  RequestInv' /\ Moves
<1>1. BytesInv /\ MembersInv /\ PlaceInv /\ ParseInv /\ RestInv
  BY DEF RequestInv
<1>2. /\ UNCHANGED <<script, wire, peer_closed, read_buffer_, out, http, pending_llm, handler_>>
      /\ result' = "none" /\ pc = "process" /\ result = "CONTINUE"
  BY DEF Continue, netVars, EndTurn, Return
<1>3. /\ handler_ \in {"http", "line"} /\ ~closing /\ Working /\ script[1].proto \in {"http", "line"}
      /\ ~pending_llm
  BY <1>1, <1>2 DEF PlaceInv, Working
<1>4. /\ Len(out) <= Len(script) /\ Pos = Ends(script, Len(out))
      /\ script[1].proto = "http" => http = Fresh
  BY <1>1, <1>2, <1>3 DEF ParseInv, HttpParse, InRequest
<1>5. CASE read_buffer_ = <<>>
  <2>1. pc' = "wait" /\ closing' = peer_closed
    BY <1>5 DEF Continue, EndTurn
  <2>2. Starved
    BY <1>1, <1>4, <1>5, NothingLeft
  <2>3. script[1].proto = "http" => HttpParse(http, script, Len(out), Pos, "wait", "none", pending_llm)
    BY <1>4 DEF HttpParse
  <2> QED
    BY <1>1, <1>2, <2>1, <2>2, <2>3, TurnOver
<1>6. CASE read_buffer_ # <<>>
  <2>1. UNCHANGED <<pc, closing>>
    BY <1>6 DEF Continue
  <2>2. BytesInv' /\ Pos' = Pos
    BY <1>1, <1>2, <2>1, BytesKept
  <2>3. MembersInv'
    BY <1>1, <1>2 DEF MembersInv
  <2>4. PlaceInv'
    BY <1>1, <1>2, <1>3, <2>1, <2>2 DEF PlaceInv
  <2>5. ParseInv'
    <3>1. script[1].proto = "http" => HttpParse(http, script, Len(out), Pos, pc, "none", pending_llm)
      BY <1>4 DEF HttpParse
    <3> QED
      BY <1>2, <1>4, <2>1, <2>2, <3>1 DEF ParseInv
  <2>6. RestInv'
    BY <1>2, <2>1 DEF RestInv
  <2>7. Mode' = Mode
    BY <1>2, <2>1 DEF Mode
  <2>8. Moves
    BY <1>2, <2>7, Stutters
  <2> QED
    BY <2>2, <2>3, <2>4, <2>5, <2>6, <2>8 DEF RequestInv
<1> QED
  BY <1>5, <1>6

----------------------------------------------------------------------------
(* The steps of process(), in three kinds.                                 *)

(* It answers and closes.                                                  *)
LEMMA Refusing ==
  ASSUME RequestInv, pc = "process", result = "none", handler_ = "http",
         Len(out) < Len(script), NEW r, r = script[Len(out) + 1],
         Ends(script, Len(out) + 1) <= Received \/ Service!Early(r),
         NEW a, Service!Answer(r).send = a, Service!Answer(r).next = "close",
         UNCHANGED <<script, wire, pc, peer_closed, closing, handler_, pending_llm>>,
         out' = out \o a, MembersInv', result' = "CLOSE",
         Placed(script, read_buffer_, wire)', Len(read_buffer_') \in Nat, Len(read_buffer_') <= Len(read_buffer_)
  PROVE  RequestInv' /\ Moves
<1>1. BytesInv /\ MembersInv /\ PlaceInv /\ ParseInv /\ RestInv
  BY DEF RequestInv
<1>2. ~closing /\ Known(script) /\ Mode = "open" /\ Mode' = "closed"
  BY <1>1 DEF PlaceInv, Mode
<1>3. BytesInv'
  BY <1>1, <1>2, Setting, LimitAssumption DEF BytesInv
<1>4. PlaceInv'
  BY <1>1, <1>2 DEF PlaceInv, Results
<1>5. ParseInv' /\ RestInv'
  BY DEF ParseInv, RestInv, Working
<1>6. Moves
  BY <1>1, <1>2, Serves
<1> QED
  BY <1>3, <1>4, <1>5, <1>6 DEF RequestInv

(* It answers and goes on behind the request.                              *)
LEMMA Keeping ==
  ASSUME RequestInv, pc = "process", result = "none", handler_ \in {"http", "line"},
         Len(out) < Len(script), NEW r, r = script[Len(out) + 1],
         Ends(script, Len(out) + 1) <= Received,
         NEW a, Service!Answer(r).send = <<a>>, Service!Answer(r).next = "keep",
         UNCHANGED <<script, wire, pc, peer_closed, closing, handler_, pending_llm>>,
         out' = Append(out, a), MembersInv', result' \in {"none", "CONTINUE"},
         Placed(script, read_buffer_, wire)', Len(read_buffer_') \in Nat, Len(read_buffer_') <= Len(read_buffer_),
         Pos' = Ends(script, Len(out) + 1), handler_ = "http" => http' = Fresh
  PROVE  RequestInv' /\ Moves
<1>1. BytesInv /\ MembersInv /\ PlaceInv /\ ParseInv /\ RestInv
  BY DEF RequestInv
<1>2. ~closing /\ Known(script) /\ Mode = "open" /\ Mode' = "open"
  BY <1>1 DEF PlaceInv, Mode
<1>3. BytesInv'
  BY <1>1, <1>2, Setting, LimitAssumption DEF BytesInv
<1>4. ~pending_llm
  BY <1>1 DEF PlaceInv
<1>5. PlaceInv'
  BY <1>1, <1>2, <1>4 DEF PlaceInv, Results
<1>6. /\ out' = out \o <<a>> /\ Len(out') = Len(out) + 1 /\ Len(out) \in Nat /\ Len(script) \in Nat
  BY <1>1, Appended, Setting DEF MembersInv
<1>7. ParseInv'
  <2>1. Len(out') <= Len(script) /\ Pos' = Ends(script, Len(out'))
    BY <1>6
  <2>2. script[1].proto = "http" => http' = Fresh
    BY <1>1 DEF PlaceInv
  <2>3. script[1].proto = "http" => HttpParse(http', script, Len(out'), Pos', pc', result', pending_llm')
    BY <2>1, <2>2 DEF HttpParse
  <2> QED
    BY <2>1, <2>3 DEF ParseInv
<1>8. RestInv'
  BY DEF RestInv
<1>9. Moves
  BY <1>1, <1>2, <1>6, Serves
<1> QED
  BY <1>3, <1>5, <1>7, <1>8, <1>9 DEF RequestInv

(* It reads on in the request, without an answer.                          *)
LEMMA ReadingOn ==
  ASSUME RequestInv, pc = "process", result = "none", handler_ = "http",
         UNCHANGED <<script, wire, pc, peer_closed, closing, handler_, out>>,
         MembersInv', result' \in {"none", "NEED_MORE", "UPGRADE_SSE"},
         pending_llm' \in BOOLEAN, pending_llm' => result' = "UPGRADE_SSE",
         Placed(script, read_buffer_, wire)', Len(read_buffer_') \in Nat, Len(read_buffer_') <= Len(read_buffer_),
         HttpParse(http', script, Len(out), Pos', "process", result', pending_llm'),
         result' = "NEED_MORE" => Starved
  PROVE  RequestInv' /\ Moves
<1>1. BytesInv /\ MembersInv /\ PlaceInv /\ ParseInv /\ RestInv
  BY DEF RequestInv
<1>2. ~closing /\ Known(script) /\ Mode' = Mode /\ script[1].proto = "http" /\ Working
  BY <1>1 DEF PlaceInv, Mode, Working
<1>3. BytesInv'
  BY <1>1, <1>2, Setting, LimitAssumption DEF BytesInv
<1>4. PlaceInv'
  BY <1>1, <1>2 DEF PlaceInv, Results
<1>5. ParseInv'
  BY <1>1, <1>2 DEF ParseInv
<1>6. RestInv'
  <2>1. Starved' <=> Starved
    BY DEF Starved, Received
  <2> QED
    BY <2>1 DEF RestInv
<1>7. Moves
  BY <1>2, Stutters
<1> QED
  BY <1>3, <1>4, <1>5, <1>6, <1>7 DEF RequestInv

----------------------------------------------------------------------------
(* The request that process() is in.                                       *)
LEMMA Reading ==
  ASSUME RequestInv, pc = "process", result = "none", handler_ = "http"
  PROVE  /\ Working /\ pending_llm = FALSE /\ Len(out) <= Len(script) /\ Len(out) \in Nat
         /\ http.state_ = "PARSE_REQUEST_LINE" => http = Fresh /\ Pos = Ends(script, Len(out))
         /\ http.state_ # "PARSE_REQUEST_LINE" =>
              /\ Len(out) < Len(script)
              /\ \E q \in Nat : /\ Pos = Ends(script, Len(out)) + q
                                /\ \/ InHeaders(http, script[Len(out) + 1], q)
                                   \/ InBody(http, script[Len(out) + 1], q)
                                   \/ IsDone(http, script[Len(out) + 1], q)
<1>1. BytesInv /\ MembersInv /\ PlaceInv /\ ParseInv
  BY DEF RequestInv
<1>2. Working /\ pending_llm = FALSE /\ script[1].proto = "http"
  BY <1>1 DEF PlaceInv, Working
<1>3. Len(out) <= Len(script) /\ HttpParse(http, script, Len(out), Pos, pc, result, pending_llm)
  BY <1>1, <1>2 DEF ParseInv
<1>4. Len(out) \in Nat /\ script \in Seq(Request) /\ Pos \in Nat /\ http \in Members
  BY <1>1, Setting DEF MembersInv
<1>5. Ends(script, Len(out)) <= Pos /\ Ends(script, Len(out)) \in Nat
  BY <1>3, <1>4, ParsePlace
<1>6. PICK q \in Nat : q = Pos - Ends(script, Len(out))
  BY <1>4, <1>5
<1>7. Pos = Ends(script, Len(out)) + q
  BY <1>4, <1>5, <1>6
<1>8. \/ http = Fresh /\ Pos = Ends(script, Len(out))
      \/ /\ Len(out) < Len(script)
         /\ \/ InHeaders(http, script[Len(out) + 1], q)
            \/ InBody(http, script[Len(out) + 1], q)
            \/ IsDone(http, script[Len(out) + 1], q)
  BY <1>3, <1>6 DEF HttpParse, InRequest
<1>9. Fresh.state_ = "PARSE_REQUEST_LINE"
  BY DEF Fresh
<1> QED
  BY <1>2, <1>3, <1>4, <1>7, <1>8, <1>9 DEF InHeaders, InBody, IsDone

LEMMA NextHttp ==
  ASSUME BytesInv, MembersInv, PlaceInv, handler_ = "http", NEW k \in Nat, k < Len(script)
  PROVE  script[k + 1] \in Request /\ script[k + 1].proto = "http" /\ IsHttp(script[k + 1])
<1>1. k + 1 \in 1..Len(script) /\ Known(script) /\ script[1].proto = "http" /\ script \in Scripts
  BY Setting DEF PlaceInv, BytesInv
<1> QED
  BY <1>1, KnownScript DEF IsHttp

(* The line l of the request r that begins q bytes behind its start.       *)
(* A step that takes n bytes from the buffer leaves the rest in its place. *)
LEMMA BufferTaken ==
  ASSUME BytesInv, MembersInv, NEW n \in Nat, n <= Len(read_buffer_), UNCHANGED <<script, wire>>,
         read_buffer_' = SubSeq(read_buffer_, n + 1, Len(read_buffer_))
  PROVE  /\ Placed(script, read_buffer_, wire)' /\ Pos' = Pos + n
         /\ Len(read_buffer_') \in Nat /\ Len(read_buffer_') <= Len(read_buffer_)
<1>1. script \in Seq(Request) /\ Placed(script, read_buffer_, wire)
  BY Setting DEF BytesInv
<1>2. PICK m \in Nat : m = Len(read_buffer_) /\ n \in 0..m
  BY Setting
<1>3. n \in 0..Len(read_buffer_)
  BY <1>2
<1>4. PICK rest : rest = SubSeq(read_buffer_, n + 1, Len(read_buffer_)) /\ rest = read_buffer_'
  OBVIOUS
<1>5. /\ Placed(script, rest, wire) /\ Len(rest) = Len(read_buffer_) - n
      /\ Place(script, rest, wire) = Place(script, read_buffer_, wire) + n
  BY <1>1, <1>3, <1>4, Consume
<1>6. Placed(script, read_buffer_, wire)' /\ Pos' = Pos + n
  BY <1>4, <1>5 DEF Pos
<1>7. Len(rest) = m - n
  BY <1>2, <1>5
<1>8. Len(rest) \in Nat /\ Len(rest) <= m
  BY <1>2, <1>7
<1> QED
  BY <1>2, <1>4, <1>6, <1>8

LEMMA LineHere ==
  ASSUME BytesInv, MembersInv, NEW k \in Nat, k < Len(script), NEW r \in Request, r = script[k + 1],
         NEW q \in Nat, Pos = Ends(script, k) + q,
         NEW l \in Seq(Token), OneLine(l), At(Bytes(r), q, l \o CRLF)
  PROVE  /\ HasLine => Line = l
         /\ ~HasLine => Received < Ends(script, k + 1)
         /\ HasLine /\ TakeLine /\ UNCHANGED <<script, wire>> =>
              /\ Placed(script, read_buffer_, wire)' /\ Pos' = Ends(script, k) + (q + Len(l) + 2)
              /\ Len(read_buffer_') \in Nat /\ Len(read_buffer_') <= Len(read_buffer_)
<1>1. /\ script \in Seq(Request) /\ Placed(script, read_buffer_, wire)
      /\ Ends(script, k) \in Nat /\ Ends(script, k + 1) = Ends(script, k) + Len(Bytes(r))
      /\ At(Stream(script), Ends(script, k), Bytes(r))
      /\ Len(read_buffer_) \in Nat /\ Received = Pos + Len(read_buffer_)
  BY Setting, EndsNext DEF BytesInv
<1>2. PICK y \in Seq(Token), t \in Seq(Token), e \in Nat, n \in Nat, m \in Nat :
        /\ y = Bytes(r) /\ t = l \o CRLF /\ e = Ends(script, k) /\ n = Len(l) /\ m = Len(read_buffer_)
        /\ Len(t) = n + 2 /\ Len(y) \in Nat
  BY <1>1, LineEnded, BytesType
<1>3. At(Stream(script), e + q, t) /\ q + (n + 2) <= Len(y)
  <2>1. At(Stream(script), e, y) /\ At(y, q, t) /\ Stream(script) \in Seq(Token)
    BY <1>1, <1>2, PiecesType
  <2>2. At(Stream(script), e + q, t)
    BY <2>1, AtTransitive
  <2>3. q + (n + 2) <= Len(y)
    BY <1>2, <2>1 DEF At
  <2> QED
    BY <2>2, <2>3
<1>4. At(Stream(script), Place(script, read_buffer_, wire), l \o CRLF)
  BY <1>2, <1>3 DEF Pos
<1>5. (HasLine <=> n + 2 <= m) /\ (HasLine => Line = l /\ Min(LineEnds) + 2 = (n + 2) + 1)
  BY <1>1, <1>2, <1>4, LineFound
<1>6. ~HasLine => Received < Ends(script, k + 1)
  <2>1. SUFFICES ASSUME m < n + 2 PROVE (e + q) + m < e + Len(y)
    BY <1>1, <1>2, <1>5
  <2>2. PICK z \in Nat : z = Len(y) /\ q + (n + 2) <= z
    BY <1>2, <1>3
  <2>3. q + m < z
    BY <2>1, <2>2
  <2>4. (e + q) + m < e + z
    BY <2>2, <2>3
  <2> QED
    BY <2>2, <2>4
<1>7. ASSUME HasLine, TakeLine, UNCHANGED <<script, wire>>
      PROVE  /\ Placed(script, read_buffer_, wire)' /\ Pos' = e + (q + n + 2)
             /\ Len(read_buffer_') \in Nat /\ Len(read_buffer_') <= m
  <2>1. PICK i \in Nat : i = n + 2 /\ i <= Len(read_buffer_)
    BY <1>2, <1>5, <1>7
  <2>2. read_buffer_' = SubSeq(read_buffer_, i + 1, Len(read_buffer_))
    BY <1>5, <1>7, <2>1 DEF TakeLine
  <2>3. /\ Placed(script, read_buffer_, wire)' /\ Pos' = Pos + i
        /\ Len(read_buffer_') \in Nat /\ Len(read_buffer_') <= Len(read_buffer_)
    BY <1>7, <2>1, <2>2, BufferTaken
  <2>4. Pos' = (e + q) + (n + 2)
    BY <1>2, <2>1, <2>3
  <2>5. (e + q) + (n + 2) = e + (q + n + 2)
    OBVIOUS
  <2> QED
    BY <1>2, <2>3, <2>4, <2>5
<1> QED
  BY <1>2, <1>5, <1>6, <1>7

(* The line process() waits for in the headers.                            *)
LEMMA NextLine ==
  ASSUME NEW r \in Request, IsHttp(r), NEW j \in 0..Len(r.headers)
  PROVE  \E l \in Seq(Token) :
           /\ OneLine(l) /\ At(Bytes(r), Len(Preamble(r, j)), l \o CRLF) /\ Len(Preamble(r, j)) \in Nat
           /\ IF j = Len(r.headers) THEN l = <<>>
              ELSE j < Len(r.headers) /\ l = r.headers[j + 1] /\ l # <<>>
<1>1. r.proto = "http" /\ Len(r.headers) \in Nat /\ j \in Nat /\ j <= Len(r.headers) /\ Len(Preamble(r, j)) \in Nat
  BY RequestType, PreambleIs DEF IsHttp
<1>2. CASE j = Len(r.headers)
  <2>1. At(Bytes(r), Len(Preamble(r, j)), <<>> \o CRLF)
    BY <1>1, <1>2, HttpBytes
  <2>2. <<>> \in Seq(Token) /\ OneLine(<<>>)
    BY DEF OneLine
  <2> QED
    BY <1>1, <1>2, <2>1, <2>2
<1>3. CASE j # Len(r.headers)
  <2>1. j < Len(r.headers) /\ j \in 0..Len(r.headers) - 1 /\ j + 1 \in 1..Len(r.headers)
    BY <1>1, <1>3
  <2>2. At(Bytes(r), Len(Preamble(r, j)), r.headers[j + 1] \o CRLF)
    BY <1>1, <2>1, HttpBytes
  <2>3. /\ r.headers[j + 1] \in Seq(Token) /\ r.headers[j + 1] # <<>> /\ OneLine(r.headers[j + 1])
    BY <2>1, RequestType DEF IsHttp
  <2> QED
    BY <1>1, <1>3, <2>1, <2>2, <2>3
<1> QED
  BY <1>2, <1>3

----------------------------------------------------------------------------
(* The line protocol.                                                      *)
LEMMA TwoWords ==
  ASSUME NEW l \in Seq(Token), l # <<>>, l[1] = "TOOL|"
  PROVE  l = <<"TOOL|", "time">> <=> Tail(l) = <<"time">>
<1>1. PICK n \in Nat, t \in Seq(Token) :
        n = Len(l) /\ t = Tail(l) /\ Len(t) = n - 1 /\ n # 0 /\ \A i \in 1..n - 1 : t[i] = l[i + 1]
  <2>1. Len(l) \in Nat /\ Len(l) # 0
    BY EmptySeq, LenProperties
  <2>2. /\ Tail(l) \in Seq(Token) /\ Len(Tail(l)) = Len(l) - 1
        /\ \A i \in 1..Len(Tail(l)) : Tail(l)[i] = l[i + 1]
    BY HeadTailProperties
  <2> QED
    BY <2>1, <2>2
<1>2. ASSUME t = <<"time">> PROVE l = <<"TOOL|", "time">>
  <2>1. Len(t) = 1 /\ t[1] = "time"
    BY <1>2
  <2>2. n = 2
    BY <1>1, <2>1
  <2>3. l[2] = "time"
    <3>1. 1 \in 1..n - 1 /\ 1 + 1 = 2
      BY <2>2
    <3> QED
      BY <1>1, <2>1, <3>1
  <2>4. \A i \in 1..2 : l[i] = <<"TOOL|", "time">>[i]
    <3>1. \A i \in 1..2 : i = 1 \/ i = 2
      OBVIOUS
    <3> QED
      BY <2>3, <3>1
  <2>5. "TOOL|" \in Token /\ "time" \in Token
    <3>1. 1 \in 1..Len(l) /\ 2 \in 1..Len(l)
      BY <1>1, <2>2
    <3> QED
      BY <2>3, <3>1, ElementOfSeq
  <2>6. <<"TOOL|", "time">> \in Seq(Token) /\ Len(<<"TOOL|", "time">>) = 2
    BY <2>5
  <2> QED
    BY <1>1, <2>2, <2>4, <2>6, SeqEqual
<1>3. ASSUME l = <<"TOOL|", "time">> PROVE Tail(l) = <<"time">>
  BY <1>3
<1> QED
  BY <1>1, <1>2, <1>3

LEMMA DispatchIs ==
  ASSUME NEW l \in Seq(Token)
  PROVE  Service!LineAnswer(l).send = <<dispatch(l)>> /\ Service!LineAnswer(l).next = "keep"
<1>1. SUFFICES ASSUME NEW x, x = dispatch(l)
               PROVE  Service!LineAnswer(l) = [send |-> <<x>>, next |-> "keep"]
  OBVIOUS
<1>2. CASE l = <<>>
  <2>1. x = Response("ERR|", <<"unknown_type">>, TRUE)
    BY <1>1, <1>2 DEF dispatch
  <2>2. l # <<"TOOL|", "time">>
    BY <1>2
  <2> QED
    BY <1>2, <2>1, <2>2, SameResponse DEF Service!LineAnswer
<1>3. CASE l # <<>>
  <2>0. PICK w : w = l[1] /\ (w # "TOOL|" => l # <<"TOOL|", "time">>)
    <3>1. <<"TOOL|", "time">>[1] = "TOOL|"
      OBVIOUS
    <3> QED
      BY <3>1
  <2>1. CASE w = "PING|"
    <3>1. x = Response("PONG|", Tail(l), TRUE)
      BY <1>1, <1>3, <2>0, <2>1 DEF dispatch
    <3>2. l # <<"TOOL|", "time">>
      BY <2>0, <2>1
    <3> QED
      BY <1>3, <2>0, <2>1, <3>1, <3>2, SameResponse DEF Service!LineAnswer
  <2>2. CASE w = "CHAT|"
    <3>1. x = Response("CHAT_ACK|", Tail(l), TRUE)
      BY <1>1, <1>3, <2>0, <2>2 DEF dispatch
    <3>2. l # <<"TOOL|", "time">>
      BY <2>0, <2>2
    <3> QED
      BY <1>3, <2>0, <2>2, <3>1, <3>2, SameResponse DEF Service!LineAnswer
  <2>3. CASE w = "TOOL|"
    <3>1. l = <<"TOOL|", "time">> <=> Tail(l) = <<"time">>
      BY <1>3, <2>0, <2>3, TwoWords
    <3>2. x = IF Tail(l) = <<"time">> THEN Response("TOOL_RES|", <<"now">>, TRUE)
              ELSE Response("ERR|", <<"unknown_tool">>, TRUE)
      BY <1>1, <1>3, <2>0, <2>3 DEF dispatch
    <3> QED
      BY <1>3, <2>0, <2>3, <3>1, <3>2, SameResponse DEF Service!LineAnswer
  <2>4. CASE w \notin {"PING|", "CHAT|", "TOOL|"}
    <3>1. l # <<"TOOL|", "time">>
      BY <2>0, <2>4
    <3>2. x = Response("ERR|", <<"unknown_type">>, TRUE)
      BY <1>1, <1>3, <2>0, <2>4 DEF dispatch
    <3> QED
      BY <2>0, <2>4, <3>1, <3>2, SameResponse DEF Service!LineAnswer
  <2> QED
    BY <2>1, <2>2, <2>3, <2>4
<1> QED
  BY <1>2, <1>3

LEMMA LineStep ==
  ASSUME RequestInv, Process, handler_ = "line"
  PROVE  RequestInv' /\ Moves
<1>1. BytesInv /\ MembersInv /\ PlaceInv /\ ParseInv /\ RestInv
  BY DEF RequestInv
<1>2. /\ pc = "process" /\ result = "none" /\ LineProcess
      /\ UNCHANGED <<script, wire, peer_closed, pc, handler_, closing, http, pending_llm>>
  BY DEF Process, netVars, LineProcess
<1>3. Working /\ script[1].proto = "line" /\ ~closing /\ Known(script) /\ pending_llm = FALSE /\ script \in Scripts
  BY <1>1, <1>2 DEF PlaceInv, Working, BytesInv
<1>4. PICK k \in Nat : k = Len(out) /\ k <= Len(script) /\ Pos = Ends(script, k)
  BY <1>1, <1>3, Setting DEF ParseInv
<1>5. /\ script \in Seq(Request) /\ Placed(script, read_buffer_, wire) /\ Received = Pos + Len(read_buffer_)
      /\ Len(read_buffer_) \in Nat /\ Pos \in Nat /\ Len(script) \in Nat
  BY <1>1, Setting DEF BytesInv
<1>6. ASSUME k < Len(script)
      PROVE  /\ script[k + 1] \in Request /\ IsLine(script[k + 1])
             /\ Ends(script, k + 1) = Ends(script, k) + Len(Bytes(script[k + 1]))
             /\ Len(Bytes(script[k + 1])) \in Nat
             /\ Feeds # {} <=> Len(Bytes(script[k + 1])) <= Len(read_buffer_)
             /\ Feeds # {} => LfLine = script[k + 1].line /\ Min(Feeds) = Len(Bytes(script[k + 1]))
  <2>1. PICK r : r = script[k + 1]
    OBVIOUS
  <2>2. k + 1 \in 1..Len(script)
    BY <1>5, <1>6
  <2>3. r \in Request /\ IsLine(r)
    BY <1>3, <2>1, <2>2, KnownScript
  <2>4. Ends(script, k + 1) = Ends(script, k) + Len(Bytes(r)) /\ At(Stream(script), Ends(script, k), Bytes(r))
    BY <1>1, <1>6, <2>1, EndsNext
  <2>5. At(Stream(script), Place(script, read_buffer_, wire), Bytes(r))
    BY <1>4, <2>4 DEF Pos
  <2>6. /\ Feeds # {} <=> Len(Bytes(r)) <= Len(read_buffer_)
        /\ Feeds # {} => LfLine = r.line /\ Min(Feeds) = Len(Bytes(r))
    BY <1>5, <2>3, <2>5, FeedFound
  <2> QED
    BY <2>1, <2>3, <2>4, <2>6, BytesType
<1>7. CASE Feeds = {}
  <2>1. UNCHANGED <<read_buffer_, out>> /\ result' \in {"CONTINUE", "NEED_MORE"}
    BY <1>2, <1>7 DEF LineProcess, Return
  <2>2. BytesInv' /\ Pos' = Pos /\ Received' = Received
    BY <1>1, <1>2, <1>3, <2>1, BytesKept
  <2>3. MembersInv'
    BY <1>1, <1>2, <2>1 DEF MembersInv
  <2>4. PlaceInv'
    BY <1>1, <1>2, <1>3, <2>1, <2>2 DEF PlaceInv, Results
  <2>5. ParseInv'
    BY <1>1, <1>2, <1>3, <1>4, <2>1, <2>2 DEF ParseInv
  <2>6. Starved
    <3>1. SUFFICES ASSUME k < Len(script) PROVE Received < Ends(script, k + 1)
      BY <1>4 DEF Starved
    <3>2. PICK a \in Nat, b \in Nat : a = Len(Bytes(script[k + 1])) /\ b = Len(read_buffer_)
      BY <1>5, <1>6, <3>1
    <3>3. b < a /\ Received = Ends(script, k) + b /\ Ends(script, k + 1) = Ends(script, k) + a
      BY <1>4, <1>5, <1>6, <1>7, <3>1, <3>2
    <3> QED
      BY <1>4, <1>5, <3>2, <3>3
  <2>7. RestInv'
    <3>1. Starved' <=> Starved
      BY <1>2, <2>1, <2>2 DEF Starved
    <3> QED
      BY <2>6, <3>1 DEF RestInv
  <2>8. Mode' = Mode
    BY <1>2, <2>1 DEF Mode
  <2>9. Moves
    BY <1>2, <2>1, <2>8, Stutters
  <2> QED
    BY <2>2, <2>3, <2>4, <2>5, <2>7, <2>9 DEF RequestInv
<1>8. CASE Feeds # {}
  <2>1. /\ read_buffer_' = SubSeq(read_buffer_, Min(Feeds) + 1, Len(read_buffer_))
        /\ out' = Append(out, dispatch(LfLine)) /\ result' = result
    BY <1>2, <1>8 DEF LineProcess, Send
  <2>2. read_buffer_ # <<>>
    BY <1>8 DEF Feeds
  <2>3. k < Len(script)
    BY <1>1, <1>4, <2>2, MoreToCome
  <2>4. PICK r \in Request, a \in Nat, b \in Nat :
          /\ r = script[k + 1] /\ a = Len(Bytes(r)) /\ b = Len(read_buffer_) /\ a <= b
          /\ LfLine = r.line /\ Min(Feeds) = a /\ Ends(script, k + 1) = Ends(script, k) + a /\ IsLine(r)
    BY <1>5, <1>6, <1>8, <2>3
  <2>5. a \in 0..Len(read_buffer_)
    BY <2>4
  <2>6. /\ Placed(script, read_buffer_', wire) /\ Len(read_buffer_') = b - a
        /\ Place(script, read_buffer_', wire) = Pos + a
    <3>1. read_buffer_' = SubSeq(read_buffer_, a + 1, Len(read_buffer_))
      BY <2>1, <2>4
    <3>2. /\ Placed(script, read_buffer_', wire) /\ Len(read_buffer_') = Len(read_buffer_) - a
          /\ Place(script, read_buffer_', wire) = Place(script, read_buffer_, wire) + a
      BY <1>5, <2>5, <3>1, Consume
    <3> QED
      BY <2>4, <3>2 DEF Pos
  <2>7. Placed(script, read_buffer_, wire)' /\ Pos' = Ends(script, k + 1)
    BY <1>2, <1>4, <2>4, <2>6 DEF Pos
  <2>8. Len(read_buffer_') \in Nat /\ Len(read_buffer_') <= Len(read_buffer_)
    BY <2>4, <2>6
  <2>9. Ends(script, k + 1) <= Received
    BY <1>4, <1>5, <2>4
  <2>10. Service!Answer(r) = Service!LineAnswer(r.line)
    BY <2>4 DEF IsLine, Service!Answer, Service!Early
  <2>11. Service!Answer(r).send = <<dispatch(LfLine)>> /\ Service!Answer(r).next = "keep"
    BY <2>4, <2>10, RequestType, DispatchIs
  <2>12. MembersInv'
    BY <1>1, <1>2, <2>1, Appended DEF MembersInv
  <2> QED
    BY <1>2, <1>4, <2>1, <2>3, <2>4, <2>7, <2>8, <2>9, <2>11, <2>12, Keeping
<1> QED
  BY <1>7, <1>8

LEMMA StreamStep ==
  ASSUME RequestInv, Process, handler_ = "sse"
  PROVE  RequestInv' /\ Moves
<1>1. BytesInv /\ MembersInv /\ PlaceInv /\ ParseInv /\ RestInv
  BY DEF RequestInv
<1>2. /\ pc = "process" /\ result = "none" /\ result' = "NEED_MORE"
      /\ UNCHANGED <<script, wire, peer_closed, pc, handler_, closing, http, pending_llm, read_buffer_, out>>
  BY DEF Process, netVars, Return
<1>3. BytesInv' /\ Pos' = Pos
  BY <1>1, <1>2, BytesKept
<1>4. MembersInv'
  BY <1>1, <1>2 DEF MembersInv
<1>5. PlaceInv'
  BY <1>1, <1>2, <1>3 DEF PlaceInv, Results
<1>6. ParseInv' /\ RestInv'
  BY <1>2 DEF ParseInv, RestInv, Working
<1>7. Mode' = Mode
  BY <1>2 DEF Mode
<1>8. Moves
  BY <1>2, <1>7, Stutters
<1> QED
  BY <1>3, <1>4, <1>5, <1>6, <1>8 DEF RequestInv

----------------------------------------------------------------------------
(* The steps in an HTTP request.                                           *)
HttpTurn ==
  /\ pc = "process" /\ result = "none" /\ handler_ = "http"
  /\ UNCHANGED <<script, wire, peer_closed, pc, handler_, closing>>

LEMMA LineMissing ==
  ASSUME RequestInv, HttpTurn, NeedLine
  PROVE  RequestInv' /\ Moves
<1>1. BytesInv /\ MembersInv /\ PlaceInv
  BY DEF RequestInv
<1>2. /\ pc = "process" /\ result = "none" /\ handler_ = "http"
      /\ UNCHANGED <<script, wire, peer_closed, pc, handler_, closing, read_buffer_, out, http, pending_llm>>
      /\ result' = "NEED_MORE" /\ ~HasLine /\ http.state_ \in {"PARSE_REQUEST_LINE", "PARSE_HEADERS"}
  BY DEF HttpTurn, NeedLine, Return
<1>3. PICK k \in Nat : k = Len(out) /\ k <= Len(script) /\ pending_llm = FALSE
  BY <1>2, Reading
<1>4. /\ Placed(script, read_buffer_, wire)' /\ Pos' = Pos
      /\ Len(read_buffer_') \in Nat /\ Len(read_buffer_') <= Len(read_buffer_)
  BY <1>1, <1>2, Setting DEF BytesInv, Placed, Pos
<1>5. MembersInv'
  BY <1>1, <1>2 DEF MembersInv
<1>6. CASE http.state_ = "PARSE_REQUEST_LINE"
  <2>1. http = Fresh /\ Pos = Ends(script, k)
    BY <1>2, <1>3, <1>6, Reading
  <2>2. HttpParse(http', script, k, Pos', "process", result', pending_llm')
    BY <1>2, <1>4, <2>1 DEF HttpParse
  <2>3. ASSUME k < Len(script) PROVE Received < Ends(script, k + 1)
    <3>1. PICK r \in Request : r = script[k + 1] /\ IsHttp(r) /\ r.proto = "http"
      BY <1>1, <1>2, <2>3, NextHttp
    <3>2. r.line \in Seq(Token) /\ OneLine(r.line) /\ At(Bytes(r), 0, r.line \o CRLF)
      BY <3>1, HttpBytes, RequestType DEF IsHttp
    <3>3. Pos = Ends(script, k) + 0
      BY <1>1, <2>1, Setting
    <3> QED
      BY <1>1, <1>2, <2>3, <3>1, <3>2, <3>3, LineHere
  <2>4. Starved
    BY <1>3, <2>3 DEF Starved
  <2> QED
    BY <1>2, <1>3, <1>4, <1>5, <2>2, <2>4, ReadingOn
<1>7. CASE http.state_ = "PARSE_HEADERS"
  <2>1. PICK q \in Nat : /\ k < Len(script) /\ Pos = Ends(script, k) + q
                         /\ InHeaders(http, script[k + 1], q)
    BY <1>2, <1>3, <1>7, Reading DEF InBody, IsDone
  <2>2. PICK r \in Request : r = script[k + 1] /\ IsHttp(r) /\ r.proto = "http"
    BY <1>1, <1>2, <2>1, NextHttp
  <2>3. PICK j \in 0..Len(r.headers) : q = Len(Preamble(r, j))
    BY <2>1, <2>2 DEF InHeaders
  <2>4. PICK l \in Seq(Token) : OneLine(l) /\ At(Bytes(r), q, l \o CRLF)
    BY <2>2, <2>3, NextLine
  <2>5. Received < Ends(script, k + 1)
    BY <1>1, <1>2, <2>1, <2>2, <2>4, LineHere
  <2>6. Starved
    BY <1>3, <2>5 DEF Starved
  <2>7. q = Pos' - Ends(script, k)
    BY <1>1, <1>4, <2>1, EndsNext
  <2>8. HttpParse(http', script, k, Pos', "process", result', pending_llm')
    BY <1>2, <2>1, <2>7 DEF HttpParse, InRequest
  <2> QED
    BY <1>2, <1>3, <1>4, <1>5, <2>6, <2>8, ReadingOn
<1> QED
  BY <1>2, <1>6, <1>7

LEMMA LineTaken ==
  ASSUME RequestInv, HttpTurn, RequestLine
  PROVE  RequestInv' /\ Moves
<1>1. BytesInv /\ MembersInv /\ PlaceInv
  BY DEF RequestInv
<1>2. /\ pc = "process" /\ result = "none" /\ handler_ = "http"
      /\ UNCHANGED <<script, wire, peer_closed, pc, handler_, closing, pending_llm>>
      /\ HasLine /\ TakeLine /\ http.state_ = "PARSE_REQUEST_LINE"
  BY DEF HttpTurn, RequestLine
<1>3. PICK k \in Nat : /\ k = Len(out) /\ k <= Len(script) /\ pending_llm = FALSE
                       /\ http = Fresh /\ Pos = Ends(script, k)
  BY <1>2, Reading
<1>4. k < Len(script)
  <2>1. read_buffer_ # <<>>
    BY <1>2 DEF HasLine, LineEnds
  <2> QED
    BY <1>1, <1>3, <2>1, MoreToCome
<1>5. PICK r \in Request : r = script[k + 1] /\ IsHttp(r) /\ r.proto = "http"
  BY <1>1, <1>2, <1>4, NextHttp
<1>6. PICK l \in Seq(Token), n \in Nat :
        /\ l = r.line /\ n = Len(l) /\ OneLine(l) /\ At(Bytes(r), 0, l \o CRLF) /\ n + 2 = Len(Preamble(r, 0))
  BY <1>5, HttpBytes, RequestType, PreambleStart DEF IsHttp
<1>7. /\ Line = l /\ Placed(script, read_buffer_, wire)' /\ Pos' = Ends(script, k) + (n + 2)
      /\ Len(read_buffer_') \in Nat /\ Len(read_buffer_') <= Len(read_buffer_)
  <2>1. Pos = Ends(script, k) + 0
    BY <1>1, <1>3, Setting
  <2>2. Pos' = Ends(script, k) + (0 + n + 2)
    BY <1>1, <1>2, <1>4, <1>5, <1>6, <2>1, LineHere
  <2>3. 0 + n + 2 = n + 2
    OBVIOUS
  <2> QED
    BY <1>1, <1>2, <1>4, <1>5, <1>6, <2>1, <2>2, <2>3, LineHere
<1>8. http \in Members /\ http.header_bytes_ <= MaxHeaderBytes /\ http.header_count_ <= MaxHeaderCount
  BY <1>1 DEF MembersInv
<1>9. MaxHeaderBytes \in Nat /\ MaxHeaderCount \in Nat
  BY LimitAssumption
<1>10. CASE n + 2 > MaxHeaderBytes
  <2>1. /\ out' = Append(out, Response("431", <<>>, FALSE)) /\ result' = "CLOSE"
        /\ http' = [http EXCEPT !.keep_alive_ = FALSE]
    BY <1>6, <1>7, <1>10 DEF RequestLine, send_error_response, Send, Return
  <2>2. MembersInv'
    <3>1. \E S : out' \in Seq(S)
      BY <1>1, <2>1, Appended DEF MembersInv
    <3>2. http' \in Members /\ http'.header_bytes_ = http.header_bytes_ /\ http'.header_count_ = http.header_count_
          /\ http'.state_ # "PARSE_BODY"
      BY <1>2, <1>8, <2>1 DEF Members
    <3> QED
      BY <1>8, <3>1, <3>2 DEF MembersInv
  <2>3. Service!Early(r) /\ Service!Answer(r) = Service!Refuse("431")
    BY <1>5, <1>6, <1>10, BadLineAnswer
  <2>4. Service!Answer(r).send = <<Response("431", <<>>, FALSE)>> /\ Service!Answer(r).next = "close"
    BY <2>3, RefuseIs
  <2>5. out' = out \o <<Response("431", <<>>, FALSE)>>
    BY <1>1, <2>1, Appended DEF MembersInv
  <2> QED
    BY <1>2, <1>3, <1>4, <1>5, <1>7, <2>1, <2>2, <2>3, <2>4, <2>5, Refusing
<1>11. CASE ~(n + 2 > MaxHeaderBytes)
  <2>1. /\ http' = [http EXCEPT !.line = l, !.header_bytes_ = n + 2, !.header_count_ = 0,
                      !.state_ = IF parse_request_line(l) THEN "PARSE_HEADERS" ELSE @]
        /\ result' = (IF parse_request_line(l) THEN "none" ELSE "CLOSE") /\ out' = out
    BY <1>6, <1>7, <1>11 DEF RequestLine
  <2>2. MembersInv'
    <3>1. http' \in Members /\ http'.state_ # "PARSE_BODY"
      <4>1. PICK st \in States : /\ st = (IF parse_request_line(l) THEN "PARSE_HEADERS" ELSE http.state_)
                                 /\ st # "PARSE_BODY"
        BY <1>2 DEF States
      <4>2. http' = [http EXCEPT !.line = l, !.header_bytes_ = n + 2, !.header_count_ = 0, !.state_ = st]
        BY <2>1, <4>1
      <4>3. n + 2 \in Nat /\ l \in Seq(Token)
        BY <1>6
      <4> QED
        BY <1>8, <4>1, <4>2, <4>3 DEF Members
    <3>2. http'.header_bytes_ <= MaxHeaderBytes /\ http'.header_count_ <= MaxHeaderCount
      <4>1. http'.header_bytes_ = n + 2 /\ http'.header_count_ = 0
        BY <1>8, <2>1 DEF Members
      <4> QED
        BY <1>9, <1>11, <4>1
    <3> QED
      BY <1>1, <2>1, <3>1, <3>2 DEF MembersInv
  <2>3. CASE ~parse_request_line(l)
    <3>1. Service!Early(r) /\ Service!Answer(r) = Service!Drop
      BY <1>5, <1>6, <1>11, <2>3, BadLineAnswer
    <3>2. Service!Answer(r).send = <<>> /\ Service!Answer(r).next = "close"
      BY <3>1 DEF Service!Drop
    <3>3. out' = out \o <<>>
      BY <1>1, <2>1, NothingAppended DEF MembersInv
    <3>4. result' = "CLOSE"
      BY <2>1, <2>3
    <3> QED
      BY <1>2, <1>3, <1>4, <1>5, <1>7, <2>2, <3>1, <3>2, <3>3, <3>4, Refusing
  <2>4. CASE parse_request_line(l)
    <3>1. result' = "none" /\ http'.state_ = "PARSE_HEADERS" /\ http'.line = l /\ http'.header_bytes_ = n + 2
          /\ http'.header_count_ = 0 /\ http'.body_ = <<>> /\ http'.headers_ = <<>>
          /\ http'.content_length_ = 0 /\ http'.keep_alive_ = TRUE
      BY <1>3, <2>1, <2>4 DEF Fresh
    <3>2. Connections(r, 0) = {} /\ Lengths(r, 0) = {} /\ Accepts(r, 0) = {}
      BY DEF Connections, Lengths, Accepts
    <3>3. HeadRead(http', r, 0)
      <4>1. "accept" \notin DOMAIN http'.headers_
        BY <3>1
      <4> QED
        BY <1>6, <3>1, <3>2, <4>1 DEF HeadRead
    <3>4. 0 \in 0..Len(r.headers)
      BY RequestType
    <3>5. GoodHead(r, 0)
      BY <1>6, <1>9, <1>11, <2>4, <3>4 DEF GoodHead
    <3>6. InHeaders(http', r, n + 2)
      BY <1>6, <3>1, <3>3, <3>4, <3>5 DEF InHeaders
    <3>7. n + 2 = Pos' - Ends(script, k)
      BY <1>1, <1>3, <1>7, Setting
    <3>8. HttpParse(http', script, k, Pos', "process", result', pending_llm')
      BY <1>4, <1>5, <3>1, <3>6, <3>7 DEF HttpParse, InRequest
    <3> QED
      BY <1>2, <1>3, <1>7, <2>1, <2>2, <3>1, <3>8, ReadingOn
  <2> QED
    BY <2>3, <2>4
<1> QED
  BY <1>10, <1>11

LEMMA HeaderTaken ==
  ASSUME RequestInv, HttpTurn, HeaderLine
  PROVE  RequestInv' /\ Moves
<1>1. BytesInv /\ MembersInv /\ PlaceInv
  BY DEF RequestInv
<1>2. /\ pc = "process" /\ result = "none" /\ handler_ = "http"
      /\ UNCHANGED <<script, wire, peer_closed, pc, handler_, closing, pending_llm>>
      /\ HasLine /\ TakeLine /\ http.state_ = "PARSE_HEADERS" /\ Line # <<>>
  BY DEF HttpTurn, HeaderLine
<1>3. PICK k \in Nat, q \in Nat :
        /\ k = Len(out) /\ k < Len(script) /\ pending_llm = FALSE
        /\ Pos = Ends(script, k) + q /\ InHeaders(http, script[k + 1], q)
  BY <1>2, Reading DEF InBody, IsDone
<1>4. PICK r \in Request : r = script[k + 1] /\ IsHttp(r) /\ r.proto = "http"
  BY <1>1, <1>2, <1>3, NextHttp
<1>5. PICK j \in 0..Len(r.headers) :
        GoodHead(r, j) /\ HeadRead(http, r, j) /\ q = Len(Preamble(r, j)) /\ http.body_ = <<>>
  BY <1>3, <1>4 DEF InHeaders
<1>6. PICK l \in Seq(Token) :
        /\ OneLine(l) /\ At(Bytes(r), q, l \o CRLF)
        /\ IF j = Len(r.headers) THEN l = <<>> ELSE j < Len(r.headers) /\ l = r.headers[j + 1] /\ l # <<>>
  BY <1>4, <1>5, NextLine
<1>7. /\ Line = l /\ Placed(script, read_buffer_, wire)' /\ Pos' = Ends(script, k) + (q + Len(l) + 2)
      /\ Len(read_buffer_') \in Nat /\ Len(read_buffer_') <= Len(read_buffer_)
  BY <1>1, <1>2, <1>3, <1>4, <1>6, LineHere
<1>8. j < Len(r.headers) /\ l = r.headers[j + 1] /\ j \in Nat
  BY <1>2, <1>6, <1>7, RequestType
<1>9. PICK i \in Nat, n \in Nat, bytes \in Nat :
        /\ i = j + 1 /\ i \in 0..Len(r.headers) /\ i \in 1..Len(r.headers) /\ n = Len(l)
        /\ bytes = q + n + 2 /\ bytes = Len(Preamble(r, i)) /\ l = r.headers[i]
        /\ http.header_bytes_ = q /\ http.header_count_ + 1 = i
  <2>1. PICK n \in Nat : n = Len(l)
    BY LenProperties
  <2>2. Len(Preamble(r, j + 1)) = q + n + 2
    BY <1>5, <1>8, <2>1, PreambleGrows
  <2>3. j + 1 \in 0..Len(r.headers) /\ j + 1 \in 1..Len(r.headers)
    BY <1>8, PreambleGrows
  <2>4. http.header_bytes_ = q /\ http.header_count_ = j
    BY <1>5 DEF HeadRead
  <2>5. q + n + 2 \in Nat /\ j + 1 \in Nat
    BY <1>8
  <2> QED
    BY <1>8, <2>1, <2>2, <2>3, <2>4, <2>5
<1>10. /\ http \in Members /\ http.header_bytes_ <= MaxHeaderBytes /\ http.header_count_ <= MaxHeaderCount
       /\ \E S : out \in Seq(S)
  BY <1>1 DEF MembersInv
<1>11. http.header_bytes_ + Len(Line) + 2 = bytes /\ http.header_count_ + 1 = i
  BY <1>7, <1>9
<1>12. CASE HeadersTooBig(i, bytes)
  <2>1. /\ out' = Append(out, Response("431", <<>>, FALSE)) /\ result' = "CLOSE"
        /\ http' = [http EXCEPT !.keep_alive_ = FALSE]
    BY <1>11, <1>12 DEF HeaderLine, send_error_response, Send, Return
  <2>2. MembersInv'
    <3>1. \E S : out' \in Seq(S)
      BY <1>10, <2>1, Appended
    <3>2. http' \in Members /\ http'.header_bytes_ = http.header_bytes_ /\ http'.header_count_ = http.header_count_
          /\ http'.state_ # "PARSE_BODY"
      BY <1>2, <1>10, <2>1 DEF Members
    <3> QED
      BY <1>10, <3>1, <3>2 DEF MembersInv
  <2>3. i > MaxHeaderCount \/ Len(Preamble(r, i)) > MaxHeaderBytes
    BY <1>9, <1>12 DEF HeadersTooBig
  <2>4. Service!Early(r) /\ Service!Answer(r) = Service!Refuse("431")
    <3>1. ~(parse_header_line(r.headers[i]) /\ i <= MaxHeaderCount /\ Len(Preamble(r, i)) <= MaxHeaderBytes)
      BY <1>9, <2>3, LimitAssumption
    <3>2. /\ Service!Early(r)
          /\ Service!Answer(r) = Service!Refuse(IF i > MaxHeaderCount \/ Len(Preamble(r, i)) > MaxHeaderBytes
                                                THEN "431" ELSE "400")
      BY <1>4, <1>5, <1>8, <1>9, <3>1, BadHeaderAnswer
    <3> QED
      BY <2>3, <3>2
  <2>5. Service!Answer(r).send = <<Response("431", <<>>, FALSE)>> /\ Service!Answer(r).next = "close"
    BY <2>4, RefuseIs
  <2>6. out' = out \o <<Response("431", <<>>, FALSE)>>
    BY <1>10, <2>1, Appended
  <2> QED
    BY <1>2, <1>3, <1>4, <1>7, <2>1, <2>2, <2>4, <2>5, <2>6, Refusing
<1>13. CASE ~HeadersTooBig(i, bytes) /\ ~parse_header_line(l)
  <2>1. out' = Append(out, Response("400", <<>>, FALSE)) /\ result' = "CLOSE" /\ http' = http
    BY <1>7, <1>11, <1>13 DEF HeaderLine, Send, Return
  <2>2. MembersInv'
    <3>1. \E S : out' \in Seq(S)
      BY <1>10, <2>1, Appended
    <3> QED
      BY <1>1, <2>1, <3>1 DEF MembersInv
  <2>3. ~(i > MaxHeaderCount \/ Len(Preamble(r, i)) > MaxHeaderBytes) /\ ~parse_header_line(r.headers[i])
    BY <1>9, <1>13 DEF HeadersTooBig
  <2>4. Service!Early(r) /\ Service!Answer(r) = Service!Refuse("400")
    <3>1. /\ Service!Early(r)
          /\ Service!Answer(r) = Service!Refuse(IF i > MaxHeaderCount \/ Len(Preamble(r, i)) > MaxHeaderBytes
                                                THEN "431" ELSE "400")
      BY <1>4, <1>5, <1>8, <1>9, <2>3, BadHeaderAnswer
    <3> QED
      BY <2>3, <3>1
  <2>5. Service!Answer(r).send = <<Response("400", <<>>, FALSE)>> /\ Service!Answer(r).next = "close"
    BY <2>4, RefuseIs
  <2>6. out' = out \o <<Response("400", <<>>, FALSE)>>
    BY <1>10, <2>1, Appended
  <2> QED
    BY <1>2, <1>3, <1>4, <1>7, <2>1, <2>2, <2>4, <2>5, <2>6, Refusing
<1>14. CASE ~HeadersTooBig(i, bytes) /\ parse_header_line(l)
  <2>1. /\ http' = [HeaderStored(l) EXCEPT !.header_bytes_ = bytes, !.header_count_ = i]
        /\ UNCHANGED <<out, result>>
    BY <1>7, <1>11, <1>14 DEF HeaderLine
  <2>2. Len(l) >= 2 /\ (l[1] = "content-length" => l[2] \in DOMAIN Numeral)
    BY <1>14 DEF parse_header_line
  <2>3. PICK t \in HeaderTable, c \in Nat, b \in BOOLEAN :
          /\ t = Stored(http.headers_, l)
          /\ c = (IF l[1] = "content-length" THEN Numeral[l[2]] ELSE http.content_length_)
          /\ b = (IF l[1] = "connection" /\ l[2] \in {"close", "keep-alive"} THEN l[2] = "keep-alive"
                  ELSE http.keep_alive_)
    <3>1. http.headers_ \in HeaderTable /\ http.content_length_ \in Nat /\ http.keep_alive_ \in BOOLEAN
      BY <1>10 DEF Members
    <3>2. Stored(http.headers_, l) \in HeaderTable
      BY <2>2, <3>1, StoredIs
    <3>3. (IF l[1] = "content-length" THEN Numeral[l[2]] ELSE http.content_length_) \in Nat
      BY <2>2, <3>1, NumeralIs
    <3>4. (IF l[1] = "connection" /\ l[2] \in {"close", "keep-alive"} THEN l[2] = "keep-alive"
           ELSE http.keep_alive_) \in BOOLEAN
      BY <3>1
    <3> QED
      BY <3>2, <3>3, <3>4
  <2>4. http' = [http EXCEPT !.headers_ = t, !.content_length_ = c, !.keep_alive_ = b,
                   !.header_bytes_ = bytes, !.header_count_ = i]
    <3>1. HeaderStored(l) = [http EXCEPT !.headers_ = t, !.content_length_ = c, !.keep_alive_ = b]
      BY <2>3 DEF HeaderStored
    <3> QED
      BY <2>1, <3>1
  <2>5. PICK g \in Members :
          /\ g = http' /\ g.line = http.line /\ g.header_count_ = i /\ g.header_bytes_ = bytes
          /\ g.headers_ = t /\ g.content_length_ = c /\ g.keep_alive_ = b
          /\ g.state_ = http.state_ /\ g.body_ = http.body_
    <3>1. http' \in Members
      BY <1>9, <1>10, <2>3, <2>4 DEF Members
    <3> QED
      BY <1>10, <2>4, <3>1 DEF Members
  <2>6. i <= MaxHeaderCount /\ bytes <= MaxHeaderBytes
    BY <1>9, <1>14, LimitAssumption DEF HeadersTooBig
  <2>7. MembersInv'
    BY <1>2, <1>10, <2>1, <2>5, <2>6 DEF MembersInv
  <2>8. HeadRead(g, r, i)
    <3>1. g.header_bytes_ = http.header_bytes_ + Len(l) + 2
      BY <1>9, <2>5
    <3> QED
      BY <1>5, <1>8, <1>9, <1>10, <1>14, <2>3, <2>5, <3>1, HeadGrows
  <2>9. GoodHead(r, i)
    <3>1. \A x \in 1..i : x \in 1..j \/ x = i
      BY <1>8, <1>9
    <3> QED
      BY <1>5, <1>9, <1>14, <2>6, <3>1 DEF GoodHead
  <2>10. InHeaders(g, r, bytes)
    BY <1>2, <1>5, <1>9, <2>5, <2>8, <2>9 DEF InHeaders
  <2>11. bytes = Pos' - Ends(script, k)
    <3>1. PICK e \in Nat : e = Ends(script, k)
      BY <1>1, <1>3, EndsNext
    <3>2. Pos' = e + bytes
      BY <1>7, <1>9, <3>1
    <3> QED
      BY <3>1, <3>2
  <2>12. HttpParse(http', script, k, Pos', "process", result', pending_llm')
    BY <1>2, <1>3, <1>4, <2>1, <2>5, <2>10, <2>11 DEF HttpParse, InRequest
  <2> QED
    BY <1>2, <1>3, <1>7, <2>1, <2>7, <2>12, ReadingOn
<1> QED
  BY <1>12, <1>13, <1>14

(* What the members say when the headers of a request are all read.        *)
LEMMA HeadersEnd ==
  ASSUME NEW r \in Request, IsHttp(r), GoodHead(r, Len(r.headers)),
         NEW h \in Members, HeadRead(h, r, Len(r.headers))
  PROVE  /\ r.line # <<>> /\ h.line = r.line
         /\ IsPost(r) <=> h.line[1] = "POST"
         /\ IsPost(r) => Len(r.body) = h.content_length_
         /\ ~IsPost(r) => r.body = <<>>
         /\ Len(r.body) \in Nat /\ Len(Bytes(r)) = Len(Preamble(r, Len(r.headers))) + 2 + Len(r.body)
<1>1. r.proto = "http" /\ Len(r.line) >= 3 /\ h.line = r.line
  BY DEF IsHttp, GoodHead, parse_request_line, HeadRead
<1>2. r.line # <<>>
  <2>1. Len(<<>>) = 0
    OBVIOUS
  <2> QED
    BY <1>1, <2>1
<1>3. h.content_length_ = ContentLength(r)
  BY <1>1, HeadMeans
<1> QED
  BY <1>1, <1>2, <1>3, HttpBytes, RequestType DEF IsPost, IsHttp

LEMMA HeadersTaken ==
  ASSUME RequestInv, HttpTurn, EndHeaders
  PROVE  RequestInv' /\ Moves
<1>1. BytesInv /\ MembersInv /\ PlaceInv
  BY DEF RequestInv
<1>2. /\ pc = "process" /\ result = "none" /\ handler_ = "http"
      /\ UNCHANGED <<script, wire, peer_closed, pc, handler_, closing, pending_llm>>
      /\ HasLine /\ TakeLine /\ http.state_ = "PARSE_HEADERS" /\ Line = <<>>
  BY DEF HttpTurn, EndHeaders
<1>3. PICK k \in Nat, q \in Nat :
        /\ k = Len(out) /\ k < Len(script) /\ pending_llm = FALSE
        /\ Pos = Ends(script, k) + q /\ InHeaders(http, script[k + 1], q)
  BY <1>2, Reading DEF InBody, IsDone
<1>4. PICK r \in Request : r = script[k + 1] /\ IsHttp(r) /\ r.proto = "http"
  BY <1>1, <1>2, <1>3, NextHttp
<1>5. PICK j \in 0..Len(r.headers) :
        GoodHead(r, j) /\ HeadRead(http, r, j) /\ q = Len(Preamble(r, j)) /\ http.body_ = <<>>
  BY <1>3, <1>4 DEF InHeaders
<1>6. PICK l \in Seq(Token) :
        /\ OneLine(l) /\ At(Bytes(r), q, l \o CRLF)
        /\ IF j = Len(r.headers) THEN l = <<>> ELSE j < Len(r.headers) /\ l = r.headers[j + 1] /\ l # <<>>
  BY <1>4, <1>5, NextLine
<1>7. /\ Line = l /\ Placed(script, read_buffer_, wire)' /\ Pos' = Ends(script, k) + (q + Len(l) + 2)
      /\ Len(read_buffer_') \in Nat /\ Len(read_buffer_') <= Len(read_buffer_)
  BY <1>1, <1>2, <1>3, <1>4, <1>6, LineHere
<1>8. j = Len(r.headers) /\ l = <<>>
  BY <1>2, <1>6, <1>7
<1>9. /\ http \in Members /\ http.header_bytes_ <= MaxHeaderBytes /\ http.header_count_ <= MaxHeaderCount
      /\ \E S : out \in Seq(S)
  BY <1>1 DEF MembersInv
<1>10. /\ r.line # <<>> /\ http.line = r.line
       /\ IsPost(r) <=> http.line[1] = "POST"
       /\ IsPost(r) => Len(r.body) = http.content_length_
       /\ ~IsPost(r) => r.body = <<>>
       /\ Len(r.body) \in Nat /\ Len(Bytes(r)) = q + 2 + Len(r.body)
  BY <1>4, <1>5, <1>8, <1>9, HeadersEnd
<1>11. PICK c \in Nat, b \in Nat : c = http.content_length_ /\ b = Len(r.body)
  BY <1>9, <1>10 DEF Members
<1>12. q + 2 = Pos' - Ends(script, k)
  <2>1. PICK e \in Nat : e = Ends(script, k)
    BY <1>1, <1>3, EndsNext
  <2>2. Len(l) = 0
    BY <1>8
  <2>3. Pos' = e + (q + 0 + 2)
    BY <1>7, <2>1, <2>2
  <2> QED
    BY <2>1, <2>3
<1>13. CASE http.line[1] = "POST" /\ http.content_length_ > MaxBody
  <2>1. /\ out' = Append(out, Response("413", <<>>, FALSE)) /\ result' = "CLOSE"
        /\ http' = [http EXCEPT !.keep_alive_ = FALSE]
    BY <1>13 DEF EndHeaders, send_error_response, Send, Return
  <2>2. MembersInv'
    <3>1. \E S : out' \in Seq(S)
      BY <1>9, <2>1, Appended
    <3>2. http' \in Members /\ http'.header_bytes_ = http.header_bytes_ /\ http'.header_count_ = http.header_count_
          /\ http'.state_ # "PARSE_BODY"
      BY <1>2, <1>9, <2>1 DEF Members
    <3> QED
      BY <1>9, <3>1, <3>2 DEF MembersInv
  <2>3. Len(r.body) > MaxBody
    BY <1>10, <1>13
  <2>4. Service!Early(r) /\ Service!Answer(r) = Service!Refuse("413")
    BY <1>4, <1>5, <1>8, <2>3, GoodIs
  <2>5. Service!Answer(r).send = <<Response("413", <<>>, FALSE)>> /\ Service!Answer(r).next = "close"
    BY <2>4, RefuseIs
  <2>6. out' = out \o <<Response("413", <<>>, FALSE)>>
    BY <1>9, <2>1, Appended
  <2> QED
    BY <1>2, <1>3, <1>4, <1>7, <2>1, <2>2, <2>4, <2>5, <2>6, Refusing
<1>14. CASE ~(http.line[1] = "POST" /\ http.content_length_ > MaxBody)
  <2>1. PICK st \in States :
          /\ st = (IF http.line[1] = "POST" /\ http.content_length_ > 0 THEN "PARSE_BODY" ELSE "PARSE_DONE")
          /\ http' = [http EXCEPT !.state_ = st] /\ UNCHANGED <<out, result>>
    <3>1. (IF http.line[1] = "POST" /\ http.content_length_ > 0 THEN "PARSE_BODY" ELSE "PARSE_DONE") \in States
      BY DEF States
    <3> QED
      BY <1>14, <3>1 DEF EndHeaders
  <2>2. PICK g \in Members :
          /\ g = http' /\ g.state_ = st /\ g.line = http.line /\ g.header_count_ = http.header_count_
          /\ g.header_bytes_ = http.header_bytes_ /\ g.headers_ = http.headers_ /\ g.body_ = <<>>
          /\ g.content_length_ = c /\ g.keep_alive_ = http.keep_alive_
    <3>1. http' \in Members
      BY <1>9, <2>1 DEF Members
    <3> QED
      BY <1>5, <1>9, <1>11, <2>1, <3>1 DEF Members
  <2>3. HeadRead(g, r, Len(r.headers))
    BY <1>5, <1>8, <1>11, <2>2 DEF HeadRead
  <2>4. Good(r)
    <3>1. b <= MaxBody
      <4>1. CASE IsPost(r)
        <5>1. b = c /\ http.line[1] = "POST"
          BY <1>10, <1>11, <4>1
        <5>2. ~(c > MaxBody)
          BY <1>11, <1>14, <5>1
        <5> QED
          BY <5>1, <5>2, LimitAssumption
      <4>2. CASE ~IsPost(r)
        <5>1. b = 0
          BY <1>10, <1>11, <4>2
        <5> QED
          BY <5>1, LimitAssumption
      <4> QED
        BY <4>1, <4>2
    <3> QED
      BY <1>5, <1>8, <1>11, <3>1 DEF Good
  <2>5. CASE http.line[1] = "POST" /\ http.content_length_ > 0
    <3>1. st = "PARSE_BODY" /\ Len(g.body_) = 0 /\ IsPost(r) /\ b = c /\ b > 0
      BY <1>10, <1>11, <2>1, <2>2, <2>5
    <3>2. g.body_ = SubSeq(r.body, 1, Len(g.body_))
      <4>1. SubSeq(r.body, 1, 0) = <<>>
        BY <1>4, RequestType, SubSeqEmpty
      <4> QED
        BY <2>2, <3>1, <4>1
    <3>3. InBody(g, r, q + 2)
      <4>1. q + 2 = Len(Preamble(r, Len(r.headers))) + 2 + Len(g.body_)
        BY <1>5, <1>8, <3>1
      <4> QED
        BY <1>11, <2>2, <2>3, <2>4, <3>1, <3>2, <4>1 DEF InBody
    <3>4. MembersInv'
      BY <1>9, <2>1, <2>2, <3>1 DEF MembersInv
    <3>5. HttpParse(http', script, k, Pos', "process", result', pending_llm')
      BY <1>2, <1>3, <1>4, <1>12, <2>1, <2>2, <3>3 DEF HttpParse, InRequest
    <3> QED
      BY <1>2, <1>3, <1>7, <2>1, <3>4, <3>5, ReadingOn
  <2>6. CASE ~(http.line[1] = "POST" /\ http.content_length_ > 0)
    <3>1. st = "PARSE_DONE" /\ r.body = <<>> /\ Len(Bytes(r)) = q + 2
      <4>1. r.body = <<>>
        <5>1. CASE IsPost(r)
          <6>1. b = c /\ http.line[1] = "POST"
            BY <1>10, <1>11, <5>1
          <6>2. ~(c > 0)
            BY <1>11, <2>6, <6>1
          <6>3. Len(r.body) = 0
            BY <1>11, <6>1, <6>2
          <6> QED
            BY <1>4, <6>3, RequestType, EmptySeq
        <5>2. CASE ~IsPost(r)
          BY <1>10, <5>2
        <5> QED
          BY <5>1, <5>2
      <4>2. Len(r.body) = 0
        BY <4>1
      <4>3. Len(Bytes(r)) = q + 2 + 0
        BY <1>10, <4>2
      <4> QED
        BY <2>1, <2>6, <4>1, <4>3
    <3>2. IsDone(g, r, q + 2)
      BY <2>2, <2>3, <2>4, <3>1 DEF IsDone
    <3>3. MembersInv'
      BY <1>9, <2>1, <2>2, <3>1 DEF MembersInv
    <3>4. HttpParse(http', script, k, Pos', "process", result', pending_llm')
      BY <1>2, <1>3, <1>4, <1>12, <2>1, <2>2, <3>2 DEF HttpParse, InRequest
    <3> QED
      BY <1>2, <1>3, <1>7, <2>1, <3>3, <3>4, ReadingOn
  <2> QED
    BY <2>5, <2>6
<1> QED
  BY <1>13, <1>14

(* The next n bytes in the buffer are of the body, after the m before.     *)
InBuffer(k, r, m, n, t) ==
  /\ k \in Nat /\ k < Len(script) /\ r \in Request /\ r = script[k + 1] /\ r.proto = "http"
  /\ m \in Nat /\ n \in Nat /\ t \in Nat /\ t = m + n /\ t <= Len(r.body) /\ n <= Len(read_buffer_)
  /\ Pos = Ends(script, k) + (Len(Preamble(r, Len(r.headers))) + 2 + m)

LEMMA BodyHere ==
  ASSUME BytesInv, MembersInv, NEW k, NEW r, NEW m, NEW n, NEW t, InBuffer(k, r, m, n, t)
  PROVE  /\ SubSeq(r.body, 1, m) \o SubSeq(read_buffer_, 1, n) = SubSeq(r.body, 1, t)
         /\ Len(SubSeq(r.body, 1, t)) = t
<1>0. /\ k \in Nat /\ k < Len(script) /\ r \in Request /\ r = script[k + 1] /\ r.proto = "http"
      /\ m \in Nat /\ n \in Nat /\ t \in Nat /\ t = m + n /\ t <= Len(r.body) /\ n <= Len(read_buffer_)
      /\ Pos = Ends(script, k) + (Len(Preamble(r, Len(r.headers))) + 2 + m)
  BY DEF InBuffer
<1>1. /\ script \in Seq(Request) /\ Placed(script, read_buffer_, wire) /\ read_buffer_ \in Seq(Token)
      /\ Ends(script, k) \in Nat /\ At(Stream(script), Ends(script, k), Bytes(r))
      /\ Stream(script) \in Seq(Token)
  BY <1>0, Setting, EndsNext, PiecesType DEF BytesInv
<1>2. PICK e \in Nat, p \in Nat, b \in Seq(Token), y \in Seq(Token), c \in Nat :
        /\ e = Ends(script, k) /\ p = Len(Preamble(r, Len(r.headers))) /\ b = r.body /\ y = Bytes(r) /\ c = Len(b)
        /\ At(y, p + 2, b)
  <2>1. Len(r.headers) \in 0..Len(r.headers)
    BY <1>0, RequestType
  <2>2. At(Bytes(r), Len(Preamble(r, Len(r.headers))) + 2, r.body) /\ Bytes(r) \in Seq(Token)
    BY <1>0, HttpBytes
  <2> QED
    BY <1>0, <1>1, <2>1, <2>2, PreambleIs, RequestType
<1>2a. m \in Nat /\ n \in Nat /\ c \in Nat /\ t = m + n /\ t <= c /\ m <= c
  <2>1. m \in Nat /\ n \in Nat /\ t = m + n
    BY <1>0
  <2>2. c \in Nat /\ t <= c
    BY <1>0, <1>2
  <2> QED
    BY <2>1, <2>2
<1>3. At(Stream(script), e + (p + 2), b)
  <2>1. At(Stream(script), e, y)
    BY <1>1, <1>2
  <2> QED
    BY <1>1, <1>2, <2>1, AtTransitive
<1>4. ASSUME NEW i \in 1..n PROVE read_buffer_[i] = b[m + i]
  <2>1. Len(read_buffer_) \in Nat /\ i \in 1..Len(read_buffer_)
    BY <1>0, <1>1, LenProperties
  <2>2. read_buffer_[i] = Stream(script)[Place(script, read_buffer_, wire) + i]
    BY <1>1, <2>1, PlacedIs
  <2>3. PICK j : j = m + i
    OBVIOUS
  <2>4. j \in 1..c
    <3>1. m \in Nat /\ n \in Nat /\ c \in Nat /\ m + n <= c
      BY <1>2a
    <3> QED
      BY <2>3, <3>1
  <2>5. Stream(script)[(e + (p + 2)) + j] = b[j]
    BY <1>2, <1>3, <2>4 DEF At
  <2>6. Place(script, read_buffer_, wire) = e + (p + 2 + m)
    BY <1>0, <1>2 DEF Pos
  <2>7. Place(script, read_buffer_, wire) + i = (e + (p + 2)) + j
    <3>1. (e + (p + 2 + m)) + i = (e + (p + 2)) + (m + i)
      BY <1>2a
    <3> QED
      BY <2>3, <2>6, <3>1
  <2> QED
    BY <2>2, <2>3, <2>5, <2>7
<1>5. PICK x \in Seq(Token) : x = SubSeq(b, 1, m) /\ Len(x) = m /\ \A i \in 1..m : x[i] = b[i]
  <2>1. m \in 0..Len(b)
    BY <1>2, <1>2a
  <2> QED
    BY <1>2, <2>1, Halves
<1>6. PICK z \in Seq(Token) : z = SubSeq(read_buffer_, 1, n) /\ Len(z) = n /\ \A i \in 1..n : z[i] = read_buffer_[i]
  <2>1. n \in 0..Len(read_buffer_)
    BY <1>0, <1>1, LenProperties
  <2> QED
    BY <1>1, <2>1, Halves
<1>7. PICK w \in Seq(Token) : /\ w = SubSeq(b, 1, t) /\ Len(w) = t /\ \A i \in 1..t : w[i] = b[i]
  <2>1. t \in 0..Len(b)
    BY <1>0, <1>2
  <2> QED
    BY <2>1, Halves
<1>8. /\ x \o z \in Seq(Token) /\ Len(x \o z) = t
      /\ \A i \in 1..t : (x \o z)[i] = IF i <= m THEN x[i] ELSE z[i - m]
  <2>1. /\ x \o z \in Seq(Token) /\ Len(x \o z) = Len(x) + Len(z)
        /\ \A i \in 1..Len(x) + Len(z) : (x \o z)[i] = IF i <= Len(x) THEN x[i] ELSE z[i - Len(x)]
    BY ConcatProperties
  <2>2. Len(x) = m /\ Len(z) = n
    BY <1>5, <1>6
  <2> QED
    BY <1>0, <2>1, <2>2
<1>9. ASSUME NEW i \in 1..t PROVE (x \o z)[i] = w[i]
  <2>1. CASE i <= m
    <3>1. i \in 1..m
      BY <1>0, <2>1
    <3> QED
      BY <1>5, <1>7, <1>8, <2>1, <3>1
  <2>2. CASE ~(i <= m)
    <3>1. PICK j \in 1..n : j = i - m /\ m + j = i
      <4>1. m \in Nat /\ n \in Nat /\ i \in 1..(m + n)
        BY <1>0
      <4>2. i - m \in 1..n /\ m + (i - m) = i
        BY <2>2, <4>1
      <4> QED
        BY <4>2
    <3>2. z[j] = b[i]
      BY <1>4, <1>6, <3>1
    <3> QED
      BY <1>7, <1>8, <2>2, <3>1, <3>2
  <2> QED
    BY <2>1, <2>2
<1>10. x \o z = w
  <2>1. PICK xz \in Seq(Token) : xz = x \o z
    BY <1>8
  <2> QED
    BY <1>7, <1>8, <1>9, <2>1, SeqEqual
<1> QED
  BY <1>2, <1>5, <1>6, <1>7, <1>10

LEMMA LesserIs ==
  ASSUME NEW a \in Nat, NEW b \in Nat
  PROVE  Min({a, b}) \in Nat /\ Min({a, b}) = IF a <= b THEN a ELSE b
<1>1. CASE a <= b
  <2>1. Min({a, b}) = a
    BY <1>1, LeastIs
  <2> QED
    BY <1>1, <2>1
<1>2. CASE ~(a <= b)
  <2>1. Min({a, b}) = b
    BY <1>2, LeastIs
  <2> QED
    BY <1>2, <2>1
<1> QED
  BY <1>1, <1>2

LEMMA BodyTaken ==
  ASSUME RequestInv, HttpTurn, parse_body
  PROVE  RequestInv' /\ Moves
<1>1. BytesInv /\ MembersInv /\ PlaceInv
  BY DEF RequestInv
<1>2. /\ pc = "process" /\ result = "none" /\ handler_ = "http" /\ http.state_ = "PARSE_BODY"
      /\ UNCHANGED <<script, wire, peer_closed, pc, handler_, closing, out, pending_llm>>
  BY DEF HttpTurn, parse_body
<1>3. PICK k \in Nat, q \in Nat :
        /\ k = Len(out) /\ k < Len(script) /\ pending_llm = FALSE
        /\ Pos = Ends(script, k) + q /\ InBody(http, script[k + 1], q)
  BY <1>2, Reading DEF InHeaders, IsDone
<1>4. PICK r \in Request : r = script[k + 1] /\ IsHttp(r) /\ r.proto = "http"
  BY <1>1, <1>2, <1>3, NextHttp
<1>5. /\ http \in Members /\ http.header_bytes_ <= MaxHeaderBytes /\ http.header_count_ <= MaxHeaderCount
      /\ \E S : out \in Seq(S)
  BY <1>1 DEF MembersInv
<1>6. /\ Good(r) /\ HeadRead(http, r, Len(r.headers)) /\ IsPost(r) /\ GoodHead(r, Len(r.headers))
      /\ Len(http.body_) < Len(r.body) /\ http.body_ = SubSeq(r.body, 1, Len(http.body_))
      /\ q = Len(Preamble(r, Len(r.headers))) + 2 + Len(http.body_)
  BY <1>3, <1>4 DEF InBody, Good
<1>7. PICK p \in Nat, m \in Nat, c \in Nat, a \in Nat, e \in Nat :
        /\ p = Len(Preamble(r, Len(r.headers))) /\ m = Len(http.body_) /\ c = Len(r.body) /\ a = Len(read_buffer_)
        /\ e = Ends(script, k) /\ http.content_length_ = c /\ m < c /\ q = p + 2 + m
        /\ Len(Bytes(r)) = p + 2 + c /\ Ends(script, k + 1) = e + (p + 2 + c) /\ Pos = e + q
  <2>1. Len(r.headers) \in 0..Len(r.headers)
    BY RequestType
  <2>2. Len(Preamble(r, Len(r.headers))) \in Nat
    BY <2>1, PreambleIs
  <2>3. Len(http.body_) \in Nat /\ Len(read_buffer_) \in Nat
    BY <1>1, <1>5, Setting, LenProperties DEF Members
  <2>4. /\ http.content_length_ = Len(r.body) /\ Len(r.body) \in Nat
        /\ Len(Bytes(r)) = Len(Preamble(r, Len(r.headers))) + 2 + Len(r.body)
    BY <1>4, <1>5, <1>6, HeadersEnd
  <2>5. Ends(script, k) \in Nat /\ Ends(script, k + 1) = Ends(script, k) + Len(Bytes(r))
    BY <1>1, <1>3, <1>4, EndsNext
  <2> QED
    BY <1>3, <1>6, <2>2, <2>3, <2>4, <2>5
<1>8. PICK need \in Nat, n \in Nat :
        /\ need = c - m /\ n = Min({need, a}) /\ n = (IF need <= a THEN need ELSE a)
        /\ n <= a /\ n <= need /\ m + n <= c /\ m + n \in Nat
        /\ IF n = need THEN m + n = c ELSE n = a /\ m + n < c
  <2>1. c - m \in Nat
    BY <1>7
  <2>2. PICK need \in Nat : need = c - m
    BY <2>1
  <2>3. PICK n \in Nat : n = Min({need, a}) /\ n = (IF need <= a THEN need ELSE a)
    BY LesserIs
  <2>4. n <= a /\ n <= need
    BY <2>3
  <2>5. m + n <= c /\ m + n \in Nat
    BY <1>7, <2>2, <2>4
  <2>6. CASE n = need
    <3>1. m + n = c
      BY <1>7, <2>2, <2>6
    <3> QED
      BY <2>2, <2>3, <2>4, <2>5, <2>6, <3>1
  <2>7. CASE n # need
    <3>1. n = a /\ m + n < c
      <4>1. n = a /\ n < need
        BY <2>3, <2>4, <2>7
      <4> QED
        BY <2>2, <4>1
    <3> QED
      BY <2>2, <2>3, <2>4, <2>5, <2>7, <3>1
  <2> QED
    BY <2>6, <2>7
<1>9. /\ http' = [http EXCEPT !.body_ = @ \o SubSeq(read_buffer_, 1, n),
                               !.state_ = IF n = need THEN "PARSE_DONE" ELSE @]
      /\ read_buffer_' = SubSeq(read_buffer_, n + 1, Len(read_buffer_))
      /\ result' = IF n = need THEN "none" ELSE "NEED_MORE"
  BY <1>7, <1>8 DEF parse_body
<1>10. PICK w \in Seq(Token) :
         w = SubSeq(r.body, 1, m + n) /\ Len(w) = m + n /\ http.body_ \o SubSeq(read_buffer_, 1, n) = w
  <2>1. Pos = Ends(script, k) + (Len(Preamble(r, Len(r.headers))) + 2 + m)
    BY <1>7
  <2>2. m <= Len(r.body) /\ m + n <= Len(r.body) /\ n <= Len(read_buffer_) /\ http.body_ = SubSeq(r.body, 1, m)
    BY <1>6, <1>7, <1>8
  <2>3. /\ http.body_ \o SubSeq(read_buffer_, 1, n) = SubSeq(r.body, 1, m + n)
        /\ Len(SubSeq(r.body, 1, m + n)) = m + n
    <3>1. PICK t \in Nat : t = m + n
      BY <1>8
    <3>2. BytesInv /\ MembersInv /\ k \in Nat /\ k < Len(script) /\ r \in Request /\ r = script[k + 1]
      BY <1>1, <1>3, <1>4
    <3>3. r.proto = "http" /\ m \in Nat /\ n \in Nat
      BY <1>4, <1>7, <1>8
    <3>4. m <= Len(r.body) /\ t <= Len(r.body) /\ n <= Len(read_buffer_)
      BY <2>2, <3>1
    <3>5. InBuffer(k, r, m, n, t)
      BY <2>1, <3>1, <3>2, <3>3, <3>4 DEF InBuffer
    <3>6. /\ SubSeq(r.body, 1, m) \o SubSeq(read_buffer_, 1, n) = SubSeq(r.body, 1, t)
          /\ Len(SubSeq(r.body, 1, t)) = t
      BY <1>1, <3>5, BodyHere
    <3> QED
      BY <2>2, <3>1, <3>6
  <2>4. SubSeq(r.body, 1, m + n) \in Seq(Token)
    <3>1. PICK b \in Seq(Token) : b = r.body /\ m + n \in 0..Len(b)
      BY <1>7, <1>8, RequestType
    <3> QED
      BY <3>1, Split
  <2> QED
    BY <2>3, <2>4
<1>11. PICK st \in States : /\ st = (IF n = need THEN "PARSE_DONE" ELSE "PARSE_BODY")
                            /\ http' = [http EXCEPT !.body_ = w, !.state_ = st]
  <2>1. (IF n = need THEN "PARSE_DONE" ELSE "PARSE_BODY") \in States
    BY DEF States
  <2>2. http' = [http EXCEPT !.body_ = w, !.state_ = IF n = need THEN "PARSE_DONE" ELSE "PARSE_BODY"]
    BY <1>2, <1>5, <1>9, <1>10 DEF Members
  <2> QED
    BY <2>1, <2>2
<1>12. PICK g \in Members :
         /\ g = http' /\ g.state_ = st /\ g.line = http.line /\ g.header_count_ = http.header_count_
         /\ g.header_bytes_ = http.header_bytes_ /\ g.headers_ = http.headers_ /\ g.body_ = w
         /\ g.content_length_ = http.content_length_ /\ g.keep_alive_ = http.keep_alive_
  <2>1. http' \in Members
    BY <1>5, <1>11 DEF Members
  <2> QED
    BY <1>5, <1>11, <2>1 DEF Members
<1>13. HeadRead(g, r, Len(r.headers))
  BY <1>6, <1>12 DEF HeadRead
<1>14. /\ Placed(script, read_buffer_, wire)' /\ Pos' = e + (q + n)
       /\ Len(read_buffer_') \in Nat /\ Len(read_buffer_') <= Len(read_buffer_)
  <2>1. n <= Len(read_buffer_)
    BY <1>7, <1>8
  <2>2. /\ Placed(script, read_buffer_, wire)' /\ Pos' = Pos + n
        /\ Len(read_buffer_') \in Nat /\ Len(read_buffer_') <= Len(read_buffer_)
    BY <1>1, <1>2, <1>9, <2>1, BufferTaken
  <2>3. Pos' = (e + q) + n
    BY <1>7, <2>2
  <2>4. (e + q) + n = e + (q + n)
    OBVIOUS
  <2> QED
    BY <2>2, <2>3, <2>4
<1>15. q + n = Pos' - Ends(script, k) /\ q + n = p + 2 + (m + n)
  <2>1. Pos' = e + (q + n) /\ Ends(script, k) = e /\ q = p + 2 + m
    BY <1>7, <1>14
  <2>2. q \in Nat /\ n \in Nat /\ e \in Nat /\ p \in Nat /\ m \in Nat
    BY <1>3, <1>7, <1>8
  <2> QED
    BY <2>1, <2>2
<1>16. MembersInv'
  <2>1. st = "PARSE_BODY" => m + n < c
    BY <1>8, <1>11
  <2> QED
    BY <1>2, <1>5, <1>7, <1>10, <1>12, <2>1 DEF MembersInv
<1>17. CASE n = need
  <2>1. m + n = c /\ st = "PARSE_DONE" /\ result' = "none"
    BY <1>8, <1>9, <1>11, <1>17
  <2>2. w = r.body
    BY <1>4, <1>7, <1>10, <2>1, RequestType, SubSeqFull
  <2>3. IsDone(g, r, q + n)
    BY <1>6, <1>7, <1>12, <1>13, <1>15, <2>1, <2>2 DEF IsDone
  <2>4. HttpParse(http', script, k, Pos', "process", result', pending_llm')
    BY <1>2, <1>3, <1>4, <1>12, <1>15, <2>1, <2>3 DEF HttpParse, InRequest
  <2> QED
    BY <1>2, <1>3, <1>14, <1>16, <2>1, <2>4, ReadingOn
<1>18. CASE n # need
  <2>1. m + n < c /\ n = a /\ st = "PARSE_BODY" /\ result' = "NEED_MORE"
    BY <1>8, <1>9, <1>11, <1>18
  <2>2. InBody(g, r, q + n)
    BY <1>6, <1>7, <1>10, <1>12, <1>13, <1>15, <2>1 DEF InBody
  <2>3. HttpParse(http', script, k, Pos', "process", result', pending_llm')
    BY <1>2, <1>3, <1>4, <1>12, <1>15, <2>1, <2>2 DEF HttpParse, InRequest
  <2>4. Starved
    <3>1. Received = Pos + a
      BY <1>1, <1>7, Setting
    <3>2. Received = e + (p + 2 + m) + n /\ Ends(script, k + 1) = e + (p + 2 + c)
      BY <1>7, <2>1, <3>1
    <3>3. Received < Ends(script, k + 1)
      BY <2>1, <3>2
    <3> QED
      BY <1>3, <3>3 DEF Starved
  <2> QED
    BY <1>2, <1>3, <1>14, <1>16, <2>1, <2>3, <2>4, ReadingOn
<1> QED
  BY <1>17, <1>18

----------------------------------------------------------------------------
(* The handlers of a whole request.                                        *)
Answering ==
  /\ http.state_ = "PARSE_DONE" /\ read_buffer_' = read_buffer_

(* The request that the parser has read, and what there is to answer.      *)
WholeRequest(k, r) ==
  /\ k \in Nat /\ k = Len(out) /\ k < Len(script) /\ r \in Request /\ r = script[k + 1] /\ r.proto = "http"
  /\ Good(r) /\ Ends(script, k + 1) <= Received /\ Pos = Ends(script, k + 1)
  /\ Pos - Ends(script, k) = Len(Bytes(r)) /\ pending_llm = FALSE
  /\ http.line = r.line /\ http.body_ = r.body /\ http.keep_alive_ = Service!Persistent(r)
  /\ WantsSse <=> (r.line[2] = "/events" \/ Service!WantsEvents(r))
  /\ Placed(script, read_buffer_, wire)' /\ Pos' = Pos
  /\ Len(read_buffer_') \in Nat /\ Len(read_buffer_') <= Len(read_buffer_)

LEMMA WholeRequestIs ==
  ASSUME RequestInv, HttpTurn, Answering
  PROVE  \E k, r : WholeRequest(k, r)
<1>1. BytesInv /\ MembersInv /\ PlaceInv
  BY DEF RequestInv
<1>2. /\ pc = "process" /\ result = "none" /\ handler_ = "http" /\ http.state_ = "PARSE_DONE"
      /\ UNCHANGED <<script, wire, read_buffer_>>
  BY DEF HttpTurn, Answering
<1>3. PICK k \in Nat, q \in Nat :
        /\ k = Len(out) /\ k < Len(script) /\ pending_llm = FALSE
        /\ Pos = Ends(script, k) + q /\ IsDone(http, script[k + 1], q)
  BY <1>2, Reading DEF InHeaders, InBody
<1>4. PICK r \in Request : r = script[k + 1] /\ IsHttp(r) /\ r.proto = "http"
  BY <1>1, <1>2, <1>3, NextHttp
<1>5. /\ Good(r) /\ HeadRead(http, r, Len(r.headers)) /\ http.body_ = r.body /\ q = Len(Bytes(r))
      /\ GoodHead(r, Len(r.headers)) /\ http \in Members
  BY <1>1, <1>3, <1>4 DEF IsDone, Good, MembersInv
<1>6. /\ http.keep_alive_ = Service!Persistent(r)
      /\ Service!WantsEvents(r) <=> "accept" \in DOMAIN http.headers_ /\ http.headers_["accept"] = "text/event-stream"
  BY <1>4, <1>5, HeadMeans
<1>7. http.line = r.line
  BY <1>5 DEF HeadRead
<1>8. WantsSse <=> (r.line[2] = "/events" \/ Service!WantsEvents(r))
  BY <1>6, <1>7 DEF WantsSse
<1>9. Pos = Ends(script, k + 1) /\ Ends(script, k + 1) <= Received /\ Pos - Ends(script, k) = Len(Bytes(r))
  <2>1. PICK e \in Nat, n \in Nat, b \in Nat :
          /\ e = Ends(script, k) /\ n = Len(Bytes(r)) /\ b = Len(read_buffer_)
          /\ Ends(script, k + 1) = e + n /\ Received = Pos + b
    <3>1. Ends(script, k) \in Nat /\ Ends(script, k + 1) = Ends(script, k) + Len(Bytes(r))
      BY <1>1, <1>3, <1>4, EndsNext
    <3>2. Len(Bytes(r)) \in Nat
      BY BytesType
    <3>3. Len(read_buffer_) \in Nat /\ Received = Pos + Len(read_buffer_)
      BY <1>1, Setting
    <3> QED
      BY <3>1, <3>2, <3>3
  <2>2. Pos = e + n
    BY <1>3, <1>5, <2>1
  <2> QED
    BY <2>1, <2>2
<1>10. /\ Placed(script, read_buffer_, wire)' /\ Pos' = Pos
       /\ Len(read_buffer_') \in Nat /\ Len(read_buffer_') <= Len(read_buffer_)
  BY <1>1, <1>2, Setting DEF BytesInv, Placed, Pos
<1> QED
  BY <1>3, <1>4, <1>5, <1>6, <1>7, <1>8, <1>9, <1>10 DEF WholeRequest

LEMMA AnswerIs ==
  ASSUME NEW r \in Request, r.proto = "http", Good(r)
  PROVE  /\ r.line[1] = "GET" => Service!Answer(r) = Service!GetAnswer(r, r.line[2])
         /\ r.line[1] = "POST" => Service!Answer(r) = Service!PostAnswer(r, r.line[2])
         /\ r.line[1] \notin {"GET", "POST"} => Service!Answer(r) = Service!Refuse("405")
<1>1. GoodHead(r, Len(r.headers)) /\ Len(r.body) <= MaxBody /\ Len(r.body) \in Nat
  BY RequestType DEF Good
<1>2. ~Service!Early(r)
  <2>1. ~(Len(r.body) > MaxBody)
    BY <1>1, LimitAssumption
  <2> QED
    BY <1>1, <2>1, GoodIs
<1> QED
  BY <1>2 DEF Service!Answer

(* An error.                                                               *)
LEMMA Erring ==
  ASSUME RequestInv, HttpTurn, Answering, pending_llm' = pending_llm,
         NEW status, Service!Answer(script[Len(out) + 1]) = Service!Refuse(status),
         out' = Append(out, Response(status, <<>>, FALSE)), result' = "CLOSE",
         http' = http \/ http' = [http EXCEPT !.keep_alive_ = FALSE]
  PROVE  RequestInv' /\ Moves
<1>1. BytesInv /\ MembersInv /\ PlaceInv
  BY DEF RequestInv
<1>2. /\ pc = "process" /\ result = "none" /\ handler_ = "http" /\ http.state_ = "PARSE_DONE"
      /\ UNCHANGED <<script, wire, peer_closed, pc, handler_, closing, pending_llm>>
  BY DEF HttpTurn, Answering
<1>3. PICK k, r : WholeRequest(k, r)
  BY WholeRequestIs
<1>4. /\ Len(out) < Len(script) /\ r = script[Len(out) + 1] /\ Ends(script, Len(out) + 1) <= Received
      /\ Placed(script, read_buffer_, wire)' /\ Len(read_buffer_') \in Nat /\ Len(read_buffer_') <= Len(read_buffer_)
  BY <1>3 DEF WholeRequest
<1>5. Service!Answer(r).send = <<Response(status, <<>>, FALSE)>> /\ Service!Answer(r).next = "close"
  BY <1>4, RefuseIs
<1>6. out' = out \o <<Response(status, <<>>, FALSE)>>
  BY <1>1, Appended DEF MembersInv
<1>7. MembersInv'
  <2>1. \E S : out' \in Seq(S)
    BY <1>1, Appended DEF MembersInv
  <2>2. /\ http \in Members /\ http.header_bytes_ <= MaxHeaderBytes /\ http.header_count_ <= MaxHeaderCount
    BY <1>1 DEF MembersInv
  <2>3. http' \in Members /\ http'.header_bytes_ = http.header_bytes_ /\ http'.header_count_ = http.header_count_
        /\ http'.state_ # "PARSE_BODY"
    BY <1>2, <2>2 DEF Members
  <2> QED
    BY <2>1, <2>2, <2>3 DEF MembersInv
<1> QED
  BY <1>2, <1>4, <1>5, <1>6, <1>7, Refusing

(* An answer that leaves it to the client whether the connection is kept.  *)
LEMMA Giving ==
  ASSUME RequestInv, HttpTurn, Answering, pending_llm' = pending_llm,
         NEW body, Service!Answer(script[Len(out) + 1]) = Service!Give(body, http.keep_alive_),
         out' = Append(out, Response("200", body, http.keep_alive_)), KeepOrClose
  PROVE  RequestInv' /\ Moves
<1>1. BytesInv /\ MembersInv /\ PlaceInv
  BY DEF RequestInv
<1>2. /\ pc = "process" /\ result = "none" /\ handler_ = "http" /\ http.state_ = "PARSE_DONE"
      /\ UNCHANGED <<script, wire, peer_closed, pc, handler_, closing, pending_llm>>
  BY DEF HttpTurn, Answering
<1>3. PICK k, r : WholeRequest(k, r)
  BY WholeRequestIs
<1>4. /\ Len(out) < Len(script) /\ r = script[Len(out) + 1] /\ Ends(script, Len(out) + 1) <= Received
      /\ Pos' = Ends(script, Len(out) + 1)
      /\ Placed(script, read_buffer_, wire)' /\ Len(read_buffer_') \in Nat /\ Len(read_buffer_') <= Len(read_buffer_)
  BY <1>3 DEF WholeRequest
<1>5. /\ http \in Members /\ http.header_bytes_ <= MaxHeaderBytes /\ http.header_count_ <= MaxHeaderCount
      /\ \E S : out \in Seq(S)
  BY <1>1 DEF MembersInv
<1>6. PICK keep \in BOOLEAN : keep = http.keep_alive_
  BY <1>5 DEF Members
<1>7. PICK a : a = Response("200", body, keep)
  OBVIOUS
<1>8. /\ Service!Answer(r).send = <<a>> /\ Service!Answer(r).next = (IF keep THEN "keep" ELSE "close")
      /\ out' = Append(out, a) /\ out' = out \o <<a>> /\ \E S : out' \in Seq(S)
  <2>1. Service!Answer(r) = Service!Give(body, keep)
    BY <1>4, <1>6
  <2>2. out' = Append(out, a)
    BY <1>6, <1>7
  <2> QED
    BY <1>5, <1>7, <2>1, <2>2, GiveIs, Appended
<1>9. CASE keep
  <2>1. http' = Fresh /\ result' = "CONTINUE"
    BY <1>6, <1>9 DEF KeepOrClose, reset, Return
  <2>2. MembersInv'
    <3>1. /\ Fresh \in Members /\ Fresh.header_bytes_ = 0 /\ Fresh.header_count_ = 0
          /\ Fresh.state_ = "PARSE_REQUEST_LINE"
      BY FreshType DEF Fresh
    <3>2. 0 <= MaxHeaderBytes /\ 0 <= MaxHeaderCount
      BY LimitAssumption
    <3> QED
      BY <1>8, <2>1, <3>1, <3>2 DEF MembersInv
  <2>3. Service!Answer(r).next = "keep"
    BY <1>8, <1>9
  <2> QED
    BY <1>2, <1>4, <1>8, <2>1, <2>2, <2>3, Keeping
<1>10. CASE ~keep
  <2>1. http' = http /\ result' = "CLOSE"
    BY <1>6, <1>10 DEF KeepOrClose, Return
  <2>2. MembersInv'
    BY <1>2, <1>5, <1>8, <2>1 DEF MembersInv
  <2>3. Service!Answer(r).next = "close"
    BY <1>8, <1>10
  <2> QED
    BY <1>2, <1>4, <1>8, <2>1, <2>2, <2>3, Refusing
<1> QED
  BY <1>9, <1>10

(* A request for a stream.                                                 *)
LEMMA Streaming ==
  ASSUME RequestInv, HttpTurn, Answering, NEW chat \in BOOLEAN, pending_llm' = chat,
         Service!Answer(script[Len(out) + 1]) = Service!Upgrade(IF chat THEN "chat" ELSE "events"),
         out' = out, http' = Fresh, result' = "UPGRADE_SSE"
  PROVE  RequestInv' /\ Moves
<1>1. BytesInv /\ MembersInv /\ PlaceInv
  BY DEF RequestInv
<1>2. /\ pc = "process" /\ result = "none" /\ handler_ = "http"
      /\ UNCHANGED <<script, wire, peer_closed, pc, handler_, closing, out>>
  BY DEF HttpTurn
<1>3. PICK k, r : WholeRequest(k, r)
  BY WholeRequestIs
<1>4. /\ k = Len(out) /\ Len(out) < Len(script) /\ r = script[Len(out) + 1] /\ Good(r)
      /\ Pos' - Ends(script, Len(out)) = Len(Bytes(r))
      /\ Placed(script, read_buffer_, wire)' /\ Len(read_buffer_') \in Nat /\ Len(read_buffer_') <= Len(read_buffer_)
  BY <1>3 DEF WholeRequest
<1>5. MembersInv'
  <2>1. /\ Fresh \in Members /\ Fresh.header_bytes_ = 0 /\ Fresh.header_count_ = 0
        /\ Fresh.state_ = "PARSE_REQUEST_LINE"
    BY FreshType DEF Fresh
  <2>2. 0 <= MaxHeaderBytes /\ 0 <= MaxHeaderCount
    BY LimitAssumption
  <2> QED
    BY <1>1, <2>1, <2>2 DEF MembersInv
<1>6. Upgrading(http', script[Len(out) + 1], Pos' - Ends(script, Len(out)), chat)
  BY <1>4 DEF Upgrading
<1>7. HttpParse(http', script, Len(out), Pos', "process", "UPGRADE_SSE", chat)
  BY <1>4, <1>6 DEF HttpParse, InRequest
<1> QED
  BY <1>2, <1>4, <1>5, <1>7, ReadingOn

LEMMA GetStep ==
  ASSUME RequestInv, HttpTurn, handle_get
  PROVE  RequestInv' /\ Moves
<1>1. Answering /\ http.line[1] = "GET" /\ pending_llm' = pending_llm
  BY DEF handle_get, Done, Answering
<1>2. PICK k, r : WholeRequest(k, r)
  BY <1>1, WholeRequestIs
<1>3. /\ r = script[Len(out) + 1] /\ r \in Request /\ r.proto = "http" /\ Good(r) /\ pending_llm = FALSE
      /\ http.line = r.line /\ http.keep_alive_ = Service!Persistent(r)
      /\ WantsSse <=> (r.line[2] = "/events" \/ Service!WantsEvents(r))
  BY <1>2 DEF WholeRequest
<1>4. PICK path : path = r.line[2] /\ path = http.line[2]
  BY <1>3
<1>5. Service!Answer(r) = Service!GetAnswer(r, path)
  BY <1>1, <1>3, <1>4, AnswerIs
<1>6. CASE WantsSse
  <2>1. http' = Fresh /\ result' = "UPGRADE_SSE" /\ out' = out /\ pending_llm' = FALSE
    BY <1>1, <1>3, <1>6 DEF handle_get, reset, Return
  <2>2. Service!Answer(r) = Service!Upgrade("events")
    BY <1>3, <1>4, <1>5, <1>6 DEF Service!GetAnswer
  <2>3. Service!Answer(script[Len(out) + 1]) = Service!Upgrade(IF FALSE THEN "chat" ELSE "events")
    BY <1>3, <2>2
  <2> QED
    BY <1>1, <2>1, <2>3, Streaming
<1>7. CASE ~WantsSse /\ path \in Outside
  <2>1. out' = Append(out, Response("403", <<>>, FALSE)) /\ result' = "CLOSE"
        /\ http' = [http EXCEPT !.keep_alive_ = FALSE]
    BY <1>4, <1>7 DEF handle_get, send_error_response, Send, Return
  <2>2. Service!Answer(script[Len(out) + 1]) = Service!Refuse("403")
    BY <1>3, <1>4, <1>5, <1>7 DEF Service!GetAnswer
  <2> QED
    BY <1>1, <2>1, <2>2, Erring
<1>8. CASE ~WantsSse /\ path \in Files \ Outside
  <2>1. out' = Append(out, Response("200", <<path>>, http.keep_alive_)) /\ KeepOrClose
    BY <1>4, <1>8 DEF handle_get, Send
  <2>2. Service!Answer(script[Len(out) + 1]) = Service!Give(<<path>>, http.keep_alive_)
    BY <1>3, <1>4, <1>5, <1>8 DEF Service!GetAnswer
  <2> QED
    BY <1>1, <2>1, <2>2, Giving
<1>9. CASE ~WantsSse /\ path \notin Outside /\ path \notin Files
  <2>1. out' = Append(out, Response("404", <<>>, FALSE)) /\ result' = "CLOSE"
        /\ http' = [http EXCEPT !.keep_alive_ = FALSE]
    BY <1>4, <1>9 DEF handle_get, send_error_response, Send, Return
  <2>2. Service!Answer(script[Len(out) + 1]) = Service!Refuse("404")
    BY <1>3, <1>4, <1>5, <1>9 DEF Service!GetAnswer
  <2> QED
    BY <1>1, <2>1, <2>2, Erring
<1> QED
  BY <1>6, <1>7, <1>8, <1>9

LEMMA PostStep ==
  ASSUME RequestInv, HttpTurn, handle_post
  PROVE  RequestInv' /\ Moves
<1>1. Answering /\ http.line[1] = "POST"
  BY DEF handle_post, Done, Answering
<1>2. PICK k, r : WholeRequest(k, r)
  BY <1>1, WholeRequestIs
<1>3. /\ r = script[Len(out) + 1] /\ r \in Request /\ r.proto = "http" /\ Good(r)
      /\ http.line = r.line /\ http.body_ = r.body /\ http.keep_alive_ = Service!Persistent(r)
  BY <1>2 DEF WholeRequest
<1>4. PICK path : path = r.line[2] /\ path = http.line[2]
  BY <1>3
<1>5. Service!Answer(r) = Service!PostAnswer(r, path)
  BY <1>1, <1>3, <1>4, AnswerIs
<1>6. ValidChat = Service!ValidChat
  BY DEF ValidChat, Service!ValidChat
<1>7. CASE path = "/v1/chat" /\ http.body_ = ValidChat
  <2>1. http' = Fresh /\ result' = "UPGRADE_SSE" /\ out' = out /\ pending_llm' = TRUE
    BY <1>4, <1>7 DEF handle_post, reset, Return
  <2>2. Service!Answer(r) = Service!Upgrade("chat")
    BY <1>3, <1>5, <1>6, <1>7 DEF Service!PostAnswer
  <2>3. Service!Answer(script[Len(out) + 1]) = Service!Upgrade(IF TRUE THEN "chat" ELSE "events")
    BY <1>3, <2>2
  <2> QED
    BY <1>1, <2>1, <2>3, Streaming
<1>8. CASE path = "/v1/chat" /\ http.body_ # ValidChat
  <2>1. /\ out' = Append(out, Response("400", <<>>, FALSE)) /\ result' = "CLOSE" /\ pending_llm' = pending_llm
        /\ http' = [http EXCEPT !.keep_alive_ = FALSE]
    BY <1>4, <1>8 DEF handle_post, send_error_response, Send, Return
  <2>2. Service!Answer(script[Len(out) + 1]) = Service!Refuse("400")
    BY <1>3, <1>5, <1>6, <1>8 DEF Service!PostAnswer
  <2> QED
    BY <1>1, <2>1, <2>2, Erring
<1>9. CASE path = "/" /\ path # "/v1/chat"
  <2>1. /\ out' = Append(out, Response("200", http.body_, http.keep_alive_)) /\ KeepOrClose
        /\ pending_llm' = pending_llm
    BY <1>4, <1>9 DEF handle_post, Send
  <2>2. Service!Answer(script[Len(out) + 1]) = Service!Give(http.body_, http.keep_alive_)
    BY <1>3, <1>5, <1>9 DEF Service!PostAnswer
  <2> QED
    BY <1>1, <2>1, <2>2, Giving
<1>10. CASE path # "/" /\ path # "/v1/chat"
  <2>1. /\ out' = Append(out, Response("405", <<>>, FALSE)) /\ result' = "CLOSE" /\ pending_llm' = pending_llm
        /\ http' = http
    BY <1>4, <1>10 DEF handle_post, handle_not_allowed, Send, Return
  <2>2. Service!Answer(script[Len(out) + 1]) = Service!Refuse("405")
    BY <1>3, <1>5, <1>10 DEF Service!PostAnswer
  <2> QED
    BY <1>1, <2>1, <2>2, Erring
<1> QED
  BY <1>7, <1>8, <1>9, <1>10

LEMMA OtherStep ==
  ASSUME RequestInv, HttpTurn, OtherMethod
  PROVE  RequestInv' /\ Moves
<1>1. /\ Answering /\ http.line[1] \notin {"GET", "POST"}
      /\ out' = Append(out, Response("405", <<>>, FALSE)) /\ result' = "CLOSE" /\ pending_llm' = pending_llm
      /\ http' = http
  BY DEF OtherMethod, Answering, handle_not_allowed, Send, Return
<1>2. PICK k, r : WholeRequest(k, r)
  BY <1>1, WholeRequestIs
<1>3. r = script[Len(out) + 1] /\ r \in Request /\ r.proto = "http" /\ Good(r) /\ http.line = r.line
  BY <1>2 DEF WholeRequest
<1>4. Service!Answer(script[Len(out) + 1]) = Service!Refuse("405")
  BY <1>1, <1>3, AnswerIs
<1> QED
  BY <1>1, <1>4, Erring

LEMMA HttpStep ==
  ASSUME RequestInv, Process, handler_ = "http"
  PROVE  RequestInv' /\ Moves
<1>1. HttpTurn /\ HttpProcess
  BY DEF Process, HttpTurn, netVars
<1> QED
  BY <1>1, LineMissing, LineTaken, HeaderTaken, HeadersTaken, BodyTaken, GetStep, PostStep, OtherStep
  DEF HttpProcess

LEMMA Processing ==
  ASSUME RequestInv, Process
  PROVE  RequestInv' /\ Moves
<1>1. handler_ \in {"http", "line", "sse"}
  BY DEF RequestInv, PlaceInv, Process
<1> QED
  BY <1>1, HttpStep, LineStep, StreamStep

LEMMA Upgraded ==
  ASSUME RequestInv, UpgradeSse
  PROVE  RequestInv' /\ Moves
<1>1. BytesInv /\ MembersInv /\ PlaceInv /\ ParseInv /\ RestInv
  BY DEF RequestInv
<1>2. PICK a :
        /\ a = Response("200", <<IF pending_llm THEN "chat" ELSE "events">>, TRUE)
        /\ pc = "process" /\ result = "UPGRADE_SSE" /\ handler_' = "sse" /\ out' = Append(out, a)
        /\ pending_llm' = FALSE /\ result' = "NEED_MORE"
        /\ UNCHANGED <<script, wire, peer_closed, read_buffer_, http, pc, closing>>
  BY DEF UpgradeSse, netVars, Send, Return
<1>3. handler_ = "http" /\ ~closing /\ Known(script) /\ script[1].proto = "http" /\ Working /\ Mode = "open"
  BY <1>1, <1>2 DEF PlaceInv, Working, Mode
<1>4. PICK r : /\ r = script[Len(out) + 1] /\ Len(out) < Len(script)
               /\ Upgrading(http, r, Pos - Ends(script, Len(out)), pending_llm)
  BY <1>1, <1>2, <1>3 DEF ParseInv, HttpParse, InRequest
<1>5. /\ Pos - Ends(script, Len(out)) = Len(Bytes(r))
      /\ Service!Answer(r) = Service!Upgrade(IF pending_llm THEN "chat" ELSE "events")
  BY <1>4 DEF Upgrading
<1>6. Ends(script, Len(out) + 1) <= Received
  <2>1. PICK k \in Nat, p \in Nat, b \in Nat : k = Len(out) /\ p = Pos /\ b = Len(read_buffer_) /\ Received = p + b
    BY <1>1, Setting
  <2>2. PICK e \in Nat, n \in Nat : e = Ends(script, k) /\ n = Len(Bytes(r)) /\ Ends(script, k + 1) = e + n
    BY <1>1, <1>4, <2>1, EndsNext, BytesType
  <2>3. p - e = n
    BY <1>5, <2>1, <2>2
  <2>4. e + n <= p + b
    BY <2>3
  <2> QED
    BY <2>1, <2>2, <2>4
<1>7. Service!Answer(r).send = <<a>> /\ Service!Answer(r).next = "stream"
  BY <1>2, <1>5, UpgradeIs
<1>8. out' = out \o <<a>> /\ \E S : out' \in Seq(S)
  BY <1>1, <1>2, Appended DEF MembersInv
<1>9. Mode' = "stream"
  BY <1>2, <1>3 DEF Mode
<1>10. Moves
  <2>1. Mode' = (CASE Service!Answer(r).next = "keep" -> "open" [] Service!Answer(r).next = "close" -> "closed"
                   [] OTHER -> "stream")
    BY <1>7, <1>9
  <2>2. out' = out \o Service!Answer(r).send
    BY <1>7, <1>8
  <2> QED
    BY <1>1, <1>2, <1>3, <1>4, <1>6, <2>1, <2>2, Serves
<1>11. BytesInv' /\ Pos' = Pos
  BY <1>1, <1>2, BytesKept
<1>12. MembersInv'
  BY <1>1, <1>2, <1>8 DEF MembersInv
<1>13. PlaceInv'
  BY <1>1, <1>2, <1>3 DEF PlaceInv, Results
<1>14. ParseInv' /\ RestInv'
  BY <1>2 DEF ParseInv, RestInv, Working
<1> QED
  BY <1>10, <1>11, <1>12, <1>13, <1>14 DEF RequestInv

LEMMA Idling ==
  ASSUME RequestInv, UNCHANGED vars
  PROVE  RequestInv' /\ Moves
<1>1. UNCHANGED <<script, wire, peer_closed, read_buffer_, out, result, http, pending_llm, pc, handler_, closing>>
  BY DEF vars, httpVars, netVars
<1>2. BytesInv' /\ MembersInv' /\ PlaceInv' /\ ParseInv' /\ RestInv'
  BY <1>1 DEF RequestInv, BytesInv, MembersInv, PlaceInv, ParseInv, RestInv, Placed, Pos, Working, Starved, Received
<1>3. Mode' = Mode
  BY <1>1 DEF Mode
<1> QED
  BY <1>1, <1>2, <1>3, Stutters DEF RequestInv

----------------------------------------------------------------------------
LEMMA OneStep ==
  ASSUME RequestInv, [Next]_vars
  PROVE  RequestInv' /\ Moves
BY Arriving, Ending, Detecting, Processing, Closing, GoingOn, Resting, Upgraded, Idling DEF Next, Turn

(* The invariant of the parser: at every moment its members are those of   *)
(* a prefix of one request, the first that is not answered, and the bytes  *)
(* in read_buffer_ and on the wire are the rest of the stream.             *)
THEOREM ParserFollowsStream == Spec => []RequestInv
<1>1. Init => RequestInv
  BY StartsRight
<1>2. RequestInv /\ [Next]_vars => RequestInv'
  BY OneStep
<1> QED
  BY <1>1, <1>2, PTL DEF Spec

(* The members keep their types and limits: the read buffer its cap, the   *)
(* headers theirs, and the body is never longer than announced.            *)
THEOREM ParserTypes == Spec => []TypeOK
<1>1. RequestInv => TypeOK
  <2>1. SUFFICES ASSUME RequestInv PROVE TypeOK
    OBVIOUS
  <2>2. BytesInv /\ MembersInv /\ PlaceInv
    BY <2>1 DEF RequestInv
  <2>3. script \in Scripts /\ wire \in Seq(Token) /\ read_buffer_ \in Seq(Token)
    BY <2>2 DEF BytesInv, Placed
  <2>4. Len(read_buffer_) <= MaxRead \/ closing
    BY <2>2 DEF BytesInv
  <2>5. http.header_bytes_ <= MaxHeaderBytes /\ http.header_count_ \in 0..MaxHeaderCount
    <3>1. http \in Members /\ http.header_bytes_ <= MaxHeaderBytes /\ http.header_count_ <= MaxHeaderCount
      BY <2>2 DEF MembersInv
    <3>2. http.header_count_ \in Nat
      BY <3>1 DEF Members
    <3> QED
      BY <3>1, <3>2, LimitAssumption
  <2>6. http.state_ = "PARSE_BODY" => Len(http.body_) < http.content_length_
    BY <2>2 DEF MembersInv
  <2>7. /\ pc \in {"wait", "recv", "process"} /\ result \in Results \cup {"none"}
        /\ handler_ \in {"none", "http", "line", "sse"}
        /\ {peer_closed, closing, pending_llm} \subseteq BOOLEAN
    BY <2>2 DEF PlaceInv
  <2> QED
    BY <2>3, <2>4, <2>5, <2>6, <2>7 DEF TypeOK
<1> QED
  BY <1>1, ParserFollowsStream, PTL

(* When on_readable has returned, every request that has wholly arrived is *)
(* answered: no edge is left to come back for it.                          *)
THEOREM NothingIsLeftWaiting == Spec => []NothingWaits
<1>1. RequestInv => NothingWaits
  <2>1. SUFFICES ASSUME RequestInv, pc = "wait", ~closing, handler_ # "sse", Known(script)
                 PROVE  Len(out) = Arrived
    BY DEF NothingWaits
  <2>2. BytesInv /\ MembersInv /\ PlaceInv /\ ParseInv /\ RestInv
    BY <2>1 DEF RequestInv
  <2>3. Working
    BY <2>1, <2>2 DEF Working, PlaceInv
  <2>4. Starved
    BY <2>1, <2>2, <2>3 DEF RestInv
  <2> QED
    BY <2>2, <2>3, <2>4, StarvedMeans
<1> QED
  BY <1>1, ParserFollowsStream, PTL

(* The bytes answered one by one as they come, cut anywhere, give the      *)
(* answers that the requests have as records: whole, in order, each once.  *)
THEOREM StreamImplementsService == Spec => ImplementsService
<1>1. Init => Service!ServiceInit
  BY StartsRight
<1>2. RequestInv /\ [Next]_vars => [Service!ServiceNext]_Service!svars
  BY OneStep DEF Moves
<1> QED
  BY <1>1, <1>2, ParserFollowsStream, PTL DEF Spec, ImplementsService, Service!ServiceSpec
=============================================================================
