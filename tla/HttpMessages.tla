---------------------------- MODULE HttpMessages ----------------------------
(***************************************************************************)
(* The stream of bytes between a client and the gateway, and the answers.  *)
(* Its unit is a token: a word of a line, a CR, an LF, or a piece of a     *)
(* body.  Sizes and limits are counted in tokens.                          *)
(***************************************************************************)
EXTENDS Integers, SequencesExt, FiniteSetsExt

CONSTANTS
  Scripts,        (* what clients may send: sequences of requests          *)
  Files, Outside, (* the paths under www/, and the ones that lead out of it*)
  MaxHeaderBytes, MaxHeaderCount, MaxBody,
  MaxRead         (* MAX_READ_BUFFER                                       *)

ASSUME LimitAssumption ==
  /\ MaxHeaderBytes \in Nat \ {0} /\ MaxHeaderCount \in Nat \ {0}
  /\ MaxBody \in Nat \ {0} /\ MaxRead \in Nat \ {0}

CRLF == <<"CR", "LF">>
Numeral == [t \in {"0", "1", "2", "3", "9"} |->
              CASE t = "0" -> 0 [] t = "1" -> 1 [] t = "2" -> 2 [] t = "3" -> 3 [] OTHER -> 9]
ValidChat == <<"{", "}">>           (* a body json::parse and both .at accept *)

(* A request is [proto, line, headers, body], proto one of                 *)
(*   "http"  line = method, path, version ...; a header = name, value ...  *)
(*           (just the name: no colon, or a blank value);                  *)
(*   "line"  a line of the line protocol, its first token up to the "|";   *)
(*   "junk"  a first line that is neither.                                 *)
(* The last two have no headers, and their line end as a body.             *)
Preamble(r, n) ==                       (* the request line and n headers      *)
  r.line \o CRLF \o FlattenSeq([i \in 1..n |-> r.headers[i] \o CRLF])

Bytes(r) ==
  IF r.proto = "http" THEN Preamble(r, Len(r.headers)) \o CRLF \o r.body ELSE r.line \o r.body

Stream(s) == FlattenSeq([i \in DOMAIN s |-> Bytes(s[i])])

----------------------------------------------------------------------------
(* The scripts: what clients of either protocol send, well formed or not,  *)
(* and anything that begins like neither.  A record stands for its bytes:  *)
(* a line holds no line end, a header is not empty, and a body is as long  *)
(* as the headers before it say (only POST has one).                       *)
Token   == STRING \cup {"CR", "LF"}
Request == [proto : {"http", "line", "junk"}, line : Seq(Token),
            headers : Seq(Seq(Token)), body : Seq(Token)]

Versions == {"HTTP/1.1", "HTTP/1.0"}
Greets   == {"PING|", "CHAT|"}

(* What the first line has to be.                                          *)
Known(s) ==
  /\ s # <<>>
  /\ \/ /\ s[1].proto = "http" /\ Len(s[1].line) >= 3
        /\ s[1].line[1] \notin Greets /\ s[1].line[3] \in Versions
     \/ s[1].proto = "line" /\ s[1].line # <<>> /\ s[1].line[1] \in Greets

IsPost(r) == r.line # <<>> /\ r.line[1] = "POST"

(* The last header that gives it as a number.                              *)
ContentLength(r) ==
  LET at == {i \in DOMAIN r.headers : /\ Len(r.headers[i]) >= 2
                                      /\ r.headers[i][1] = "content-length"
                                      /\ r.headers[i][2] \in DOMAIN Numeral}
  IN IF at = {} THEN 0 ELSE Numeral[r.headers[Max(at)][2]]

OneLine(l) == \A i \in 1..(Len(l) - 1) : ~(l[i] = "CR" /\ l[i + 1] = "LF")

IsHttp(r) ==
  /\ r.proto = "http" /\ OneLine(r.line)
  /\ \A i \in DOMAIN r.headers : r.headers[i] # <<>> /\ OneLine(r.headers[i])
  /\ IF IsPost(r) THEN Len(r.body) = ContentLength(r) ELSE r.body = <<>>

IsLine(r) ==
  /\ r.proto = "line"
  /\ \A i \in DOMAIN r.line : r.line[i] # "LF"
  /\ \/ r.body = CRLF
     \/ r.body = <<"LF">> /\ (r.line # <<>> => r.line[Len(r.line)] # "CR")

ASSUME ScriptAssumption ==
  \A s \in Scripts :
    /\ s \in Seq(Request) /\ \A i \in DOMAIN s : Bytes(s[i]) # <<>>
    /\ Known(s) => (\A i \in DOMAIN s : IsHttp(s[i])) \/ (\A i \in DOMAIN s : IsLine(s[i]))
    /\ ~Known(s) => LET all == Stream(s) IN
         (Len(all) > 0 => all[1] \notin Greets) /\ (Len(all) > 2 => all[3] \notin Versions)

(* Of an answer: its status line, its body, and the Connection header.     *)
Response(status, body, keep) == [status |-> status, body |-> body, keep |-> keep]
=============================================================================
