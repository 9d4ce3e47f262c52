---------------------------- MODULE MCChatStream ----------------------------
(* The LLM's answers of the chat run: content and reasoning; a last line   *)
(* without its end; tool calls with mixed fragments, a name in pieces and  *)
(* an index without a name, ids that are replaced, by an empty one too;    *)
(* two calls that are alike; a line without a delta; an error status.      *)
EXTENDS ChatStream

Text(c, r) == [content |-> c, reasoning |-> r, tools |-> <<>>]
Asks(fs)   == [content |-> "", reasoning |-> "", tools |-> fs]
Part(i, id, name, args) == [index |-> i, id |-> id, name |-> name, args |-> args]
Reply(code, lines, ends) == [code |-> code, lines |-> lines, lastEnds |-> ends]

MCReplies == {
  Reply(200, <<Text("a", ""), Text("", "")>>, TRUE),
  Reply(200, <<Text("a", "so"), Text("b", "")>>, FALSE),
  Reply(200, <<Asks(<<Part(1, "t1", "time", ""), Part(0, "t0", "no", "{")>>),
               Asks(<<Part(1, NoId, "", "{}"), Part(0, "", "ne", "}")>>)>>, TRUE),
  Reply(200, <<Asks(<<Part(0, "t", "ti", "{"), Part(1, "u", "time", "")>>), Text("b", ""),
               Asks(<<Part(0, "t0", "me", "}"), Part(2, "v", "", "{}")>>)>>, TRUE),
  Reply(200, <<Asks(<<Part(0, "t", "time", "{}")>>), Asks(<<Part(1, "t", "time", "{}")>>)>>, FALSE),
  Reply(200, <<Text("", "why")>>, TRUE), Reply(500, <<Text("", "")>>, FALSE)}
=============================================================================
