---------------------------- MODULE MCEpollLoop ----------------------------
(* Instances of EpollLoop for TLC.                                         *)
EXTENDS EpollLoop, TLC

CONSTANTS a, b

AllFrames == {"part", "keep", "last", "junk", "sse", "chat"}

(* One client that speaks plain HTTP, with pipelining, a request after the *)
(* last one and input that is not HTTP; and one that opens a stream and    *)
(* keeps sending.                                                          *)
HttpAndStream ==
  (a :> {<<"keep", "keep", "last">>, <<"last", "keep">>, <<"part", "junk">>, <<"keep", "junk">>})
  @@ (b :> {<<"part", "chat">>, <<"sse", "keep", "keep", "keep">>})

OneRequestEach == (a :> {<<"keep">>}) @@ (b :> {<<"chat">>})

(* Two pipelined answers for a peer that may not read, and a silent peer.   *)
Pipelined == (a :> {<<"keep", "keep">>}) @@ (b :> {<<>>})

=============================================================================
