------------------------------ MODULE MCServe -------------------------------
(* A small instance of Serve for TLC. *)
EXTENDS Serve

Ask(p, s, b, stop, m) == [path |-> p, stream |-> s, bad |-> b, stop |-> stop, max |-> m]

CONSTANTS c1, c2

\* One client streams, with stop strings of which the longer comes in two tokens;
\* the other for any kind of response.
MCRequests ==
  c1 :> {Ask("chat", TRUE, FALSE, << <<"b">>, <<"a", "a">> >>, 3)} @@
  c2 :> {Ask("text", TRUE, FALSE, << <<"a", "a">> >>, 1), Ask("chat", FALSE, FALSE, <<>>, 0),
         Ask("chat", TRUE, TRUE, <<>>, 1), Ask("other", FALSE, FALSE, <<>>, 0)}

\* A stream without a stop string, the default.
MCPlainRequests == c1 :> {Ask("chat", TRUE, FALSE, <<>>, 2)}

\* Tokens that hold half a character, the second one with more behind it.
MCPiece == { <<"a">>, <<"L">>, <<"C", "b">> }
=============================================================================
