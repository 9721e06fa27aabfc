--------------------------- MODULE MCReplyStream ----------------------------
(* Instances of ReplyStream for TLC.                                       *)
EXTENDS ReplyStream

\* Every token on its own, and a sentence in one chunk with what may follow.
OneAndMore ==
  {<<k>> : k \in Tokens} \cup {<<"s", "c">>, <<"s", "o">>, <<"o", "a">>}

\* "ends" is read by HeadingsHold only, which is checked without the view.
MCView == [stream EXCEPT !.ends = "line"]
=============================================================================
