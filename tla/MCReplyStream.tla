---------------------------- MODULE MCReplyStream ----------------------------
(* A small instance of ReplyStream: blocks that end anywhere in a thought, a  *)
(* quote, a call and its markup.                                              *)
EXTENDS ReplyStream, TLC

MCBlocks ==
    {<<"word">>, <<"word", "stop">>, <<"open", "word">>, <<"open", "word", "stop">>, <<"close", "word">>,
     <<"open", "call", "close">>, <<"word", "mark">>, <<"mark", "call", "end">>, <<"call", "quote">>,
     <<"stop", "quote", "end">>, <<"end", "word", "stop">>}
=============================================================================
