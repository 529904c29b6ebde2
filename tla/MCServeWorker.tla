---------------------------- MODULE MCServeWorker ----------------------------
(* A small instance of ServeWorker: a streamed tool turn, the round that      *)
(* answers it, and a structured request that may come between them.           *)
EXTENDS ServeWorker, TLC

CONSTANTS ask, echo, other, talk, side

MCConn     == {ask, echo, other}
MCStreamed == {ask}
MCOpening  == [c \in MCConn |-> IF c = other THEN side ELSE talk]
MCAnswers  == [c \in MCConn |-> IF c = echo THEN ask ELSE None]
MCMode     == [c \in MCConn |-> IF c = other THEN "structured" ELSE "tool"]
=============================================================================
