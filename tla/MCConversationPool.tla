------------------------- MODULE MCConversationPool -------------------------
(* A small instance of ConversationPool: prompts that open conversations,    *)
(* continue them, diverge in the tail and start others; budgets that hold    *)
(* one snapshot in RAM and one or two on disk.                               *)
EXTENDS ConversationPool, TLC

CONSTANTS a, b, g

MCToken   == {a, b, g}
MCPrompts == {<<a, g>>, <<a, b, g>>, <<b, g>>}
MCReplies == {<<b>>}
MCAnswers == {<<b>>, <<b, b>>}
=============================================================================
