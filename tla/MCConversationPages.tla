------------------------ MODULE MCConversationPages -------------------------
(* For TLC: pages, and conversations but AutoConv, are interchangeable.      *)
EXTENDS ConversationPages, TLC

PageSymmetry == Permutations(Pages) \cup Permutations(Convs \ {AutoConv})
=============================================================================
