------------------------ MODULE MCConversationState ------------------------
EXTENDS ConversationState, TLC
Symmetry == Permutations(Turn)
=============================================================================
