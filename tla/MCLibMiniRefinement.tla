------------------------ MODULE MCLibMiniRefinement ------------------------
EXTENDS LibMiniRefinement

MCMasks    == {{14}}
MCFlagArgs == {{"SA_NODEFER", "SA_RESETHAND"}}
=============================================================================
