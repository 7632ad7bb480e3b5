SPECIFICATION BackboneSpec
CONSTANT Configs <- TwoUses
INVARIANT ResetOnlyThisCall
CHECK_DEADLOCK FALSE
