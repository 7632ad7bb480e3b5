SPECIFICATION BackboneSpec
CONSTANT Configs <- All
INVARIANTS
  SortSound
  InputsReady
  OwnInput
CHECK_DEADLOCK FALSE
