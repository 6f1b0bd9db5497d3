CONSTANT
    Slots <- TwoSlots
SPECIFICATION Spec
INVARIANTS
  LeftoverIsKnown
  RetirementIsClean
  PublishedWithAuthority

  
CHECK_DEADLOCK FALSE
