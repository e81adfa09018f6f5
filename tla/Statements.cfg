CONSTANT
  Plan <- MCPlan

SPECIFICATION Spec

INVARIANT TypeOK
INVARIANT SelectAnswers
INVARIANT WritesAsMeant
INVARIANT ReferentialIntegrity
