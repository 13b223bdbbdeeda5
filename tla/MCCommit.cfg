\* Two-phase commit with two participant objects in an array of four, a saga
\* of up to three steps executed twice, TCC with three resources used twice,
\* and up to three XA resource managers.
SPECIFICATION MCSpec
CONSTANTS
  Participants = {p1, p2}
  MaxParticipants = 4
  MaxSteps = 3
  MaxEffect = 2
  MaxResources = 3
  MaxUsed = 2
  MaxRMs = 3
INVARIANTS
  CommitsCovered
  AllOrNothing
  NoCommitOverRefusal
PROPERTY
  TimeoutFinal
