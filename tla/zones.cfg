SPECIFICATION Spec
CONSTANT Machines <- Edges
INVARIANTS
    TypeOK
    ZonesEnforced
    FlowsRespectZones
    AnswersPass
