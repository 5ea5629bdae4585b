SPECIFICATION Spec
CONSTANT Machines <- Edges
INVARIANTS
    HiddenOnlyByAdmins
