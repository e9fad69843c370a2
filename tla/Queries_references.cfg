SPECIFICATION HalvesSpec
CONSTANTS
    Team <- MCTeam
    Nobody = Nobody
    Nothing = Nothing
    Strange = Strange
    Reachable <- MCReachable
    Apart <- MCApart
    Queries = {"q1", "q2"}
    Asks <- MCAsks
    Proposals <- MCProposals
    Answers <- MCAnswers
    Patterns <- MCPatterns
    MaxRounds = 2
    Defaults <- MCDefaults
    RawPlans <- MCRawPlans
    Retries <- MCRetries
    Outputs <- MCOutputs
    Parameters <- MCParameters
    Suffixed <- MCSuffixed
    Cased <- MCCased
    MaxReflections = 1
INVARIANTS ReferencesArePreserved
