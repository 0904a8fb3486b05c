\* Three edits, in any order: of the ontology and the task, or of the dependencies.
CONSTANTS
    Ontology <- MCOntology
    Facts <- MCFacts
    Deps <- MCDeps
    Files <- MCFiles
    Pins <- MCPins
    Versions = {1, 2}
    Citations <- MCCitations
    MaxEdits = 3
SPECIFICATION Spec
CONSTRAINT OneSide
INVARIANTS
    TypeOK
    NoDriftMeansFaithful
    NoDriftMeansOrdered
    DroppedRowIsDrift
    
    AnchorsHoldOrRed
