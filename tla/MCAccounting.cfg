SPECIFICATION Spec
CONSTANTS
    Session = {s1}
    Ids = {a, b, c}
    Times = {1, 2, 3}
    Inputs <- MCInputs
    Answers <- MCAnswers
    MaxSnapshots = 3
    MaxResolutions = 1
    Nothing = Nothing
SYMMETRY MCSymmetry
INVARIANTS AccountingInvariant ViewsAgree
PROPERTIES ExplicitIsForever LateFactsRestateOnlyLater
CHECK_DEADLOCK FALSE
