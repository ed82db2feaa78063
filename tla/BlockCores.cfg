SPECIFICATION Spec
CONSTANTS
    Chains <- AllChains
INVARIANTS
    SelectionAdmissible
    NothingLost
    CoresMatchForms
