CONSTANTS
    Rejects <- Excludes
    Configs <- Consistent
    Illegal = {"h$"}
CHECK_DEADLOCK FALSE
SPECIFICATION Spec
INVARIANTS
    AsDocumented
    StartsIfSound
    MembersAsWritten
