CONSTANTS
    Hosts = {"h1", "h2", "h3"}
    Services = {"s2", "s3"}
    Contacts = {"k", "m"}
    HostOf <- HostOfDef
    ChildrenOf <- ChildrenOfDef
    GroupMembers <- GroupMembersDef
    ContactsOf <- ContactsOfDef
    EscalatedTo <- EscalatedToDef
    CanSubmit <- CanSubmitDef
    Stories <- StoriesDef
SPECIFICATION FairSpec
INVARIANTS
    FollowsOperator
PROPERTIES
    Resumes
    EndsCome
