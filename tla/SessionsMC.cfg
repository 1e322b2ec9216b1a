CONSTANTS
    s1 = s1
    s2 = s2
    c1 = c1
    c2 = c2
    seedOrg = seedOrg
    otherOrg = otherOrg
    seedMail = seedMail
    otherMail = otherMail
    NoActor = NoActor
    Services <- MCServices
    OrgNames <- MCOrgNames
    DefaultOrg = seedOrg
    Emails <- MCEmails
    SeedEmail = seedMail
    MaxUsers = 3
    MaxAsks = 2
    Clients <- MCClients
    MaxTokens = 3
SPECIFICATION Spec
SYMMETRY Alike
CONSTRAINT AccountsFirst
\* Requests come and go; with its tokens used up a client may do nothing.
CHECK_DEADLOCK FALSE
INVARIANTS
    TypeOK
    AdminsComeFirst
    LinesHaveOneEnd
