SPECIFICATION FairSpec
CONSTANTS
    p1 = p1
    p2 = p2
    slack = slack
    dash = dash
    k1 = k1
    k2 = k2
    Proposer <- OneProposer
    SlackDecider <- Slack
    DashDecider <- Nobody
    Key <- TwoKeys
    DirectKey <- OneKey
    MaxActions = 2
    TTL = 1
    RemoteLimit = 1
    SendOutcome <- Definite
    MaxCrashes = 1
INVARIANT RemoteBounded
PROPERTIES DecisionSpec PendingEnds ApprovedEnds
