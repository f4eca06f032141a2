SPECIFICATION CrowdSpec
CONSTANTS
    p1 = p1
    p2 = p2
    slack = slack
    dash = dash
    k1 = k1
    k2 = k2
    Proposer <- TwoProposers
    SlackDecider <- Slack
    DashDecider <- Dash
    Key <- OneKey
    DirectKey <- Nobody
    MaxActions = 3
    TTL = 1
    RemoteLimit = 1
    SendOutcome <- Ambiguous
    MaxCrashes = 0
SYMMETRY Interchangeable
INVARIANTS RunsBounded TwinsBounded
