SPECIFICATION Spec
CONSTANTS
    p1 = p1
    p2 = p2
    slack = slack
    dash = dash
    k1 = k1
    k2 = k2
    Proposer <- OneProposer
    SlackDecider <- Slack
    DashDecider <- Dash
    Key <- OneKey
    DirectKey <- OneKey
    MaxActions = 1
    TTL = 1
    RemoteLimit = 1
    SendOutcome <- OnlyDelivered
    MaxCrashes = 0
PROPERTY RunsOnlyPending
