SPECIFICATION HealSpec
CONSTANTS
    w = w
    Healer <- OneHealer
    Watcher = w
    Human <- Nobody
    MaxPods = 4
    MaxFixes = 2
    Cooldown = 2
    MaxIncidents = 1
    MaxDeaths = 0
INVARIANT StopsRetrying
