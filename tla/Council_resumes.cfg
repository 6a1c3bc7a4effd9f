\* One job after the other: a council of three, paused and resumed.
CONSTANTS
    w1 = w1
    w2 = w2
    w3 = w3
    Jobs = {j1}
    Team <- TeamOfThree
    Plan = Plan
    Final = Final
    PoolSize = 2
SPECIFICATION FairSpec
INVARIANTS TypeOK NotRecalled NeverWalksAround NoWorkBeforePlan
PROPERTIES StopCallsNoOne PausedGetsAnswered
