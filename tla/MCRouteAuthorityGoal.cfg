SPECIFICATION Spec
CONSTANTS
    A = A  B = B  S1 = S1  S2 = S2  C1 = C1  C2 = C2  M = M  D = D  E = E
    RA = RA  RB = RB  RS1 = RS1  RS2 = RS2  RC1 = RC1  RC2 = RC2  RM = RM  RD = RD  RE = RE
    t1 = t1  t2 = t2
    NoNode = NoNode
    NoTrain = NoTrain
    Nodes <- InLoop
    Sensors <- LoopSensors
    Branches = {B, RM}
    Merges = {M, RB}
    Crossing = {}
    Rev <- LoopRev
    Ahead <- LoopAhead
    Leg <- LoopLeg
    Dist <- LoopDist
    Trains = {t1, t2}
    MaxHops = 8
    Goals <- LoopGoals
    Start <- LoopStart
    MinWindow = 1
    BrakeDist = 2
    Body = 1
    MayStall = {t1}
    NoReverseRestart = {}
    NoReverseStart = {}
INVARIANT
    OnTargetIsThere
