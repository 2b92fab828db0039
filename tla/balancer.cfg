SPECIFICATION Spec
CONSTANTS
    Hosts = {h1, h2, h3}
    Weights = {0, 1, 3}
    VirtualNodes = 2
    Points = 4
    CounterSpace = 5
INVARIANTS  WeightedProportional HashAffinity HashNearestClockwise
