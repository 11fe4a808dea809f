SPECIFICATION Spec
CONSTANTS
    Configs <- SomeConfigs
    DefaultTime = 3
    Delay = 1
    MaxCall = 2
    Proxies = {"p1", "p2"}
    Cases <- AllCases
    Answers <- AllAnswers
    Expectations <- SomeExpectations
    Responses <- SomeResponses
    MeshCases <- SomeMeshCases
    Outputs <- SomeOutputs
    Targets <- SomeTargets
    Pods = {"p1", "p2"}
    MirrorTime = 3
    MaxRead = 2
INVARIANTS
    EndsInTime
    VerdictsAreIndependent
    ConnectionsAreSound
    MirrorsAreJudged
PROPERTIES
    PromiseKept
    Converges
