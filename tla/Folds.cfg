\* Six one-CTA launches of 64 elements and three cooperative ones.
SPECIFICATION MCFairSpec
CONSTANTS
    WarpSize = 4
    Launches <- Both
    Pipelines <- ThreePipelines
    PipelineWarp = 2
INVARIANTS CursorsInRange TransformRight SlotsExclusive
PROPERTIES LaunchesEnd
