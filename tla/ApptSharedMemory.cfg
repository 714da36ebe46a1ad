\* Two replicas whose channels, not the transpose tile, size the shared memory.
SPECIFICATION UndersizedSpec
CONSTANTS
    WarpSize = 4
    Launches <- Both
    Pipelines <- ThreePipelines
    PipelineWarp = 2
INVARIANTS FlagsInside
