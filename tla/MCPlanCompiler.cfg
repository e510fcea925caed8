\* Plan compilation over every profile of one or two mappings built from the
\* tokens of MCPlanCompiler, with and without the variable defined.
CONSTANTS
    Keys <- MCKeys
    Values <- MCValues
    SrcTemplates <- MCSrcTemplates
    DstTemplates <- MCDstTemplates
    RepoPaths <- MCRepoPaths
    MappingTypes = {"", "file"}
    MaxMappings = 2
SPECIFICATION Spec
CHECK_DEADLOCK FALSE
INVARIANT TypeOK
INVARIANT ValidationExact
INVARIANT PlanStaysInside
