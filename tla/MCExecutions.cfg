SPECIFICATION FairSpec
CONSTANTS
    ForRegistry <- RegistrySmall
    ForClient <- ClientSmall
    ForGuard <- GuardSmall
    ForTools <- ToolsSmall
    ForLog <- LogSmall
    ForControl <- ControlSmall
    ForSaves <- SavesSmall
    ForCli <- CliSmall
    ForTerminal <- TerminalSmall
    ForServer <- ServerSmall
    ForPlanner <- PlannerSmall
    ForSteps <- StepsSmall
    ForAdapters <- AdaptersSmall
    ForConfig <- ConfigSmall
    ForBuilder <- BuilderSmall
    ForKnowledge <- KnowledgeSmall
    ForLibrary <- LibrarySmall
    ForBus <- BusSmall
    ForTraces <- TracesSmall
    ForLoop <- LoopSmall
    ForApprovals <- ApprovalsSmall
INVARIANTS TypeOK ModelSeesPairs
PROPERTIES ExecutionEnds NoEndlessWait
CHECK_DEADLOCK FALSE
