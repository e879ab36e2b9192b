CONSTANTS
    Node = {1, 2, 3}
    Dispersions = {0, 1, 3}
    Factors = {1, 2, 5}
    Budgets = {2, 6, 11}
    Modes = {"below_default_only", "predicted_k_for_all_nodes", "configured_max_for_all_nodes"}
    Policies = {"expand_nonredundant_caps", "error"}
    NMin = 0
    MaxK = 3
    RepairK = 4
SPECIFICATION SolverSpec
INVARIANTS AllocationLawful SolvedExactly
CHECK_DEADLOCK FALSE
