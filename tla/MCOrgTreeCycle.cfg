SPECIFICATION Spec
SYMMETRY AgentSymmetry
CONSTANTS
  a1 = a1
  a2 = a2
  a3 = a3
  a4 = a4
  Root = root
  Nobody = Nobody
  Agents = {root, a1, a2, a3, a4}
  DepthLimits = {4}
  MaxAgents = 4
  ReplaceUnderSubtree = TRUE
INVARIANTS
  Rooted
CHECK_DEADLOCK FALSE
