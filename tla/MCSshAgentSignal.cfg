CONSTANTS
    s1 = s1
    s2 = s2
    Session <- MCSession
    UserAgent = UserAgent
    AgentOutput = {"both"}
SYMMETRY Perms
SPECIFICATION Spec
INVARIANT AgentOnlyLivesForSession
