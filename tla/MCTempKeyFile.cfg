CONSTANTS
    s1 = s1
    s2 = s2
    Session <- MCSession
SYMMETRY Perms
SPECIFICATION Spec
INVARIANTS
    TypeOK
    NoWindow
    SshReadsWholeKey
    RemovedOnReturn
    WipedBeforeRemoval
