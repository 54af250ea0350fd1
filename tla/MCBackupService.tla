-------------------------- MODULE MCBackupService --------------------------
EXTENDS BackupService, TLC

CONSTANTS p1, p2

Peers == {p1, p2}

SymmetryPeers == Permutations(Peers)
=============================================================================
