------------------------------ MODULE MCDeployer ----------------------------
EXTENDS Deployer

CONSTANTS g1, g2, g3, crt, key, agent, seed
=============================================================================
