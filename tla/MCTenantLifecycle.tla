-------------------------- MODULE MCTenantLifecycle --------------------------
EXTENDS TenantLifecycle

CONSTANTS t1, t2, g
=============================================================================
