----------------------------- MODULE MCTeardown -----------------------------
EXTENDS Teardown
Agent == {"castai-agent"}
==============================================================================
