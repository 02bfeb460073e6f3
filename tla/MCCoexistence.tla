---------------------------- MODULE MCCoexistence ----------------------------
EXTENDS Coexistence
Agent == {"castai-agent"}
==============================================================================
