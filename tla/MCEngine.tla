------------------------------- MODULE MCEngine -------------------------------
EXTENDS EngineMachine
=============================================================================
