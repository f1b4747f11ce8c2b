--------------------------- MODULE MCOwnedEvents ---------------------------
EXTENDS OwnedEvents

CONSTANTS run, deployment, notifier, testWait, deploymentWait, eventWait

MCSubject == [w \in SubjectWaits |-> IF w \in TestWaits THEN run ELSE deployment]
=============================================================================
