---------------------------- MODULE MCCertForge ----------------------------
EXTENDS CertForge

CONSTANTS web, ac

OneJob == {ac}
TwoJobs == {web, ac}
=============================================================================
