----------------------------- MODULE MCRunJobs -----------------------------
EXTENDS RunJobs
=============================================================================
