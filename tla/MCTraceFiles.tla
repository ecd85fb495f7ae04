----------------------------- MODULE MCTraceFiles -----------------------------
\* Instances of TraceFiles: files of two instructions, and one more from the
\* second file on, since num_ins starts at 1 and is reset to 0.
EXTENDS TraceFiles
===============================================================================
