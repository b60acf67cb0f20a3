----------------------------- MODULE MCAuditoria ----------------------------
(***************************************************************************)
(* Small instances of the audit logger for TLC.                            *)
(***************************************************************************)
EXTENDS AuditoriaHistory

\* Lines that are empty, short, one byte short of filling the buffer, exactly
\* filling it, and longer, for BufSize = 4.
AroundTheBuffer == {0, 1, 2, 3, 5}

\* Lines that fit.
Fitting == {1, 2}
=============================================================================
