-------------------------- MODULE MCBoundedProcess --------------------------
(***************************************************************************)
(* TLC instance of BoundedProcess.  A chunk of two units over pipes that   *)
(* hold one makes readinto block half-way through a buffer, and a child    *)
(* block in its second write; two units in all give a full chunk on one    *)
(* stream, or a short one on each at end of file.  Two lapses let both     *)
(* waits of the cleanup raise, or a signal and a close.                    *)
(***************************************************************************)
EXTENDS BoundedProcess
=============================================================================
