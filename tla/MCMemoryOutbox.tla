--------------------------- MODULE MCMemoryOutbox ---------------------------
(* Instances of MemoryOutbox for TLC, and what is checked of the pure parts *)
(* of the service it delivers to (HookChecks, ServiceChecks).               *)
EXTENDS MemoryOutbox, HookChecks, ServiceChecks

CONSTANTS m1, m2, m3

=============================================================================
