---------------------------- MODULE MCEventLoop ----------------------------
(* The event loop with a few handles and small units of time. *)
EXTENDS EventLoop, TLC

\* Handles of the same class are alike.
HandleSymmetry ==
    Permutations(Depends) \cup Permutations(UnixFds) \cup Permutations(Fds \ UnixFds)
=============================================================================
