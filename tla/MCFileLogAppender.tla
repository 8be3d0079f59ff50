-------------------------- MODULE MCFileLogAppender --------------------------
(* FileLogAppender for TLC, in a build with SYLAR_LOG_CASLOCK. *)
EXTENDS FileLogAppender

MCKind == [l \in Locks |-> "CASLock"]

=============================================================================
