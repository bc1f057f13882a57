SPECIFICATION Spec
CONSTANT MaxErrors = 5
INVARIANTS DatabaseOutlivesItsUsers ExitCodeTells
PROPERTIES StoppedStaysQuiet CleansUpOnce StopsAtLast
\* The process ends.
CHECK_DEADLOCK FALSE
