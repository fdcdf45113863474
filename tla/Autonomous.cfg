CONSTANT Scripts <- McScripts
SPECIFICATION Spec
INVARIANTS InTurn StopIsFinal
PROPERTIES OneTimer DriverTakesOver ScriptEnds
CHECK_DEADLOCK FALSE
