\* Two ranks that filter four streams; the last one is empty.
CONSTANTS
  Confs <- MCEmptyStream
SPECIFICATION Spec
PROPERTY EndsWhenCopied
CHECK_DEADLOCK FALSE
