\* One to three ranks that filter the streams of three processes and a thread.
\* vtfilter ends for good, or hangs if messages are not copied.
CONSTANTS
  Confs <- MCConfs
SPECIFICATION Spec
INVARIANT OutputRight
PROPERTY Ends
CHECK_DEADLOCK FALSE
