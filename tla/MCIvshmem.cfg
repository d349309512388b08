\* One slot of vms[]: a second qemu gets the id MAX_VMS.  The poll thread
\* may stop for good (a NULL channel or a blocking accept), so deadlock is
\* not checked.
CONSTANTS
  MaxVms = 1
  MaxQemus = 2
  ChanCap = 1
  CtxReqs <- MCCtxReqs
  Apps <- MCApps
  MaxMsgs = 2
  MaxSignals = 2
SPECIFICATION Spec
INVARIANTS TypeOK ResponsesMatchRequests PokeAfterContextRes
PROPERTIES RequestsEventuallyRead
CHECK_DEADLOCK FALSE
